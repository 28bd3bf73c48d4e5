--------------------------- MODULE SchedulerProofs ---------------------------
(***************************************************************************)
(* Theorems about the scheduler, for every set of requests, every size of  *)
(* the cache and every configuration: no request is lost or queued twice,  *)
(* FCFS serves in the order of arrival, the model runner's states follow   *)
(* the scheduler's messages, a resumed request was not in the step before, *)
(* the token budget adds up, and under FCFS the scheduler is a client as   *)
(* the KV cache manager assumes, so that the manager's theorems hold of it.*)
(***************************************************************************)
EXTENDS Scheduler, FiniteSetTheorems, SequenceTheorems, TLAPS

-----------------------------------------------------------------------------
(* The inductive invariant                                                 *)

\* The types of the queues, of the step and of the requests' counts.
Types ==
  /\ config \in Configs
  /\ phase \in {"idle", "running", "waiting", "execute", "update", "reset"}
  /\ waiting \in Seq(Requests) /\ IsInjective(waiting)
  /\ running \in Seq(Requests) /\ IsInjective(running)
  /\ status \in [Requests -> {"waiting", "running", "finished"}]
  /\ numTokens \in [Requests -> Nat \ {0}]
  /\ numComputed \in [Requests -> Nat]
  /\ numScheduled \in [Requests -> Nat]
  /\ DOMAIN reqBlocks = Requests
  /\ tokenBudget \in Nat /\ numNewTokens \in Nat /\ reqIndex \in Nat \ {0}
  /\ preempting \in BOOLEAN
  /\ added \subseteq Requests
  /\ preempted \subseteq added /\ newReqs \subseteq added /\ prevScheduled \subseteq added
  /\ finishedReqIds \subseteq added /\ runnerReqs \subseteq added

\* Who is in which queue, and who holds blocks.
Queues ==
  \A r \in Requests :
    /\ r \in Range(running) <=> status[r] = "running"
    /\ r \in Range(waiting) <=> status[r] = "waiting" /\ r \in added
    /\ status[r] # "waiting" => r \in added
    /\ status[r] # "running" => reqBlocks[r] = << >>

\* The queues in the order of arrival.
Ordered(q) == \A i, j \in DOMAIN q : i < j => ArrivalTime[q[i]] < ArrivalTime[q[j]]

Order ==
  Policy = "fcfs" =>
    /\ Ordered(running) /\ Ordered(waiting)
    /\ \A r \in Range(running), s \in Range(waiting) : ArrivalTime[r] < ArrivalTime[s]

\* What is scheduled at which point of the step: in the running loop exactly
\* the requests before reqIndex.  While others are preempted for the request at
\* reqIndex, the number of tokens chosen for it stays within the budget and within
\* what it has left.
Step ==
  /\ phase \in {"idle", "update", "reset"} => Scheduled = {}
  /\ \A r \in Scheduled : status[r] = "running"
  /\ phase = "running" =>
       /\ newReqs = {}
       /\ reqIndex <= Len(running) + 1
       /\ \A i \in DOMAIN running : running[i] \in Scheduled <=> i < reqIndex
  /\ numNewTokens > 0 =>
       /\ phase = "running" /\ reqIndex <= Len(running) /\ numNewTokens <= tokenBudget
       /\ numNewTokens <= numTokens[running[reqIndex]] - numComputed[running[reqIndex]]

\* The requests of the step before have not been preempted since, unless the
\* running loop has done it, and then the waiting loop is not entered.
Paused ==
  /\ phase = "reset" => prevScheduled = {}
  /\ phase # "running" \/ ~preempting => \A r \in prevScheduled : status[r] # "waiting"
  /\ phase = "waiting" =>
       \A i \in reqIndex .. Len(running) :
         running[i] \in Scheduled => running[i] \notin prevScheduled

\* A request stops only while its output is looked at.
Unstopped ==
  \A r \in Requests :
    status[r] = "waiting" \/ (status[r] = "running" /\ phase # "update") => ~KV!Stopped(r)

\* The runner has a state for all that run or were preempted, except those the
\* step is about to start.
Starting == IF phase \in {"waiting", "execute"} THEN newReqs ELSE {}
Runner ==
  /\ \A r \in finishedReqIds : status[r] = "finished"
  /\ \A r \in runnerReqs : status[r] = "finished" => r \in finishedReqIds
  /\ \A r \in Requests :
       /\ status[r] = "running" \/ (status[r] = "waiting" /\ r \in preempted)
            => r \in runnerReqs \cup Starting
       /\ status[r] = "waiting" /\ r \notin preempted => r \notin runnerReqs
  /\ \A r \in Starting : status[r] = "running" /\ r \notin runnerReqs

IInv == Types /\ Queues /\ Order /\ Step /\ Paused /\ Unstopped /\ Runner

-----------------------------------------------------------------------------
(* The manager that the scheduler drives, as its proofs know it            *)

KVP == INSTANCE KVCacheManagerProofs

\* The two instances of the manager name the same operators.
LEMMA SameCardinality == \A S : KV!Cardinality(S) = Cardinality(S)
BY DEF KV!Cardinality, Cardinality

LEMMA SameKeep == ASSUME NEW s, NEW S PROVE KVP!Keep(s, S) = KV!Keep(s, S)
BY Zenon DEF KV!Keep, KVP!Keep, KV!Rank, KVP!Rank, KV!Cardinality, KVP!Cardinality

LEMMA SameAssumptions == KVP!PoolAssumption /\ KVP!ManagerAssumption
<1>1. \A S : KV!IsFiniteSet(S) = KVP!IsFiniteSet(S)
  BY DEF KV!IsFiniteSet, KVP!IsFiniteSet
<1>2. KVP!PoolAssumption
  BY KVAssumption DEF KV!PoolAssumption, KVP!PoolAssumption
<1>3. KVP!ManagerAssumption
  BY <1>1, KVAssumption DEF KV!ManagerAssumption, KVP!ManagerAssumption, KV!Hash, KVP!Hash
<1> QED BY <1>2, <1>3

\* What the scheduler's proofs use of the manager's assumptions.
LEMMA Constants ==
  /\ BlockSize \in Nat \ {0}
  /\ PromptLen \in [Requests -> Nat]
  /\ \A r \in Requests : /\ Len(Stream[r]) \in Nat
                         /\ PromptLen[r] \in 1 .. (Len(Stream[r]) - 1)
<1>1. /\ BlockSize \in Nat \ {0} /\ MaxModelLen \in Nat
      /\ PromptLen \in [Requests -> Nat]
  BY KVAssumption DEF KV!ManagerAssumption
<1>2. \A r \in Requests : /\ Len(Stream[r]) \in 1 .. MaxModelLen
                          /\ PromptLen[r] \in 1 .. (Len(Stream[r]) - 1)
  BY KVAssumption, Zenon DEF KV!ManagerAssumption
<1> QED BY <1>1, <1>2

-----------------------------------------------------------------------------
(* The queues                                                              *)

LEMMA KeepFacts ==
  ASSUME NEW q \in Seq(Requests), NEW S
  PROVE  /\ KV!Keep(q, S) \in Seq(Requests)
         /\ Range(KV!Keep(q, S)) = Range(q) \cap S
         /\ IsInjective(q) => IsInjective(KV!Keep(q, S))
<1>1. /\ KVP!Keep(q, S) \in Seq(Requests)
      /\ KVP!Range(KVP!Keep(q, S)) = KVP!Range(q) \cap S
      /\ KVP!IsInjective(q) => KVP!IsInjective(KVP!Keep(q, S))
  BY SameAssumptions, KVP!KeepProperties
<1> QED BY <1>1, SameKeep DEF KVP!Range, Range, KVP!IsInjective, IsInjective

\* The elements of a sequence are those at its positions.
LEMMA RangeFacts ==
  ASSUME NEW q \in Seq(Requests)
  PROVE  /\ Len(q) \in Nat /\ DOMAIN q = 1 .. Len(q)
         /\ \A i \in 1 .. Len(q) : q[i] \in Requests
         /\ \A x : x \in Range(q) <=> \E i \in 1 .. Len(q) : q[i] = x
BY LenProperties, ElementOfSeq DEF Range

LEMMA IntervalFacts ==
  ASSUME NEW n \in Nat PROVE IsFiniteSet(1 .. n) /\ Cardinality(1 .. n) = n
BY FS_Interval

\* The positions of the elements kept when p is left out.
LEMMA Ranks ==
  ASSUME NEW n \in Nat, NEW p \in 1 .. n, NEW i \in 1 .. n, i # p
  PROVE  KV!Rank((1 .. n) \ {p}, i) = IF i < p THEN i ELSE i - 1
<1> DEFINE J == {j \in (1 .. n) \ {p} : j <= i}
<1>1. KV!Rank((1 .. n) \ {p}, i) = Cardinality(J)
  BY SameCardinality DEF KV!Rank
<1>2. IsFiniteSet(1 .. i) /\ Cardinality(1 .. i) = i
  BY FS_Interval
<1>3. CASE i < p
  <2>1. J = 1 .. i
    BY <1>3
  <2> QED BY <1>1, <1>2, <1>3, <2>1
<1>4. CASE p < i
  <2>1. J = (1 .. i) \ {p} /\ p \in 1 .. i
    BY <1>4
  <2>2. Cardinality((1 .. i) \ {p}) = i - 1
    BY <1>2, <2>1, FS_RemoveElement
  <2> QED BY <1>1, <1>4, <2>1, <2>2
<1> QED BY <1>3, <1>4

\* remove_request of a request that is in the queue: the others move up.
LEMMA RemoveIndex ==
  ASSUME NEW q \in Seq(Requests), IsInjective(q), NEW p \in DOMAIN q
  PROVE  /\ Remove(q, q[p]) \in Seq(Requests)
         /\ Len(Remove(q, q[p])) = Len(q) - 1
         /\ \A k \in 1 .. (Len(q) - 1) : Remove(q, q[p])[k] = q[IF k < p THEN k ELSE k + 1]
<1> DEFINE n == Len(q)
           I == {i \in DOMAIN q : q[i] \in Requests \ {q[p]}}
<1>1. n \in Nat /\ DOMAIN q = 1 .. n /\ p \in 1 .. n
  BY RangeFacts
<1>2. I = (1 .. n) \ {p}
  BY <1>1, RangeFacts DEF IsInjective
<1>3. Cardinality(I) = n - 1
  <2>1. IsFiniteSet(1 .. n) /\ Cardinality(1 .. n) = n
    BY <1>1, IntervalFacts
  <2>2. Cardinality((1 .. n) \ {p}) = Cardinality(1 .. n) - 1
    BY <1>1, <2>1, FS_RemoveElement
  <2> QED BY <1>2, <2>1, <2>2
<1>4. Remove(q, q[p]) = [k \in 1 .. (n - 1) |-> q[CHOOSE i \in I : KV!Rank(I, i) = k]]
  BY <1>3, SameCardinality DEF Remove, KV!Keep
<1>5. ASSUME NEW k \in 1 .. (n - 1)
      PROVE  (CHOOSE i \in I : KV!Rank(I, i) = k) = IF k < p THEN k ELSE k + 1
  <2> DEFINE m == IF k < p THEN k ELSE k + 1
  <2>1. m \in I /\ KV!Rank(I, m) = k
    BY <1>1, <1>2, Ranks
  <2>2. ASSUME NEW i \in I, KV!Rank(I, i) = k PROVE i = m
    <3>1. i \in 1 .. n /\ i # p /\ k = IF i < p THEN i ELSE i - 1
      BY <1>1, <1>2, <2>2, Ranks
    <3> QED BY <3>1, <1>1
  <2> QED BY <2>1, <2>2
<1> HIDE DEF I
<1>6. \A k \in 1 .. (n - 1) : Remove(q, q[p])[k] = q[IF k < p THEN k ELSE k + 1]
  BY <1>4, <1>5
<1>7. Remove(q, q[p]) \in Seq(Requests)
  BY KeepFacts DEF Remove
<1>8. Len(Remove(q, q[p])) = n - 1
  BY <1>1, <1>4, <1>7, RangeFacts
<1> QED BY <1>6, <1>7, <1>8

\* remove_request of a request that is not in the queue.
LEMMA RemoveAbsent ==
  ASSUME NEW q \in Seq(Requests), NEW r \in Requests, r \notin Range(q)
  PROVE  Remove(q, r) = q
<1> DEFINE n == Len(q)
           I == {i \in DOMAIN q : q[i] \in Requests \ {r}}
<1>1. n \in Nat /\ DOMAIN q = 1 .. n
  BY RangeFacts
<1>2. I = 1 .. n
  BY <1>1, RangeFacts
<1>3. Cardinality(I) = n
  BY <1>1, <1>2, IntervalFacts
<1>4. Remove(q, r) = [k \in 1 .. n |-> q[CHOOSE i \in I : KV!Rank(I, i) = k]]
  BY <1>3, SameCardinality DEF Remove, KV!Keep
<1>5. ASSUME NEW i \in 1 .. n PROVE KV!Rank(I, i) = i
  <2>1. {j \in I : j <= i} = 1 .. i
    BY <1>1, <1>2
  <2>2. Cardinality(1 .. i) = i
    BY FS_Interval
  <2> QED BY <2>1, <2>2, SameCardinality DEF KV!Rank
<1>6. ASSUME NEW k \in 1 .. n PROVE (CHOOSE i \in I : KV!Rank(I, i) = k) = k
  BY <1>2, <1>5
<1> HIDE DEF I
<1>7. Remove(q, r) = [k \in 1 .. n |-> q[k]]
  BY <1>4, <1>6
<1>8. q = [k \in 1 .. n |-> q[k]]
  BY <1>1, SeqDef
<1> QED BY <1>7, <1>8

\* What remove_request does to a queue, whether or not the request is in it.
LEMMA RemoveFacts ==
  ASSUME NEW q \in Seq(Requests), IsInjective(q), NEW r \in Requests
  PROVE  /\ Remove(q, r) \in Seq(Requests) /\ IsInjective(Remove(q, r))
         /\ Range(Remove(q, r)) = Range(q) \ {r}
         /\ Ordered(q) => Ordered(Remove(q, r))
<1>1. /\ Remove(q, r) \in Seq(Requests) /\ IsInjective(Remove(q, r))
      /\ Range(Remove(q, r)) = Range(q) \cap (Requests \ {r})
  BY KeepFacts DEF Remove
<1>2. Range(Remove(q, r)) = Range(q) \ {r}
  BY <1>1, RangeFacts
<1>3. ASSUME Ordered(q) PROVE Ordered(Remove(q, r))
  <2>1. CASE r \notin Range(q)
    BY <2>1, <1>3, RemoveAbsent
  <2>2. CASE r \in Range(q)
    <3>1. PICK p \in DOMAIN q : q[p] = r
      BY <2>2 DEF Range
    <3> DEFINE t == Remove(q, r)
               n == Len(q)
    <3>2. /\ t \in Seq(Requests) /\ Len(t) = n - 1
          /\ \A k \in 1 .. (n - 1) : t[k] = q[IF k < p THEN k ELSE k + 1]
      BY <3>1, RemoveIndex
    <3>3. n \in Nat /\ DOMAIN q = 1 .. n /\ DOMAIN t = 1 .. (n - 1) /\ p \in 1 .. n
      BY <3>2, RangeFacts
    <3> HIDE DEF t, n
    <3>4. Ordered(t)
      <4> SUFFICES ASSUME NEW i \in DOMAIN t, NEW j \in DOMAIN t, i < j
                   PROVE  ArrivalTime[t[i]] < ArrivalTime[t[j]]
        BY DEF Ordered
      <4> DEFINE a == IF i < p THEN i ELSE i + 1
                 b == IF j < p THEN j ELSE j + 1
      <4>1. a \in DOMAIN q /\ b \in DOMAIN q /\ a < b /\ t[i] = q[a] /\ t[j] = q[b]
        BY <3>2, <3>3
      <4> HIDE DEF a, b
      <4> QED BY <1>3, <4>1 DEF Ordered
    <3> QED BY <3>4 DEF t
  <2> QED BY <2>1, <2>2
<1> QED BY <1>1, <1>2, <1>3

LEMMA ConcatFacts ==
  ASSUME NEW s \in Seq(Requests), NEW t \in Seq(Requests)
  PROVE  /\ s \o t \in Seq(Requests)
         /\ Range(s \o t) = Range(s) \cup Range(t)
         /\ IsInjective(s) /\ IsInjective(t) /\ Range(s) \cap Range(t) = {}
              => IsInjective(s \o t)
<1>1. /\ s \o t \in Seq(Requests)
      /\ KVP!Range(s \o t) = KVP!Range(s) \cup KVP!Range(t)
      /\ KVP!IsInjective(s) /\ KVP!IsInjective(t) /\ KVP!Range(s) \cap KVP!Range(t) = {}
           => KVP!IsInjective(s \o t)
  BY SameAssumptions, KVP!ConcatRange
<1> QED BY <1>1 DEF KVP!Range, Range, KVP!IsInjective, IsInjective

LEMMA SingletonFacts ==
  ASSUME NEW r \in Requests
  PROVE  <<r>> \in Seq(Requests) /\ Range(<<r>>) = {r} /\ IsInjective(<<r>>)
BY DEF Range, IsInjective

\* heappush on the priority queue.
LEMMA InsertFacts ==
  ASSUME NEW q \in Seq(Requests), IsInjective(q), NEW r \in Requests, r \notin Range(q)
  PROVE  /\ Insert(q, r) \in Seq(Requests) /\ IsInjective(Insert(q, r))
         /\ Range(Insert(q, r)) = Range(q) \cup {r}
<1> DEFINE lo == KV!Keep(q, {s \in Requests : Less(s, r)})
           hi == KV!Keep(q, {s \in Requests : Less(r, s)})
<1>1. /\ Priority \in [Requests -> Int] /\ ArrivalTime \in [Requests -> Nat]
      /\ \A x, y \in Requests : ArrivalTime[x] = ArrivalTime[y] => x = y
  BY SchedulerAssumption
<1>2. /\ \A s \in Requests : s = r \/ Less(s, r) \/ Less(r, s)
      /\ \A s \in Requests : ~(Less(s, r) /\ Less(r, s)) /\ ~Less(r, r)
  BY <1>1 DEF Less
<1>3. /\ lo \in Seq(Requests) /\ IsInjective(lo)
      /\ Range(lo) = {s \in Range(q) : Less(s, r)}
      /\ hi \in Seq(Requests) /\ IsInjective(hi)
      /\ Range(hi) = {s \in Range(q) : Less(r, s)}
  <2>1. \A s \in Range(q) : s \in Requests
    BY RangeFacts
  <2> QED BY <2>1, KeepFacts
<1> HIDE DEF lo, hi
<1>4. /\ lo \o <<r>> \in Seq(Requests) /\ IsInjective(lo \o <<r>>)
      /\ Range(lo \o <<r>>) = Range(lo) \cup {r}
  <2>1. Range(lo) \cap Range(<<r>>) = {}
    BY <1>3, SingletonFacts
  <2>2. lo \o <<r>> \in Seq(Requests) /\ Range(lo \o <<r>>) = Range(lo) \cup {r}
    <3>1. lo \o <<r>> \in Seq(Requests) /\ Range(lo \o <<r>>) = Range(lo) \cup Range(<<r>>)
      BY <1>3, SingletonFacts, ConcatFacts
    <3> QED BY <3>1, SingletonFacts
  <2>3. IsInjective(lo \o <<r>>)
    BY <1>3, <2>1, SingletonFacts, ConcatFacts
  <2> QED BY <2>2, <2>3
<1>5. (Range(lo) \cup {r}) \cap Range(hi) = {}
  BY <1>2, <1>3, RangeFacts
<1>6. /\ (lo \o <<r>>) \o hi \in Seq(Requests) /\ IsInjective((lo \o <<r>>) \o hi)
      /\ Range((lo \o <<r>>) \o hi) = (Range(lo) \cup {r}) \cup Range(hi)
  BY <1>3, <1>4, <1>5, ConcatFacts
<1>7. (Range(lo) \cup {r}) \cup Range(hi) = Range(q) \cup {r}
  BY <1>2, <1>3, RangeFacts
<1>8. Insert(q, r) = (lo \o <<r>>) \o hi
  BY DEF Insert, lo, hi
<1> QED BY <1>6, <1>7, <1>8

\* add_request and prepend_request of both queues.
LEMMA QueueFacts ==
  ASSUME NEW q \in Seq(Requests), IsInjective(q), NEW r \in Requests, r \notin Range(q)
  PROVE  /\ AddToQueue(q, r) \in Seq(Requests) /\ IsInjective(AddToQueue(q, r))
         /\ Range(AddToQueue(q, r)) = Range(q) \cup {r}
         /\ PrependToQueue(q, r) \in Seq(Requests) /\ IsInjective(PrependToQueue(q, r))
         /\ Range(PrependToQueue(q, r)) = Range(q) \cup {r}
<1>1. Append(q, r) = q \o <<r>>
  BY AppendIsConcat
<1>2. Range(q) \cap Range(<<r>>) = {} /\ Range(<<r>>) \cap Range(q) = {}
  BY SingletonFacts
<1>3. /\ q \o <<r>> \in Seq(Requests) /\ IsInjective(q \o <<r>>)
      /\ Range(q \o <<r>>) = Range(q) \cup {r}
  BY <1>2, SingletonFacts, ConcatFacts
<1>4. /\ <<r>> \o q \in Seq(Requests) /\ IsInjective(<<r>> \o q)
      /\ Range(<<r>> \o q) = Range(q) \cup {r}
  <2>1. Range(<<r>> \o q) = {r} \cup Range(q) /\ <<r>> \o q \in Seq(Requests)
    BY SingletonFacts, ConcatFacts
  <2>2. IsInjective(<<r>> \o q)
    BY <1>2, SingletonFacts, ConcatFacts
  <2> QED BY <2>1, <2>2
<1> QED BY <1>1, <1>3, <1>4, InsertFacts DEF AddToQueue, PrependToQueue

\* A request put at the end of a list, or of the FCFS queue.
LEMMA AppendFacts ==
  ASSUME NEW q \in Seq(Requests), IsInjective(q), NEW r \in Requests, r \notin Range(q)
  PROVE  /\ Append(q, r) \in Seq(Requests) /\ IsInjective(Append(q, r))
         /\ Range(Append(q, r)) = Range(q) \cup {r}
         /\ Len(Append(q, r)) = Len(q) + 1 /\ Append(q, r)[Len(q) + 1] = r
         /\ \A i \in 1 .. Len(q) : Append(q, r)[i] = q[i]
         /\ Ordered(q) /\ (\A s \in Range(q) : ArrivalTime[s] < ArrivalTime[r])
              => Ordered(Append(q, r))
<1> DEFINE t == Append(q, r)
<1>1. /\ t \in Seq(Requests) /\ Len(t) = Len(q) + 1 /\ t[Len(q) + 1] = r
      /\ \A i \in 1 .. Len(q) : t[i] = q[i]
  BY AppendProperties, RangeFacts
<1> HIDE DEF t
<1>2. /\ Len(q) \in Nat /\ DOMAIN q = 1 .. Len(q) /\ DOMAIN t = 1 .. (Len(q) + 1)
      /\ \A x : x \in Range(q) <=> \E i \in 1 .. Len(q) : q[i] = x
      /\ \A x : x \in Range(t) <=> \E i \in 1 .. (Len(q) + 1) : t[i] = x
  BY <1>1, RangeFacts
<1>3. Range(t) = Range(q) \cup {r}
  <2>1. \A x : x \in Range(t) <=> x \in Range(q) \/ x = r
    BY <1>1, <1>2
  <2> QED BY <2>1
<1>4. IsInjective(t)
  BY <1>1, <1>2 DEF IsInjective
<1>5. ASSUME Ordered(q), \A s \in Range(q) : ArrivalTime[s] < ArrivalTime[r]
      PROVE  Ordered(t)
  <2> SUFFICES ASSUME NEW i \in DOMAIN t, NEW j \in DOMAIN t, i < j
               PROVE  ArrivalTime[t[i]] < ArrivalTime[t[j]]
    BY DEF Ordered
  <2>1. i \in DOMAIN q /\ t[i] = q[i] /\ q[i] \in Range(q)
    BY <1>1, <1>2
  <2>2. CASE j \in DOMAIN q
    BY <1>1, <1>2, <1>5, <2>1, <2>2 DEF Ordered
  <2>3. CASE j \notin DOMAIN q
    BY <1>1, <1>2, <1>5, <2>1, <2>3
  <2> QED BY <2>2, <2>3
<1> QED BY <1>1, <1>3, <1>4, <1>5 DEF t

\* A request put back at the front of the FCFS queue.
LEMMA PrependOrdered ==
  ASSUME NEW q \in Seq(Requests), Ordered(q), NEW r \in Requests,
         \A s \in Range(q) : ArrivalTime[r] < ArrivalTime[s]
  PROVE  Ordered(<<r>> \o q)
<1> DEFINE t == <<r>> \o q
<1>1. /\ t \in Seq(Requests) /\ Len(t) = Len(q) + 1 /\ t[1] = r
      /\ \A i \in 2 .. (Len(q) + 1) : t[i] = q[i - 1]
  BY RangeFacts
<1> HIDE DEF t
<1>2. /\ Len(q) \in Nat /\ DOMAIN q = 1 .. Len(q) /\ DOMAIN t = 1 .. (Len(q) + 1)
      /\ \A x : x \in Range(q) <=> \E i \in 1 .. Len(q) : q[i] = x
  BY <1>1, RangeFacts
<1>3. ASSUME NEW i \in DOMAIN t, NEW j \in DOMAIN t, i < j
      PROVE  ArrivalTime[t[i]] < ArrivalTime[t[j]]
  <2>1. j - 1 \in DOMAIN q /\ t[j] = q[j - 1] /\ q[j - 1] \in Range(q)
    BY <1>1, <1>2, <1>3
  <2>2. CASE i = 1
    BY <1>1, <2>1, <2>2
  <2>3. CASE i # 1
    <3>1. i - 1 \in DOMAIN q /\ t[i] = q[i - 1] /\ i - 1 < j - 1
      BY <1>1, <1>2, <1>3, <2>3
    <3> QED BY <2>1, <3>1 DEF Ordered
  <2> QED BY <2>2, <2>3
<1> QED BY <1>3 DEF Ordered, t

\* pop_request: the head leaves the queue.
LEMMA TailFacts ==
  ASSUME NEW q \in Seq(Requests), IsInjective(q), q # << >>
  PROVE  /\ Head(q) \in Requests /\ Head(q) \in Range(q)
         /\ Tail(q) \in Seq(Requests) /\ IsInjective(Tail(q))
         /\ Range(Tail(q)) = Range(q) \ {Head(q)}
         /\ Ordered(q) => /\ Ordered(Tail(q))
                          /\ \A s \in Range(Tail(q)) : ArrivalTime[Head(q)] < ArrivalTime[s]
<1> DEFINE t == Tail(q)
<1>1. /\ t \in Seq(Requests) /\ Len(t) = Len(q) - 1 /\ Len(q) >= 1
      /\ \A i \in 1 .. (Len(q) - 1) : t[i] = q[i + 1]
      /\ Head(q) = q[1]
  BY HeadTailProperties, EmptySeq, RangeFacts
<1> HIDE DEF t
<1>2. /\ Len(q) \in Nat /\ DOMAIN q = 1 .. Len(q) /\ DOMAIN t = 1 .. (Len(q) - 1)
      /\ \A i \in 1 .. Len(q) : q[i] \in Requests
      /\ \A x : x \in Range(q) <=> \E i \in 1 .. Len(q) : q[i] = x
      /\ \A x : x \in Range(t) <=> \E i \in 1 .. (Len(q) - 1) : t[i] = x
  BY <1>1, RangeFacts
<1>3. \A i, j \in 1 .. Len(q) : q[i] = q[j] => i = j
  BY <1>2 DEF IsInjective
<1>4. Head(q) \in Requests /\ Head(q) \in Range(q)
  BY <1>1, <1>2
<1>5. IsInjective(t)
  BY <1>1, <1>2, <1>3 DEF IsInjective
<1>6. Range(t) = Range(q) \ {Head(q)}
  <2>1. ASSUME NEW x \in Range(t) PROVE x \in Range(q) \ {Head(q)}
    <3>1. PICK i \in 1 .. (Len(q) - 1) : t[i] = x
      BY <1>2
    <3>2. x = q[i + 1] /\ i + 1 \in 1 .. Len(q) /\ i + 1 # 1
      BY <3>1, <1>1, <1>2
    <3> QED BY <3>2, <1>1, <1>2, <1>3
  <2>2. ASSUME NEW x \in Range(q) \ {Head(q)} PROVE x \in Range(t)
    <3>1. PICK i \in 1 .. Len(q) : q[i] = x
      BY <1>2
    <3>2. i # 1 /\ i - 1 \in 1 .. (Len(q) - 1)
      BY <3>1, <1>1, <1>2
    <3>3. t[i - 1] = x
      BY <3>1, <3>2, <1>1
    <3> QED BY <3>2, <3>3, <1>2
  <2> QED BY <2>1, <2>2
<1>7. ASSUME Ordered(q)
      PROVE  Ordered(t) /\ \A s \in Range(t) : ArrivalTime[Head(q)] < ArrivalTime[s]
  <2>1. ASSUME NEW i \in DOMAIN t, NEW j \in DOMAIN t, i < j
        PROVE  ArrivalTime[t[i]] < ArrivalTime[t[j]]
    <3>1. /\ i + 1 \in DOMAIN q /\ j + 1 \in DOMAIN q /\ i + 1 < j + 1
          /\ t[i] = q[i + 1] /\ t[j] = q[j + 1]
      BY <1>1, <1>2, <2>1
    <3> QED BY <3>1, <1>7 DEF Ordered
  <2>2. ASSUME NEW s \in Range(t) PROVE ArrivalTime[Head(q)] < ArrivalTime[s]
    <3>1. PICK i \in 1 .. (Len(q) - 1) : t[i] = s
      BY <1>2
    <3>2. s = q[i + 1] /\ i + 1 \in DOMAIN q /\ 1 \in DOMAIN q /\ 1 < i + 1
      BY <3>1, <1>1, <1>2
    <3> QED BY <3>2, <1>1, <1>7 DEF Ordered
  <2> QED BY <2>1, <2>2 DEF Ordered
<1> QED BY <1>1, <1>4, <1>5, <1>6, <1>7 DEF t

\* running.pop(): the last request leaves the list.
LEMMA FrontFacts ==
  ASSUME NEW q \in Seq(Requests), IsInjective(q), q # << >>
  PROVE  /\ Len(q) \in DOMAIN q
         /\ SubSeq(q, 1, Len(q) - 1) = Remove(q, q[Len(q)])
         /\ Ordered(q) => \A s \in Range(q) \ {q[Len(q)]} : ArrivalTime[s] < ArrivalTime[q[Len(q)]]
<1> DEFINE n == Len(q)
           t == Remove(q, q[n])
<1>1. n \in Nat /\ n >= 1 /\ DOMAIN q = 1 .. n
  BY EmptySeq, RangeFacts
<1>2. /\ t \in Seq(Requests) /\ Len(t) = n - 1
      /\ \A k \in 1 .. (n - 1) : t[k] = q[k]
  <2>1. n \in DOMAIN q
    BY <1>1
  <2>2. /\ t \in Seq(Requests) /\ Len(t) = n - 1
        /\ \A k \in 1 .. (n - 1) : t[k] = q[IF k < n THEN k ELSE k + 1]
    BY <2>1, RemoveIndex
  <2> HIDE DEF t, n
  <2> QED BY <1>1, <2>2
<1>3. SubSeq(q, 1, n - 1) = [k \in 1 .. (n - 1) |-> q[k]]
  BY <1>1
<1> HIDE DEF t, n
<1>4. t = [k \in 1 .. (n - 1) |-> q[k]]
  BY <1>1, <1>2, SeqDef
<1>5. ASSUME Ordered(q), NEW s \in Range(q) \ {q[n]} PROVE ArrivalTime[s] < ArrivalTime[q[n]]
  <2>1. PICK i \in 1 .. n : q[i] = s
    BY <1>1 DEF Range
  <2>2. i < n
    BY <1>1, <2>1
  <2> QED BY <1>1, <1>5, <2>1, <2>2 DEF Ordered
<1> QED BY <1>1, <1>3, <1>4, <1>5 DEF t, n

-----------------------------------------------------------------------------
(* Requests that change queues                                             *)

\* What the queue operations preserve.
QueueTypes ==
  /\ waiting \in Seq(Requests) /\ IsInjective(waiting)
  /\ running \in Seq(Requests) /\ IsInjective(running)
  /\ status \in [Requests -> {"waiting", "running", "finished"}]
  /\ DOMAIN reqBlocks = Requests

\* _preempt_request: from the running list, under FCFS its end, to the front of
\* the waiting queue.
LEMMA PreemptQueues ==
  ASSUME Types, Queues, Order, NEW v \in Requests, status[v] = "running",
         PreemptRequest(v), running' = Remove(running, v),
         Policy = "fcfs" => v = running[Len(running)],
         UNCHANGED <<config, added>>
  PROVE  QueueTypes' /\ Queues' /\ Order'
<1>1. /\ waiting \in Seq(Requests) /\ IsInjective(waiting)
      /\ running \in Seq(Requests) /\ IsInjective(running)
      /\ v \in Range(running) /\ v \notin Range(waiting) /\ v \in added
  BY DEF Types, Queues
<1>2. /\ waiting' \in Seq(Requests) /\ IsInjective(waiting')
      /\ Range(waiting') = Range(waiting) \cup {v}
  BY <1>1, QueueFacts DEF PreemptRequest
<1>3. /\ running' \in Seq(Requests) /\ IsInjective(running')
      /\ Range(running') = Range(running) \ {v}
      /\ Ordered(running) => Ordered(running')
  BY <1>1, RemoveFacts
<1>4. /\ status' = [status EXCEPT ![v] = "waiting"]
      /\ reqBlocks' = [reqBlocks EXCEPT ![v] = << >>]
  BY DEF PreemptRequest, KV!Free
<1>5. QueueTypes'
  BY <1>2, <1>3, <1>4 DEF QueueTypes, Types
<1>6. Queues'
  BY <1>1, <1>2, <1>3, <1>4 DEF Queues, Types
<1>7. ASSUME Policy' = "fcfs" PROVE Order'
  <2>1. Policy = "fcfs"
    BY <1>7 DEF Policy
  <2>2. /\ Ordered(running) /\ Ordered(waiting) /\ v = running[Len(running)]
        /\ \A r \in Range(running), s \in Range(waiting) : ArrivalTime[r] < ArrivalTime[s]
    BY <2>1 DEF Order
  <2>3. running # << >>
    BY <1>1, EmptySeq DEF Range
  <2>4. \A s \in Range(running) \ {v} : ArrivalTime[s] < ArrivalTime[v]
    BY <1>1, <2>2, <2>3, FrontFacts
  <2>5. waiting' = <<v>> \o waiting
    BY <2>1 DEF PreemptRequest, PrependToQueue
  <2>6. Ordered(waiting')
    BY <1>1, <2>2, <2>5, PrependOrdered
  <2>7. \A r \in Range(running'), s \in Range(waiting') : ArrivalTime[r] < ArrivalTime[s]
    BY <1>2, <1>3, <2>2, <2>4
  <2> QED BY <1>3, <2>2, <2>6, <2>7 DEF Order, Ordered, Range
<1> QED BY <1>5, <1>6, <1>7 DEF Order

\* _free_request: out of both queues.
LEMMA FinishQueues ==
  ASSUME Types, Queues, Order, NEW r \in added, FreeRequest(r),
         running' = Remove(running, r), waiting' = Remove(waiting, r),
         UNCHANGED <<config, added>>
  PROVE  QueueTypes' /\ Queues' /\ Order'
<1>1. /\ waiting \in Seq(Requests) /\ IsInjective(waiting)
      /\ running \in Seq(Requests) /\ IsInjective(running)
      /\ r \in Requests
  BY DEF Types
<1>2. /\ waiting' \in Seq(Requests) /\ IsInjective(waiting')
      /\ Range(waiting') = Range(waiting) \ {r}
      /\ Ordered(waiting) => Ordered(waiting')
  BY <1>1, RemoveFacts
<1>3. /\ running' \in Seq(Requests) /\ IsInjective(running')
      /\ Range(running') = Range(running) \ {r}
      /\ Ordered(running) => Ordered(running')
  BY <1>1, RemoveFacts
<1>4. /\ status' = [status EXCEPT ![r] = "finished"]
      /\ reqBlocks' = [reqBlocks EXCEPT ![r] = << >>]
  BY DEF FreeRequest, KV!Free
<1>5. QueueTypes'
  BY <1>2, <1>3, <1>4 DEF QueueTypes, Types
<1>6. Queues'
  BY <1>1, <1>2, <1>3, <1>4 DEF Queues, Types
<1>7. Order'
  BY <1>2, <1>3 DEF Order, Policy, Ordered, Range
<1> QED BY <1>5, <1>6, <1>7

\* add_request: a request that arrives after all others, into the queue.
LEMMA AddQueues ==
  ASSUME Types, Queues, Order, NEW r \in Requests, AddRequest(r)
  PROVE  QueueTypes' /\ Queues' /\ Order'
<1>1. /\ waiting \in Seq(Requests) /\ IsInjective(waiting)
      /\ r \notin Range(waiting) /\ status[r] = "waiting"
      /\ \A s \in Range(running) \cup Range(waiting) : s \in added
      /\ \A s \in added : ArrivalTime[s] < ArrivalTime[r]
  <2>1. running \in Seq(Requests) /\ waiting \in Seq(Requests)
    BY DEF Types
  <2>2. \A s \in Range(running) \cup Range(waiting) : s \in Requests
    BY <2>1, RangeFacts
  <2> QED BY <2>2 DEF Types, Queues, AddRequest
<1>2. /\ waiting' \in Seq(Requests) /\ IsInjective(waiting')
      /\ Range(waiting') = Range(waiting) \cup {r}
  BY <1>1, QueueFacts DEF AddRequest
<1>3. /\ added' = added \cup {r}
      /\ UNCHANGED <<running, status, reqBlocks, config>>
  BY DEF AddRequest, kvVars, managerVars, requestVars
<1>4. QueueTypes'
  BY <1>2, <1>3 DEF QueueTypes, Types
<1>5. Queues'
  BY <1>1, <1>2, <1>3 DEF Queues, Types
<1>6. ASSUME Policy' = "fcfs" PROVE Order'
  <2>1. Policy = "fcfs"
    BY <1>3, <1>6 DEF Policy
  <2>2. waiting' = Append(waiting, r)
    BY <2>1 DEF AddRequest, AddToQueue
  <2>3. Ordered(waiting')
    BY <1>1, <2>1, <2>2, AppendFacts DEF Order
  <2>4. \A x \in Range(running), s \in Range(waiting') : ArrivalTime[x] < ArrivalTime[s]
    BY <1>1, <1>2, <2>1 DEF Order
  <2> QED BY <1>3, <2>1, <2>3, <2>4 DEF Order, Ordered, Range
<1> QED BY <1>4, <1>5, <1>6 DEF Order

\* The waiting loop moves the head of the queue to the end of the running list.
LEMMA StartQueues ==
  ASSUME Types, Queues, Order, ScheduleWaiting
  PROVE  /\ QueueTypes' /\ Queues' /\ Order'
         /\ Head(waiting) \in Requests /\ status[Head(waiting)] = "waiting"
         /\ Head(waiting) \in added /\ Head(waiting) \notin Range(running)
<1> DEFINE r == Head(waiting)
<1>1. /\ waiting \in Seq(Requests) /\ IsInjective(waiting) /\ waiting # << >>
      /\ running \in Seq(Requests) /\ IsInjective(running)
  BY DEF Types, ScheduleWaiting, InWaitingLoop
<1>2. /\ r \in Requests /\ r \in Range(waiting)
      /\ Tail(waiting) \in Seq(Requests) /\ IsInjective(Tail(waiting))
      /\ Range(Tail(waiting)) = Range(waiting) \ {r}
      /\ Ordered(waiting) => /\ Ordered(Tail(waiting))
                             /\ \A s \in Range(Tail(waiting)) : ArrivalTime[r] < ArrivalTime[s]
  BY <1>1, TailFacts
<1>3. status[r] = "waiting" /\ r \in added /\ r \notin Range(running)
  BY <1>2 DEF Queues
<1>4. /\ waiting' = Tail(waiting) /\ running' = Append(running, r)
      /\ status' = [status EXCEPT ![r] = "running"]
      /\ UNCHANGED <<added, config>>
  BY DEF ScheduleWaiting
<1>5. /\ running' \in Seq(Requests) /\ IsInjective(running')
      /\ Range(running') = Range(running) \cup {r}
      /\ Ordered(running) /\ (\A s \in Range(running) : ArrivalTime[s] < ArrivalTime[r])
           => Ordered(running')
  BY <1>1, <1>2, <1>3, <1>4, AppendFacts
<1>6. PICK blks : reqBlocks' = [reqBlocks EXCEPT ![r] = blks]
  BY DEF ScheduleWaiting, KV!AllocateSlots
<1>7. /\ waiting' \in Seq(Requests) /\ IsInjective(waiting')
      /\ Range(waiting') = Range(waiting) \ {r}
  BY <1>2, <1>4
<1> HIDE DEF r
<1>8. QueueTypes'
  BY <1>2, <1>4, <1>5, <1>6, <1>7 DEF QueueTypes, Types
<1>9. Queues'
  BY <1>2, <1>3, <1>4, <1>5, <1>6, <1>7 DEF Queues, Types
<1>10. Order'
  <2>1. ASSUME Policy' = "fcfs" PROVE Order'
    <3>1. /\ Ordered(running) /\ Ordered(waiting)
          /\ \A x \in Range(running), s \in Range(waiting) : ArrivalTime[x] < ArrivalTime[s]
      BY <1>4, <2>1 DEF Order, Policy
    <3>2. Ordered(running') /\ Ordered(Tail(waiting))
      BY <1>2, <1>5, <3>1
    <3>3. \A x \in Range(running'), s \in Range(waiting') : ArrivalTime[x] < ArrivalTime[s]
      BY <1>2, <1>4, <1>5, <1>7, <3>1
    <3> QED BY <1>4, <3>2, <3>3 DEF Order, Ordered, Range
  <2> QED BY <2>1 DEF Order
<1> QED BY <1>2, <1>3, <1>8, <1>9, <1>10 DEF r

-----------------------------------------------------------------------------
(* Every step preserves the invariant                                      *)

LEMMA AddIInv ==
  ASSUME IInv, NEW r \in Requests, AddRequest(r) PROVE IInv'
<1>1. QueueTypes' /\ Queues' /\ Order'
  BY AddQueues DEF IInv
<1>2. /\ phase = "idle" /\ added' = added \cup {r}
      /\ UNCHANGED <<phase, running, reqIndex, tokenBudget, numNewTokens, preempting, newReqs, preempted,
                     prevScheduled, finishedReqIds, runnerReqs, config,
                     status, numTokens, numComputed, numScheduled>>
  BY DEF AddRequest, stepVars, kvVars, requestVars
<1>3. Types'
  BY <1>1, <1>2 DEF IInv, Types, QueueTypes
<1>4. Step'
  BY <1>2 DEF IInv, Step, Scheduled
<1>5. Paused'
  BY <1>2 DEF IInv, Paused, Scheduled
<1>6. Unstopped'
  BY <1>2 DEF IInv, Unstopped, KV!Stopped
<1>7. Runner'
  BY <1>2 DEF IInv, Runner, Starting
<1> QED BY <1>1, <1>3, <1>4, <1>5, <1>6, <1>7 DEF IInv

\* Between two steps, or while the output is looked at.
LEMMA FinishIInv ==
  ASSUME IInv, phase \in {"idle", "update"}, NEW r \in added, FreeRequest(r),
         running' = Remove(running, r), waiting' = Remove(waiting, r),
         UNCHANGED <<phase, stepVars, preempted, prevScheduled, added, runnerReqs, resets, config>>
  PROVE  IInv'
<1>1. QueueTypes' /\ Queues' /\ Order'
  BY FinishQueues DEF IInv
<1>2. /\ r \in Requests
      /\ status' = [status EXCEPT ![r] = "finished"]
      /\ finishedReqIds' = finishedReqIds \cup {r}
      /\ UNCHANGED <<reqIndex, tokenBudget, numNewTokens, preempting, newReqs, numTokens, numComputed, numScheduled>>
  BY DEF FreeRequest, stepVars, IInv, Types
<1>3. Types'
  BY <1>1, <1>2 DEF IInv, Types, QueueTypes
<1>4. Step'
  BY <1>2 DEF IInv, Step, Scheduled, Types
<1>5. Paused'
  BY <1>2 DEF IInv, Paused, Types
<1>6. Unstopped'
  BY <1>2 DEF IInv, Unstopped, KV!Stopped, Types
<1>7. Runner'
  BY <1>2 DEF IInv, Runner, Starting, Types
<1> QED BY <1>1, <1>3, <1>4, <1>5, <1>6, <1>7 DEF IInv

LEMMA AbortIInv ==
  ASSUME IInv, NEW r \in Requests, Abort(r) PROVE IInv'
BY FinishIInv DEF Abort

LEMMA FinishStoppedIInv ==
  ASSUME IInv, FinishStopped PROVE IInv'
<1>1. PICK i \in DOMAIN running :
        running[i] \in StoppedReqs /\ FreeRequest(running[i]) /\ running' = Remove(running, running[i])
  BY DEF FinishStopped
<1> DEFINE r == running[i]
<1>2. r \in Requests /\ r \in Range(running) /\ waiting \in Seq(Requests)
  BY RangeFacts DEF IInv, Types, Range
<1>3. r \in added /\ r \notin Range(waiting)
  BY <1>2 DEF IInv, Queues
<1>4. waiting' = Remove(waiting, r)
  BY <1>2, <1>3, RemoveAbsent DEF FinishStopped
<1> QED BY <1>1, <1>3, <1>4, FinishIInv DEF FinishStopped

LEMMA StartScheduleIInv ==
  ASSUME IInv, StartSchedule PROVE IInv'
<1>1. /\ phase = "idle" /\ phase' = "running" /\ reqIndex' = 1 /\ newReqs' = {}
      /\ preempting' = FALSE /\ tokenBudget' = MaxScheduledTokens /\ numNewTokens' = 0
      /\ UNCHANGED <<waiting, running, preempted, prevScheduled, finishedReqIds, added,
                     runnerReqs, config, status, numTokens, numComputed, numScheduled, reqBlocks>>
  BY DEF StartSchedule, kvVars, requestVars, managerVars
<1>2. MaxScheduledTokens \in Nat
  BY SchedulerAssumption DEF IInv, Types, MaxScheduledTokens
<1>3. Types'
  <2>1. tokenBudget' \in Nat /\ newReqs' \subseteq added'
    BY <1>1, <1>2
  <2>2. preempting' \in BOOLEAN
    BY <1>1
  <2> QED BY <1>1, <2>1, <2>2 DEF IInv, Types
<1>4. Queues' /\ Order' /\ Paused' /\ Unstopped'
  BY <1>1 DEF IInv, Queues, Order, Policy, Ordered, Range, Paused, Unstopped, KV!Stopped
<1>5. Step'
  <2>1. running \in Seq(Requests) /\ Len(running) \in Nat /\ DOMAIN running = 1 .. Len(running)
    BY RangeFacts DEF IInv, Types
  <2>2. \A i \in DOMAIN running : ~(i < 1) /\ running[i] \notin Scheduled
    BY <1>1, <2>1 DEF IInv, Step
  <2> QED BY <1>1, <2>1, <2>2 DEF IInv, Step, Scheduled
<1>6. Runner'
  BY <1>1 DEF IInv, Runner, Starting
<1> QED BY <1>3, <1>4, <1>5, <1>6 DEF IInv

\* The steps that only move on to another phase.
LEMMA EndRunningIInv ==
  ASSUME IInv, EndRunning PROVE IInv'
<1>1. /\ phase = "running" /\ phase' = (IF preempting THEN "execute" ELSE "waiting")
      /\ prevScheduled' = (IF preempting THEN Scheduled ELSE prevScheduled)
      /\ ~(reqIndex <= Len(running) /\ tokenBudget > 0)
      /\ UNCHANGED <<waiting, running, preempted, finishedReqIds, added, reqIndex, tokenBudget,
                     numNewTokens, preempting, newReqs, runnerReqs, config, status, numTokens, numComputed,
                     numScheduled, reqBlocks>>
  BY DEF EndRunning, kvVars, requestVars, managerVars, stepVars
<1>2. Scheduled \subseteq added
  BY DEF IInv, Step, Queues, Scheduled
<1>3. Types'
  <2>1. phase' \in {"execute", "waiting"} /\ prevScheduled' \subseteq added
    BY <1>1, <1>2 DEF IInv, Types
  <2> QED BY <1>1, <2>1 DEF IInv, Types
<1>4. Queues' /\ Order' /\ Unstopped'
  BY <1>1 DEF IInv, Queues, Order, Policy, Ordered, Range, Unstopped, KV!Stopped
<1>8. numNewTokens = 0
  <2>1. numNewTokens \in Nat /\ tokenBudget \in Nat
    BY DEF IInv, Types
  <2>2. numNewTokens > 0 => reqIndex <= Len(running) /\ numNewTokens <= tokenBudget
    BY DEF IInv, Step
  <2> QED BY <1>1, <2>1, <2>2
<1>5. Step'
  BY <1>1, <1>8 DEF IInv, Step, Scheduled, Types
<1>6. Paused'
  <2>1. running \in Seq(Requests) /\ Len(running) \in Nat /\ DOMAIN running = 1 .. Len(running)
    BY RangeFacts DEF IInv, Types
  <2>2. CASE preempting
    BY <1>1, <2>2 DEF IInv, Paused, Step, Scheduled, Types
  <2>3. CASE ~preempting
    <3>1. \A i \in reqIndex .. Len(running) : running[i] \notin Scheduled
      <4>1. reqIndex \in Nat \ {0}
        BY DEF IInv, Types
      <4>2. \A i \in 1 .. Len(running) : running[i] \in Scheduled <=> i < reqIndex
        BY <1>1, <2>1 DEF IInv, Step
      <4> QED BY <2>1, <4>1, <4>2
    <3>2. Scheduled' = Scheduled
      BY <1>1 DEF Scheduled
    <3> QED BY <1>1, <2>3, <3>1, <3>2 DEF IInv, Paused, Types
  <2> QED BY <2>2, <2>3 DEF IInv, Types
<1>7. Runner'
  BY <1>1 DEF IInv, Runner, Starting, Step, Types
<1> QED BY <1>3, <1>4, <1>5, <1>6, <1>7 DEF IInv

LEMMA EndWaitingIInv ==
  ASSUME IInv, EndWaiting PROVE IInv'
<1>1. /\ phase = "waiting" /\ phase' = "execute" /\ prevScheduled' = Scheduled
      /\ UNCHANGED <<waiting, running, preempted, finishedReqIds, added, reqIndex, tokenBudget,
                     numNewTokens, preempting, newReqs, runnerReqs, config, status, numTokens, numComputed,
                     numScheduled, reqBlocks>>
  BY DEF EndWaiting, kvVars, requestVars, managerVars, stepVars
<1>2. Scheduled \subseteq added
  BY DEF IInv, Step, Queues, Scheduled
<1>3. Types'
  BY <1>1, <1>2 DEF IInv, Types
<1>4. Queues' /\ Order' /\ Unstopped'
  BY <1>1 DEF IInv, Queues, Order, Policy, Ordered, Range, Unstopped, KV!Stopped
<1>5. Step' /\ Paused'
  BY <1>1 DEF IInv, Step, Paused, Scheduled
<1>6. Runner'
  BY <1>1 DEF IInv, Runner, Starting
<1> QED BY <1>3, <1>4, <1>5, <1>6 DEF IInv

LEMMA EndUpdateIInv ==
  ASSUME IInv, EndUpdate PROVE IInv'
<1>1. /\ phase = "update" /\ phase' = "idle" /\ StoppedReqs = {}
      /\ UNCHANGED <<waiting, running, preempted, finishedReqIds, added, reqIndex, tokenBudget,
                     numNewTokens, preempting, newReqs, prevScheduled, runnerReqs, config, status, numTokens,
                     numComputed, numScheduled, reqBlocks>>
  BY DEF EndUpdate, kvVars, requestVars, managerVars, stepVars
<1>2. Types'
  BY <1>1 DEF IInv, Types
<1>3. Queues' /\ Order'
  BY <1>1 DEF IInv, Queues, Order, Policy, Ordered, Range
<1>4. Step' /\ Paused'
  BY <1>1 DEF IInv, Step, Paused, Scheduled
<1>5. Unstopped'
  BY <1>1 DEF IInv, Unstopped, KV!Stopped, StoppedReqs, Queues
<1>6. Runner'
  BY <1>1 DEF IInv, Runner, Starting
<1> QED BY <1>2, <1>3, <1>4, <1>5, <1>6 DEF IInv

LEMMA ResetIInv ==
  ASSUME IInv, StartReset \/ Reset \/ ResetUnused PROVE IInv'
<1>1. /\ phase \in {"idle", "reset"} /\ phase' \in {"idle", "reset"}
      /\ prevScheduled' = {} \/ (prevScheduled' = prevScheduled /\ phase' = "idle")
      /\ UNCHANGED <<waiting, running, preempted, finishedReqIds, added, reqIndex, tokenBudget,
                     numNewTokens, preempting, newReqs, runnerReqs, config, status, numTokens,
                     numComputed, numScheduled, reqBlocks>>
  BY DEF StartReset, Reset, ResetUnused, kvVars, requestVars, managerVars, stepVars
<1>2. Types'
  BY <1>1 DEF IInv, Types
<1>3. Queues' /\ Order'
  BY <1>1 DEF IInv, Queues, Order, Policy, Ordered, Range
<1>4. Step'
  BY <1>1 DEF IInv, Step, Scheduled
<1>5. Paused'
  BY <1>1 DEF IInv, Paused, Scheduled
<1>6. Unstopped'
  BY <1>1 DEF IInv, Unstopped, KV!Stopped
<1>7. Runner'
  BY <1>1 DEF IInv, Runner, Starting
<1> QED BY <1>2, <1>3, <1>4, <1>5, <1>6, <1>7 DEF IInv

\* A running request gets no more than the budget and than it has left.
LEMMA NewTokensFacts ==
  ASSUME IInv, NEW r \in Requests, NewTokens(r) > 0
  PROVE  /\ NewTokens(r) \in Nat /\ NewTokens(r) <= tokenBudget
         /\ NewTokens(r) <= numTokens[r] - numComputed[r]
<1> DEFINE a == numTokens[r] - numComputed[r]
           c == Capped(a)
           m == KV!MinOf(c, tokenBudget)
           d == MaxModelLen - 1 - numComputed[r]
<1>1. /\ numTokens[r] \in Nat /\ numComputed[r] \in Nat /\ tokenBudget \in Nat
      /\ LongPrefillThreshold \in Nat /\ MaxModelLen \in Nat
  BY SchedulerAssumption, KVAssumption
     DEF IInv, Types, LongPrefillThreshold, KV!ManagerAssumption
<1>2. a \in Int /\ d \in Int
  BY <1>1
<1> HIDE DEF a, d
<1>3. c \in Int /\ c <= a
  BY <1>1, <1>2 DEF Capped
<1> HIDE DEF c
<1>4. m \in Int /\ m <= c /\ m <= tokenBudget
  BY <1>1, <1>3 DEF KV!MinOf
<1>5. NewTokens(r) = KV!MinOf(m, d)
  BY DEF NewTokens, a, c, d
<1> HIDE DEF m
<1>6. NewTokens(r) \in Int /\ NewTokens(r) <= m
  BY <1>2, <1>4, <1>5 DEF KV!MinOf
<1> QED BY <1>1, <1>2, <1>3, <1>4, <1>6 DEF a

\* The same of the number that was chosen before others were preempted: since then
\* the budget has only grown, and nothing of the request was computed.
LEMMA NumNewTokensFacts ==
  ASSUME IInv, NEW r \in Requests, r = running[reqIndex], NumNewTokens(r) > 0
  PROVE  /\ NumNewTokens(r) \in Nat /\ NumNewTokens(r) <= tokenBudget
         /\ NumNewTokens(r) <= numTokens[r] - numComputed[r]
<1>1. CASE numNewTokens > 0
  <2>1. NumNewTokens(r) = numNewTokens
    BY <1>1 DEF NumNewTokens
  <2> QED BY <1>1, <2>1 DEF IInv, Types, Step
<1>2. CASE ~(numNewTokens > 0)
  <2>1. NumNewTokens(r) = NewTokens(r)
    BY <1>2 DEF NumNewTokens
  <2> QED BY <2>1, NewTokensFacts
<1> QED BY <1>1, <1>2

LEMMA ScheduleRunningIInv ==
  ASSUME IInv, ScheduleRunning PROVE IInv'
<1> DEFINE r == running[reqIndex]
           n == NumNewTokens(r)
<1>1. /\ running \in Seq(Requests) /\ Len(running) \in Nat /\ DOMAIN running = 1 .. Len(running)
      /\ reqIndex \in DOMAIN running /\ r \in Requests /\ r \in Range(running)
  <2>1. running \in Seq(Requests) /\ reqIndex \in Nat \ {0} /\ reqIndex <= Len(running)
    BY DEF IInv, Types, ScheduleRunning, InRunningLoop
  <2>2. /\ Len(running) \in Nat /\ DOMAIN running = 1 .. Len(running)
        /\ \A i \in 1 .. Len(running) : running[i] \in Requests
        /\ \A x : x \in Range(running) <=> \E i \in 1 .. Len(running) : running[i] = x
    BY <2>1, RangeFacts
  <2>3. reqIndex \in 1 .. Len(running)
    BY <2>1, <2>2
  <2> QED BY <2>1, <2>2, <2>3
<1>2. status[r] = "running"
  BY <1>1 DEF IInv, Queues
<1>3. /\ phase = "running" /\ numScheduled' = [numScheduled EXCEPT ![r] = n]
      /\ tokenBudget' = tokenBudget - n /\ reqIndex' = reqIndex + 1 /\ n > 0
      /\ numNewTokens' = 0
      /\ UNCHANGED <<status, numTokens, numComputed, phase, waiting, running, preempting, preempted,
                     newReqs, prevScheduled, finishedReqIds, added, runnerReqs, config>>
  BY DEF ScheduleRunning, InRunningLoop
<1>4. n \in Nat /\ n <= tokenBudget
  BY <1>1, <1>3, NumNewTokensFacts
<1>5. PICK blks : reqBlocks' = [reqBlocks EXCEPT ![r] = blks]
  BY DEF ScheduleRunning, KV!AllocateSlots
<1> HIDE DEF r, n
<1>6. Types'
  <2>1. tokenBudget' \in Nat /\ reqIndex' \in Nat \ {0}
    BY <1>3, <1>4 DEF IInv, Types
  <2>2. numScheduled' \in [Requests -> Nat] /\ DOMAIN reqBlocks' = Requests
    BY <1>1, <1>3, <1>4, <1>5 DEF IInv, Types
  <2> QED BY <1>3, <2>1, <2>2 DEF IInv, Types
<1>7. Queues'
  BY <1>1, <1>2, <1>3, <1>5 DEF IInv, Queues, Types
<1>8. Order' /\ Unstopped' /\ Runner'
  BY <1>3 DEF IInv, Order, Policy, Ordered, Range, Unstopped, KV!Stopped, Runner, Starting
<1>9. Scheduled' = Scheduled \cup {r}
  BY <1>1, <1>3 DEF Scheduled, IInv, Types
<1>10. Step'
  <2>1. ASSUME NEW i \in DOMAIN running PROVE running[i] \in Scheduled' <=> i < reqIndex'
    <3>1. running[i] = r <=> i = reqIndex
      BY <1>1 DEF IInv, Types, IsInjective, r
    <3> QED BY <1>1, <1>3, <1>9, <3>1 DEF IInv, Step
  <2>2. \A s \in Scheduled' : status[s] = "running"
    BY <1>2, <1>9 DEF IInv, Step
  <2> QED BY <1>1, <1>3, <2>1, <2>2 DEF IInv, Step
<1>11. Paused'
  BY <1>3 DEF IInv, Paused
<1> QED BY <1>6, <1>7, <1>8, <1>10, <1>11 DEF IInv

\* Less is a strict total order on the requests, so that a finite set of them
\* has a least urgent one.
LEMMA LessOrder ==
  /\ \A r, s \in Requests : r = s \/ Less(r, s) \/ Less(s, r)
  /\ \A r, s, t \in Requests : Less(r, s) /\ Less(s, t) => Less(r, t)
  /\ \A r \in Requests : ~Less(r, r)
<1>1. /\ Priority \in [Requests -> Int] /\ ArrivalTime \in [Requests -> Nat]
      /\ \A x, y \in Requests : ArrivalTime[x] = ArrivalTime[y] => x = y
  BY SchedulerAssumption
<1> QED BY <1>1 DEF Less

LEMMA GreatestElement ==
  ASSUME NEW S \in SUBSET Requests, IsFiniteSet(S), S # {}
  PROVE  \E r \in S : \A s \in S : r = s \/ Less(s, r)
<1> DEFINE below(r) == {s \in S : Less(s, r)}
           N == Cardinality(S)
           D == {N - Cardinality(below(r)) : r \in S}
<1>1. \A r \in S : /\ IsFiniteSet(below(r)) /\ Cardinality(below(r)) \in Nat
                   /\ Cardinality(below(r)) <= N /\ N \in Nat
  <2> TAKE r \in S
  <2>1. below(r) \subseteq S
    OBVIOUS
  <2> HIDE DEF below
  <2> QED BY <2>1, FS_Subset, FS_CardinalityType
<1> HIDE DEF below, N
<1>2. D \in SUBSET Nat /\ D # {}
  BY <1>1
<1>3. PICK d \in D : \A e \in D : d <= e
  BY <1>2, SameAssumptions, KVP!LeastElement
<1>4. PICK r \in S : d = N - Cardinality(below(r))
  OBVIOUS
<1>5. ASSUME NEW s \in S PROVE ~Less(r, s)
  <2> SUFFICES ASSUME Less(r, s) PROVE FALSE
    OBVIOUS
  <2>1. r \in Requests /\ s \in Requests
    OBVIOUS
  <2>2. below(r) \subseteq below(s) /\ r \in below(s) /\ r \notin below(r)
    BY <2>1, LessOrder DEF below
  <2>3. Cardinality(below(r)) < Cardinality(below(s))
    BY <1>1, <2>2, FS_Subset
  <2>4. N - Cardinality(below(s)) \in D
    OBVIOUS
  <2>5. d <= N - Cardinality(below(s))
    BY <1>3, <2>4
  <2> QED BY <1>1, <1>4, <2>3, <2>5
<1> QED BY <1>5, LessOrder

\* The victim runs; under FCFS it is the last one, and not scheduled yet.
LEMMA VictimFacts ==
  ASSUME IInv, InRunningLoop
  PROVE  /\ Victim \in Requests /\ Victim \in Range(running) /\ status[Victim] = "running"
         /\ running[reqIndex] \in Requests /\ running[reqIndex] \notin Scheduled
         /\ Policy = "fcfs" => Victim = running[Len(running)] /\ Victim \notin Scheduled
<1>1. /\ running \in Seq(Requests) /\ Len(running) \in Nat /\ DOMAIN running = 1 .. Len(running)
      /\ phase = "running" /\ reqIndex \in 1 .. Len(running)
      /\ \A i \in 1 .. Len(running) : running[i] \in Requests /\ running[i] \in Range(running)
      /\ \A x \in Range(running) : x \in Requests
  <2>1. /\ running \in Seq(Requests) /\ reqIndex \in Nat \ {0}
        /\ phase = "running" /\ reqIndex <= Len(running)
    BY DEF IInv, Types, InRunningLoop
  <2>2. /\ Len(running) \in Nat /\ DOMAIN running = 1 .. Len(running)
        /\ \A i \in 1 .. Len(running) : running[i] \in Requests
        /\ \A x : x \in Range(running) <=> \E i \in 1 .. Len(running) : running[i] = x
    BY <2>1, RangeFacts
  <2> QED BY <2>1, <2>2
<1>2. \A i \in 1 .. Len(running) : running[i] \in Scheduled <=> i < reqIndex
  BY <1>1 DEF IInv, Step
<1>3. running[reqIndex] \in Requests /\ running[reqIndex] \notin Scheduled
  BY <1>1, <1>2
<1>4. CASE Policy = "fcfs"
  <2>1. Victim = running[Len(running)] /\ Len(running) \in 1 .. Len(running)
    BY <1>1, <1>4 DEF Victim
  <2>2. Victim \in Requests /\ Victim \in Range(running) /\ Victim \notin Scheduled
    BY <1>1, <1>2, <2>1
  <2> QED BY <1>3, <2>1, <2>2 DEF IInv, Queues
<1>5. CASE Policy # "fcfs"
  <2>1. Range(running) \in SUBSET Requests /\ Range(running) # {}
    BY <1>1
  <2>2. IsFiniteSet(Range(running))
    <3>1. IsFiniteSet(Requests)
      BY KVAssumption DEF KV!ManagerAssumption, KV!IsFiniteSet, IsFiniteSet
    <3> QED BY <2>1, <3>1, FS_Subset
  <2>3. \E r \in Range(running) : \A s \in Range(running) : r = s \/ Less(s, r)
    BY <2>1, <2>2, GreatestElement
  <2>4. Victim \in Range(running)
    BY <1>5, <2>3 DEF Victim
  <2> QED BY <1>1, <1>3, <1>5, <2>4 DEF IInv, Queues
<1> QED BY <1>4, <1>5

\* The running loop after a preemption: reqIndex follows a victim before it.
LEMMA PreemptVictimIInv ==
  ASSUME IInv, PreemptVictim PROVE IInv'
<1> DEFINE v == Victim
           r == running[reqIndex]
           n == NumNewTokens(r)
<1>1. /\ v \in Requests /\ v \in Range(running) /\ status[v] = "running"
      /\ r \in Requests /\ r \notin Scheduled
      /\ Policy = "fcfs" => v = running[Len(running)]
  BY VictimFacts DEF PreemptVictim
<1>2. /\ phase = "running" /\ phase' = (IF v = r THEN "execute" ELSE "running")
      /\ running' = Remove(running, v) /\ PreemptRequest(v) /\ TakeBack(v)
      /\ preempting' = TRUE
      /\ prevScheduled' = (IF v = r THEN Scheduled ELSE prevScheduled)
      /\ UNCHANGED <<numTokens, newReqs, finishedReqIds, added, runnerReqs, config>>
      /\ reqIndex <= Len(running)
      /\ numNewTokens' = (IF v = r THEN 0 ELSE n) /\ n > 0
  BY DEF PreemptVictim, InRunningLoop
<1>15. n \in Nat /\ n <= tokenBudget /\ n <= numTokens[r] - numComputed[r]
  BY <1>1, <1>2, NumNewTokensFacts
<1> HIDE DEF v, r, n
<1>3. QueueTypes' /\ Queues' /\ Order'
  BY <1>1, <1>2, PreemptQueues DEF IInv
<1>4. /\ status' = [status EXCEPT ![v] = "waiting"]
      /\ numComputed' = [numComputed EXCEPT ![v] = 0]
      /\ numScheduled' = [numScheduled EXCEPT ![v] = 0]
      /\ tokenBudget' = tokenBudget + numScheduled[v]
      /\ reqIndex' = (IF v \in Scheduled THEN reqIndex - 1 ELSE reqIndex)
      /\ preempted' = preempted \cup {v}
  BY <1>2 DEF PreemptRequest, TakeBack
<1>5. PICK p \in DOMAIN running : running[p] = v
  BY <1>1 DEF Range
<1>6. /\ running \in Seq(Requests) /\ Len(running) \in Nat /\ DOMAIN running = 1 .. Len(running)
      /\ \A i, j \in DOMAIN running : running[i] = running[j] => i = j
      /\ reqIndex \in 1 .. Len(running)
  BY <1>2, RangeFacts DEF IInv, Types, IsInjective
<1>7. \A i \in 1 .. Len(running) : running[i] \in Scheduled <=> i < reqIndex
  BY <1>2, <1>6 DEF IInv, Step
<1>8. v \in Scheduled <=> p < reqIndex
  BY <1>5, <1>6, <1>7
<1>9. Scheduled' = Scheduled \ {v}
  <2>1. numScheduled \in [Requests -> Nat]
    BY DEF IInv, Types
  <2> QED BY <1>1, <1>4, <2>1 DEF Scheduled
<1>16. /\ Len(running') = Len(running) - 1
       /\ \A k \in 1 .. (Len(running) - 1) :
            running'[k] = running[IF k < p THEN k ELSE k + 1]
  <2>1. running' = Remove(running, running[p]) /\ IsInjective(running)
    BY <1>2, <1>5 DEF IInv, Types
  <2>2. /\ Len(Remove(running, running[p])) = Len(running) - 1
        /\ \A k \in 1 .. (Len(running) - 1) :
             Remove(running, running[p])[k] = running[IF k < p THEN k ELSE k + 1]
    BY <1>6, <2>1, RemoveIndex
  <2> QED BY <2>1, <2>2
<1>10. Types'
  <2>1. /\ tokenBudget' \in Nat /\ reqIndex' \in Nat \ {0}
        /\ numScheduled' \in [Requests -> Nat] /\ numComputed' \in [Requests -> Nat]
    <3>1. /\ tokenBudget \in Nat /\ reqIndex \in Nat /\ reqIndex >= 1
          /\ numScheduled \in [Requests -> Nat] /\ numComputed \in [Requests -> Nat]
      BY DEF IInv, Types
    <3>2. reqIndex' \in Nat \ {0}
      BY <1>4, <1>5, <1>6, <1>8, <3>1
    <3>3. tokenBudget' \in Nat
      BY <1>1, <1>4, <3>1
    <3> QED BY <1>1, <1>4, <3>1, <3>2, <3>3
  <2>2. v \in added /\ Scheduled \subseteq added
    BY <1>1 DEF IInv, Queues, Step, Scheduled
  <2>3. /\ preempting' \in BOOLEAN /\ phase' \in {"execute", "running"}
        /\ numNewTokens' \in Nat
    BY <1>2, <1>15
  <2>4. preempted' \subseteq added' /\ prevScheduled' \subseteq added'
    BY <1>2, <1>4, <2>2 DEF IInv, Types
  <2> QED BY <1>2, <1>3, <2>1, <2>3, <2>4 DEF IInv, Types, QueueTypes
<1>11. Step'
  <2>1. \A s \in Scheduled' : status'[s] = "running"
    BY <1>1, <1>4, <1>9 DEF IInv, Step, Types, Scheduled
  <2>2. ASSUME phase' = "running"
        PROVE  /\ newReqs' = {} /\ reqIndex' <= Len(running') + 1
               /\ \A i \in DOMAIN running' : running'[i] \in Scheduled' <=> i < reqIndex'
    <3>1. /\ Len(running') = Len(running) - 1
          /\ \A k \in 1 .. (Len(running) - 1) :
               running'[k] = running[IF k < p THEN k ELSE k + 1]
      BY <1>16
    <3>2. v # r /\ p # reqIndex
      BY <1>2, <1>5, <2>2 DEF r
    <3>3. running' \in Seq(Requests) /\ DOMAIN running' = 1 .. (Len(running) - 1)
      BY <1>3, <3>1, RangeFacts DEF QueueTypes
    <3>4. ASSUME NEW i \in DOMAIN running' PROVE running'[i] \in Scheduled' <=> i < reqIndex'
      <4> DEFINE k == IF i < p THEN i ELSE i + 1
      <4>1. k \in 1 .. Len(running) /\ k # p /\ running'[i] = running[k]
        BY <1>5, <1>6, <3>1, <3>3
      <4>2. running'[i] \in Scheduled' <=> k < reqIndex
        BY <1>5, <1>6, <1>7, <1>9, <4>1
      <4>3. k < reqIndex <=> i < reqIndex'
        BY <1>4, <1>5, <1>6, <1>8, <3>2, <3>3
      <4> QED BY <4>2, <4>3
    <3>5. reqIndex' <= Len(running') + 1
      BY <1>4, <1>5, <1>6, <1>8, <3>1, <3>2
    <3> QED BY <1>2, <3>4, <3>5 DEF IInv, Step
  <2>3. phase' \notin {"idle", "update", "reset"}
    BY <1>2
  <2>4. ASSUME numNewTokens' > 0
        PROVE  /\ phase' = "running" /\ reqIndex' <= Len(running') /\ numNewTokens' <= tokenBudget'
               /\ numNewTokens' <= numTokens'[running'[reqIndex']] - numComputed'[running'[reqIndex']]
    <3>1. v # r /\ numNewTokens' = n /\ p # reqIndex
      BY <1>2, <1>5, <2>4 DEF r
    <3>2. running'[reqIndex'] = r /\ reqIndex' <= Len(running')
      <4>1. CASE p < reqIndex
        <5>1. reqIndex' = reqIndex - 1 /\ reqIndex' \in 1 .. (Len(running) - 1) /\ ~(reqIndex' < p)
          BY <1>4, <1>5, <1>6, <1>8, <4>1
        <5>2. running'[reqIndex'] = running[reqIndex' + 1] /\ reqIndex' + 1 = reqIndex
          BY <1>6, <1>16, <5>1
        <5> QED BY <1>16, <5>1, <5>2 DEF r
      <4>2. CASE p > reqIndex
        <5>1. reqIndex' = reqIndex /\ reqIndex' \in 1 .. (Len(running) - 1) /\ reqIndex' < p
          BY <1>4, <1>5, <1>6, <1>8, <4>2
        <5>2. running'[reqIndex'] = running[reqIndex]
          BY <1>16, <5>1
        <5> QED BY <1>16, <5>1, <5>2 DEF r
      <4> QED BY <1>5, <1>6, <3>1, <4>1, <4>2
    <3>3. n <= tokenBudget'
      BY <1>1, <1>4, <1>15 DEF IInv, Types
    <3>4. numTokens'[r] = numTokens[r] /\ numComputed'[r] = numComputed[r]
      BY <1>1, <1>2, <1>4, <3>1 DEF IInv, Types
    <3> QED BY <1>2, <1>15, <3>1, <3>2, <3>3, <3>4
  <2> QED BY <2>1, <2>2, <2>3, <2>4 DEF Step
<1>12. Paused'
  <2>1. CASE v = r
    <3>1. \A s \in Scheduled : status'[s] # "waiting"
      BY <1>1, <1>4, <2>1 DEF IInv, Step, Types, Scheduled
    <3> QED BY <1>2, <2>1, <3>1 DEF Paused
  <2>2. CASE v # r
    BY <1>2, <2>2 DEF Paused
  <2> QED BY <2>1, <2>2
<1>13. Unstopped'
  BY <1>1, <1>2, <1>4 DEF IInv, Unstopped, KV!Stopped, Types
<1>14. Runner'
  <2>1. newReqs = {} /\ Starting = {} /\ Starting' = {}
    BY <1>2 DEF IInv, Step, Starting
  <2> QED BY <1>1, <1>2, <1>4, <2>1 DEF IInv, Runner, Types
<1> QED BY <1>3, <1>10, <1>11, <1>12, <1>13, <1>14 DEF IInv

LEMMA PreemptForResetIInv ==
  ASSUME IInv, PreemptForReset PROVE IInv'
<1> DEFINE v == running[Len(running)]
<1>1. /\ running \in Seq(Requests) /\ IsInjective(running) /\ running # << >>
      /\ phase = "reset"
  BY DEF IInv, Types, PreemptForReset
<1>2. v \in Requests /\ v \in Range(running) /\ running' = Remove(running, v)
  <2>1. Len(running) \in DOMAIN running /\ SubSeq(running, 1, Len(running) - 1) = Remove(running, v)
    BY <1>1, FrontFacts
  <2>2. v \in Requests /\ v \in Range(running)
    BY <1>1, <2>1, RangeFacts DEF Range
  <2> QED BY <2>1, <2>2 DEF PreemptForReset
<1>3. status[v] = "running"
  BY <1>2 DEF IInv, Queues
<1>4. /\ PreemptRequest(v)
      /\ UNCHANGED <<numTokens, numScheduled, phase, reqIndex, tokenBudget, numNewTokens, preempting, newReqs,
                     prevScheduled, finishedReqIds, added, runnerReqs, config>>
  BY DEF PreemptForReset, stepVars
<1>5. QueueTypes' /\ Queues' /\ Order'
  BY <1>2, <1>3, <1>4, PreemptQueues DEF IInv
<1> HIDE DEF v
<1>6. /\ status' = [status EXCEPT ![v] = "waiting"]
      /\ numComputed' = [numComputed EXCEPT ![v] = 0]
      /\ preempted' = preempted \cup {v}
  BY <1>4 DEF PreemptRequest
<1>7. Types'
  <2>1. v \in added
    BY <1>2, <1>3 DEF IInv, Queues
  <2>2. numComputed' \in [Requests -> Nat] /\ preempted' \subseteq added'
    BY <1>2, <1>4, <1>6, <2>1 DEF IInv, Types
  <2> QED BY <1>4, <1>5, <2>2 DEF IInv, Types, QueueTypes
<1>8. Step'
  BY <1>1, <1>4 DEF IInv, Step, Scheduled
<1>9. Paused'
  BY <1>1, <1>4 DEF IInv, Paused
<1>10. Unstopped'
  BY <1>1, <1>2, <1>3, <1>4, <1>6 DEF IInv, Unstopped, KV!Stopped, Types
<1>11. Runner'
  BY <1>1, <1>2, <1>3, <1>4, <1>6 DEF IInv, Runner, Starting, Types
<1> QED BY <1>5, <1>7, <1>8, <1>9, <1>10, <1>11 DEF IInv

\* The tokens of the hits of a waiting request are fewer than its tokens.
LEMMA HitTokens ==
  ASSUME IInv, NEW r \in Requests
  PROVE  /\ Len(ComputedBlocks(r)) \in Nat
         /\ Len(ComputedBlocks(r)) * BlockSize < numTokens[r]
<1>1. BlockSize \in Nat \ {0} /\ numTokens[r] \in Nat \ {0}
  BY Constants DEF IInv, Types
<1>2. CASE ComputedBlocks(r) = << >>
  BY <1>1, <1>2
<1>3. CASE ComputedBlocks(r) # << >>
  <2> DEFINE m == (numTokens[r] - 1) \div BlockSize
             k == KV!LongestHit(pool, r, numTokens[r] - 1)
  <2>1. ComputedBlocks(r) = [i \in 1 .. k |-> KV!GetCachedBlock(pool, KV!Hash(r, i))]
    BY <1>3 DEF ComputedBlocks, KV!GetComputedBlocks
  <2>2. m \in Nat /\ m * BlockSize <= numTokens[r] - 1
    BY <1>1
  <2>3. k \in 0 .. m
    <3> DEFINE M == {i \in Nat : i < m => ~KV!IsCached(pool, KV!Hash(r, i + 1))}
    <3>1. M \in SUBSET Nat /\ m \in M
      BY <2>2
    <3>2. PICK l \in M : \A i \in M : l <= i
      BY <3>1, SameAssumptions, KVP!LeastElement
    <3>3. /\ l \in 0 .. m
          /\ \A i \in 1 .. l : KV!IsCached(pool, KV!Hash(r, i))
          /\ l < m => ~KV!IsCached(pool, KV!Hash(r, l + 1))
      <4>1. l \in 0 .. m
        BY <2>2, <3>1, <3>2
      <4>2. ASSUME NEW i \in 1 .. l PROVE KV!IsCached(pool, KV!Hash(r, i))
        <5>1. i - 1 \in Nat /\ ~(l <= i - 1) /\ i - 1 < m /\ (i - 1) + 1 = i
          BY <2>2, <4>1
        <5>2. i - 1 \notin M
          BY <3>2, <5>1
        <5> QED BY <5>1, <5>2
      <4> QED BY <4>1, <4>2
    <3> QED BY <3>3 DEF KV!LongestHit
  <2>4. Len(ComputedBlocks(r)) = k
    BY <2>1, <2>2, <2>3
  <2> HIDE DEF m, k
  <2>5. k * BlockSize <= m * BlockSize
    BY <1>1, <2>2, <2>3
  <2> QED BY <1>1, <2>2, <2>3, <2>4, <2>5
<1> QED BY <1>2, <1>3

LEMMA ScheduleWaitingIInv ==
  ASSUME IInv, ScheduleWaiting PROVE IInv'
<1> DEFINE r    == Head(waiting)
           hits == ComputedBlocks(r)
           n    == KV!MinOf(NumNewTokensWaiting(r, hits), tokenBudget)
<1>1. /\ QueueTypes' /\ Queues' /\ Order'
      /\ r \in Requests /\ status[r] = "waiting" /\ r \in added /\ r \notin Range(running)
  BY StartQueues DEF IInv
<1>2. /\ phase = "waiting" /\ tokenBudget > 0
      /\ numScheduled' = [numScheduled EXCEPT ![r] = n]
      /\ numComputed' = [numComputed EXCEPT ![r] = Len(hits) * BlockSize]
      /\ status' = [status EXCEPT ![r] = "running"]
      /\ running' = Append(running, r)
      /\ tokenBudget' = tokenBudget - n
      /\ newReqs' = (IF r \in preempted THEN newReqs ELSE newReqs \cup {r})
      /\ preempted' = preempted \ {r}
      /\ UNCHANGED <<numTokens, phase, reqIndex, numNewTokens, preempting, prevScheduled,
                     finishedReqIds, added, runnerReqs, config>>
  BY DEF ScheduleWaiting, InWaitingLoop
<1>3. /\ Len(hits) \in Nat /\ Len(hits) * BlockSize < numTokens[r]
      /\ BlockSize \in Nat /\ Len(hits) * BlockSize \in Nat
  BY <1>1, HitTokens, Constants
<1> HIDE DEF r, hits
<1>4. n \in Nat /\ n > 0 /\ n <= tokenBudget
  <2>1. numTokens[r] \in Nat /\ tokenBudget \in Nat /\ LongPrefillThreshold \in Nat
    BY <1>1, SchedulerAssumption DEF IInv, Types, LongPrefillThreshold
  <2> QED BY <1>2, <1>3, <2>1 DEF NumNewTokensWaiting, Capped, KV!MinOf
<1> HIDE DEF n
<1>5. Types'
  <2>1. tokenBudget' \in Nat
    BY <1>2, <1>4 DEF IInv, Types
  <2>2. numScheduled' \in [Requests -> Nat] /\ numComputed' \in [Requests -> Nat]
    BY <1>1, <1>2, <1>3, <1>4 DEF IInv, Types
  <2>3. newReqs' \subseteq added' /\ preempted' \subseteq added'
    BY <1>1, <1>2 DEF IInv, Types
  <2> QED BY <1>1, <1>2, <2>1, <2>2, <2>3 DEF IInv, Types, QueueTypes
<1>6. Scheduled' = Scheduled \cup {r}
  <2>1. numScheduled \in [Requests -> Nat]
    BY DEF IInv, Types
  <2> QED BY <1>1, <1>2, <1>4, <2>1 DEF Scheduled
<1>7. Step'
  <2>1. \A s \in Scheduled' : status'[s] = "running"
    BY <1>1, <1>2, <1>6 DEF IInv, Step, Types, Scheduled
  <2>2. ~(numNewTokens' > 0)
    BY <1>2 DEF IInv, Step
  <2> QED BY <1>2, <2>1, <2>2 DEF Step
<1>8. Paused'
  <2>1. /\ running \in Seq(Requests) /\ Len(running) \in Nat
        /\ Len(running') = Len(running) + 1 /\ running'[Len(running) + 1] = r
        /\ \A i \in 1 .. Len(running) : running'[i] = running[i] /\ running[i] # r
    <3>1. running \in Seq(Requests) /\ IsInjective(running)
      BY DEF IInv, Types
    <3> QED BY <1>1, <1>2, <3>1, AppendFacts, RangeFacts
  <2>2. r \notin prevScheduled /\ \A s \in prevScheduled : status[s] # "waiting"
    BY <1>1, <1>2 DEF IInv, Paused
  <2>3. \A s \in prevScheduled : status'[s] # "waiting"
    BY <1>1, <1>2, <2>2 DEF IInv, Types
  <2>4. ASSUME NEW i \in reqIndex' .. Len(running'), running'[i] \in Scheduled'
        PROVE  running'[i] \notin prevScheduled
    <3>1. CASE i = Len(running) + 1
      BY <2>1, <2>2, <3>1
    <3>2. CASE i # Len(running) + 1
      <4>1. i \in reqIndex .. Len(running) /\ running'[i] = running[i] /\ running[i] # r
        <5>1. reqIndex' = reqIndex /\ reqIndex \in Nat
          BY <1>2 DEF IInv, Types
        <5>2. Len(running) \in Nat
          BY <1>1, RangeFacts DEF IInv, Types
        <5>3. i \in reqIndex .. (Len(running) + 1)
          BY <5>1, <2>1
        <5>4. i \in reqIndex .. Len(running) /\ i \in 1 .. Len(running)
          <6>1. reqIndex >= 1
            BY DEF IInv, Types
          <6> QED BY <5>1, <5>2, <5>3, <3>2, <6>1
        <5> QED BY <2>1, <5>4
      <4> QED BY <1>2, <1>6, <2>4, <4>1 DEF IInv, Paused
    <3> QED BY <3>1, <3>2
  <2> QED BY <1>2, <2>3, <2>4 DEF Paused
<1>9. Unstopped'
  BY <1>1, <1>2 DEF IInv, Unstopped, KV!Stopped, Types
<1>10. Runner'
  <2>1. Starting = newReqs /\ Starting' = newReqs'
    BY <1>2 DEF Starting
  <2>2. r \in preempted => r \in runnerReqs
    BY <1>1, <2>1 DEF IInv, Runner
  <2>3. r \notin preempted => r \notin runnerReqs
    BY <1>1, <2>1 DEF IInv, Runner
  <2> QED BY <1>1, <1>2, <2>1, <2>2, <2>3 DEF IInv, Runner, Types
<1> QED BY <1>1, <1>5, <1>7, <1>8, <1>9, <1>10 DEF IInv

LEMMA ExecuteIInv ==
  ASSUME IInv, Execute PROVE IInv'
<1>1. /\ phase = "execute" /\ phase' = "update"
      /\ runnerReqs' = (runnerReqs \ finishedReqIds) \cup newReqs /\ finishedReqIds' = {}
      /\ UNCHANGED <<waiting, running, reqIndex, tokenBudget, numNewTokens, preempting, newReqs, preempted,
                     prevScheduled, added, config>>
  BY DEF Execute, RunnerState, stepVars
<1>2. /\ UNCHANGED <<status, reqBlocks>>
      /\ numScheduled' \in [Requests -> Nat] /\ Scheduled' = {}
      /\ numComputed' \in [Requests -> Nat]
      /\ numTokens' \in [Requests -> Nat \ {0}]
      /\ \A r \in Requests \ Scheduled : numTokens'[r] = numTokens[r]
  <2>1. CASE KV!Execute
    <3>1. /\ numScheduled' = [r \in Requests |-> 0]
          /\ numComputed' = [r \in Requests |-> numComputed[r] + numScheduled[r]]
          /\ numTokens' = [r \in Requests |->
                             IF numScheduled[r] > 0 /\ numComputed[r] + numScheduled[r] = numTokens[r]
                               THEN numTokens[r] + 1 ELSE numTokens[r]]
          /\ UNCHANGED <<status, reqBlocks>>
      BY <2>1 DEF KV!Execute, KV!managerVars
    <3>2. /\ numScheduled \in [Requests -> Nat] /\ numComputed \in [Requests -> Nat]
          /\ numTokens \in [Requests -> Nat \ {0}]
      BY DEF IInv, Types
    <3> QED BY <3>1, <3>2 DEF Scheduled
  <2>2. CASE Scheduled = {} /\ UNCHANGED kvVars
    BY <2>2 DEF kvVars, managerVars, requestVars, IInv, Types, Scheduled
  <2> QED BY <2>1, <2>2 DEF Execute
<1>3. Types'
  <2>1. runnerReqs' \subseteq added' /\ finishedReqIds' \subseteq added'
    BY <1>1 DEF IInv, Types
  <2> QED BY <1>1, <1>2, <2>1 DEF IInv, Types
<1>4. Queues' /\ Order'
  BY <1>1, <1>2 DEF IInv, Queues, Order, Policy, Ordered, Range
<1>5. Step'
  <2>1. ~(numNewTokens' > 0)
    BY <1>1 DEF IInv, Step
  <2> QED BY <1>1, <1>2, <2>1 DEF Step
<1>6. Paused'
  BY <1>1, <1>2 DEF IInv, Paused
<1>7. Unstopped'
  BY <1>1, <1>2 DEF IInv, Unstopped, KV!Stopped, Step
<1>8. Runner'
  <2>1. Starting = newReqs /\ Starting' = {}
    BY <1>1 DEF Starting
  <2> QED BY <1>1, <1>2, <2>1 DEF IInv, Runner, Types
<1> QED BY <1>3, <1>4, <1>5, <1>6, <1>7, <1>8 DEF IInv

LEMMA InitIInv == Init => IInv
<1> SUFFICES ASSUME Init PROVE IInv
  OBVIOUS
<1>1. /\ config \in Configs /\ phase = "idle" /\ waiting = << >> /\ running = << >>
      /\ reqIndex = 1 /\ tokenBudget = 0 /\ numNewTokens = 0 /\ preempting = FALSE
      /\ preempted = {} /\ newReqs = {} /\ prevScheduled = {}
      /\ finishedReqIds = {} /\ added = {} /\ runnerReqs = {}
      /\ reqBlocks = [r \in Requests |-> << >>]
      /\ status = [r \in Requests |-> "waiting"]
      /\ numTokens = PromptLen
      /\ numComputed = [r \in Requests |-> 0]
      /\ numScheduled = [r \in Requests |-> 0]
  BY DEF Init, KV!Init
<1>2. Range(<< >>) = {} /\ IsInjective(<< >>) /\ << >> \in Seq(Requests) /\ Ordered(<< >>)
  BY DEF Range, IsInjective, Ordered
<1>3. Types
  <2>1. numTokens \in [Requests -> Nat \ {0}]
    BY <1>1, Constants
  <2>2. preempting \in BOOLEAN
    BY <1>1
  <2> QED BY <1>1, <1>2, <2>1, <2>2 DEF Types
<1>4. Queues /\ Order
  BY <1>1, <1>2 DEF Queues, Order
<1>5. Step /\ Paused
  BY <1>1 DEF Step, Paused, Scheduled
<1>6. Unstopped
  BY <1>1, Constants DEF Unstopped, KV!Stopped
<1>7. Runner
  BY <1>1 DEF Runner, Starting
<1> QED BY <1>3, <1>4, <1>5, <1>6, <1>7 DEF IInv

LEMMA NextIInv == IInv /\ [Next]_vars => IInv'
<1> SUFFICES ASSUME IInv, [Next]_vars PROVE IInv'
  OBVIOUS
<1>1. CASE UNCHANGED vars
  <2>1. UNCHANGED <<config, phase, waiting, running, reqIndex, tokenBudget, numNewTokens, preempting, newReqs,
                    preempted, prevScheduled, finishedReqIds, added, runnerReqs,
                    status, numTokens, numComputed, numScheduled, reqBlocks>>
    BY <1>1 DEF vars, kvVars, schedVars, managerVars, requestVars, stepVars
  <2>2. (Types /\ Queues /\ Order)'
    BY <2>1 DEF IInv, Types, Queues, Order, Policy, Ordered, Range
  <2>3. (Step /\ Paused)'
    BY <2>1 DEF IInv, Step, Paused, Scheduled
  <2>4. (Unstopped /\ Runner)'
    BY <2>1 DEF IInv, Unstopped, KV!Stopped, Runner, Starting
  <2> QED BY <2>2, <2>3, <2>4 DEF IInv
<1>2. CASE EngineLoop
  BY <1>2, StartScheduleIInv, ScheduleRunningIInv, PreemptVictimIInv, EndRunningIInv,
     ScheduleWaitingIInv, EndWaitingIInv, ExecuteIInv, FinishStoppedIInv, EndUpdateIInv,
     PreemptForResetIInv, ResetIInv DEF EngineLoop
<1>3. CASE \E r \in Requests : AddRequest(r) \/ Abort(r)
  BY <1>3, AddIInv, AbortIInv
<1>4. CASE StartReset \/ ResetUnused
  BY <1>4, ResetIInv
<1>5. CASE WaitForWork
  BY <1>1, <1>5 DEF WaitForWork
<1> QED BY <1>1, <1>2, <1>3, <1>4, <1>5 DEF Next

\* The engine loop, arrivals, aborts and resets keep the invariant: the queues,
\* the locals of schedule() and the runner's states fit together at every point.
THEOREM Invariance == Spec => []IInv
BY InitIInv, NextIInv, PTL DEF Spec

-----------------------------------------------------------------------------
(* The queues                                                              *)

LEMMA OccurrencesFacts ==
  ASSUME NEW q \in Seq(Requests), IsInjective(q), NEW r
  PROVE  Occurrences(q, r) = IF r \in Range(q) THEN 1 ELSE 0
<1> DEFINE I == {i \in DOMAIN q : q[i] = r}
<1>1. CASE r \in Range(q)
  <2>1. PICK p \in DOMAIN q : q[p] = r
    BY <1>1 DEF Range
  <2>2. I = {p}
    BY <2>1 DEF IsInjective
  <2> QED BY <1>1, <2>2, FS_Singleton DEF Occurrences
<1>2. CASE r \notin Range(q)
  <2>1. I = {}
    BY <1>2 DEF Range
  <2> QED BY <1>2, <2>1, FS_EmptySet DEF Occurrences
<1> QED BY <1>1, <1>2

\* No request is lost, queued twice or finished with blocks held, under both
\* policies and whatever is preempted, aborted, stopped and reset.
THEOREM QueuesAreExact == Spec => []QueuesExact
<1>1. IInv => QueuesExact
  <2> SUFFICES ASSUME IInv, NEW r \in Requests
               PROVE  /\ Occurrences(running, r) = (IF status[r] = "running" THEN 1 ELSE 0)
                      /\ Occurrences(waiting, r) =
                           (IF status[r] = "waiting" /\ r \in added THEN 1 ELSE 0)
                      /\ status[r] # "running" => reqBlocks[r] = << >>
    BY DEF QueuesExact
  <2>1. /\ Occurrences(running, r) = (IF r \in Range(running) THEN 1 ELSE 0)
        /\ Occurrences(waiting, r) = (IF r \in Range(waiting) THEN 1 ELSE 0)
    BY OccurrencesFacts DEF IInv, Types
  <2> QED BY <2>1 DEF IInv, Queues
<1> QED BY <1>1, Invariance, PTL

\* FCFS: the running requests followed by the waiting ones are in the order of
\* arrival, so that preemption and resumption never let a request overtake.
THEOREM ServedInOrder == Spec => []ArrivalOrder
<1>1. IInv => ArrivalOrder
  <2> SUFFICES ASSUME IInv, Policy = "fcfs",
                      NEW i \in DOMAIN (running \o waiting), NEW j \in DOMAIN (running \o waiting),
                      i < j
               PROVE  ArrivalTime[(running \o waiting)[i]] < ArrivalTime[(running \o waiting)[j]]
    BY DEF ArrivalOrder
  <2> DEFINE q == running \o waiting
             n == Len(running)
             m == Len(waiting)
  <2>1. /\ running \in Seq(Requests) /\ waiting \in Seq(Requests)
        /\ Ordered(running) /\ Ordered(waiting)
        /\ \A r \in Range(running), s \in Range(waiting) : ArrivalTime[r] < ArrivalTime[s]
    BY DEF IInv, Types, Order
  <2>2. /\ n \in Nat /\ m \in Nat /\ DOMAIN running = 1 .. n /\ DOMAIN waiting = 1 .. m
        /\ \A k \in 1 .. n : running[k] \in Range(running)
        /\ \A k \in 1 .. m : waiting[k] \in Range(waiting)
    BY <2>1, RangeFacts
  <2>3. /\ DOMAIN q = 1 .. (n + m)
        /\ \A k \in 1 .. (n + m) : q[k] = IF k <= n THEN running[k] ELSE waiting[k - n]
    BY <2>1, <2>2, ConcatProperties, RangeFacts
  <2> HIDE DEF q, n, m
  <2>4. i \in 1 .. (n + m) /\ j \in 1 .. (n + m) /\ i < j
    BY <2>3 DEF q
  <2>5. CASE j <= n
    BY <2>1, <2>2, <2>3, <2>4, <2>5 DEF Ordered, q
  <2>6. CASE i <= n /\ n < j
    <3>1. i \in 1 .. n /\ j - n \in 1 .. m /\ q[i] = running[i] /\ q[j] = waiting[j - n]
      BY <2>2, <2>3, <2>4, <2>6
    <3> QED BY <2>1, <2>2, <3>1 DEF q
  <2>7. CASE n < i
    <3>1. /\ i - n \in 1 .. m /\ j - n \in 1 .. m /\ i - n < j - n
          /\ q[i] = waiting[i - n] /\ q[j] = waiting[j - n]
      BY <2>2, <2>3, <2>4, <2>7
    <3> QED BY <2>1, <2>2, <3>1 DEF Ordered, q
  <2> QED BY <2>2, <2>4, <2>5, <2>6, <2>7
<1> QED BY <1>1, Invariance, PTL

\* `assert not scheduled_in_prev_step` of _make_cached_request_data never fails: a
\* request that the waiting loop resumes was not scheduled in the step before.
THEOREM ResumedOnlyAfterPause == Spec => []ResumedAfterPause
<1>1. IInv => ResumedAfterPause
  BY DEF IInv, Paused, ResumedAfterPause
<1> QED BY <1>1, Invariance, PTL

\* The runner's cached states follow the scheduler's messages: when a step is
\* executed it has a state for what the step continues or resumes, and none for
\* what is new, although it hears of finished requests one step late.
THEOREM RunnerStaysInSync == Spec => []RunnerInSync
<1>1. IInv => RunnerInSync
  <2> SUFFICES ASSUME IInv PROVE RunnerInSync
    OBVIOUS
  <2>1. ASSUME phase = "execute"
        PROVE  /\ Scheduled \ newReqs \subseteq runnerReqs \ finishedReqIds
               /\ newReqs \cap (runnerReqs \ finishedReqIds) = {}
    <3>1. Starting = newReqs
      BY <2>1 DEF Starting
    <3>2. ASSUME NEW r \in Scheduled \ newReqs PROVE r \in runnerReqs \ finishedReqIds
      BY <3>1 DEF IInv, Step, Runner, Scheduled
    <3> QED BY <3>1, <3>2 DEF IInv, Runner
  <2> QED BY <2>1 DEF IInv, Runner, RunnerInSync
<1> QED BY <1>1, Invariance, PTL

-----------------------------------------------------------------------------
(* Sums over the requests                                                  *)

LEMMA FiniteRequests == IsFiniteSet(Requests)
BY KVAssumption DEF KV!ManagerAssumption, KV!IsFiniteSet, IsFiniteSet

\* The recursion of the sum: the value at s from those at smaller sets.
Pick(s) == CHOOSE x \in s : TRUE
SumAt(f, v, s) == IF s = {} THEN 0 ELSE f[Pick(s)] + v[s \ {Pick(s)}]
Sums(f, v) == \A s \in SUBSET Requests : v[s] = SumAt(f, v, s)
SumOf(f) == CHOOSE v : v = [s \in SUBSET Requests |-> SumAt(f, v, s)]

LEMMA SumDef == ASSUME NEW f
  PROVE  MapThenSumSet(LAMBDA r : f[r], Requests) = SumOf(f)[Requests]
BY DEF MapThenSumSet, MapThenFoldSet, SumOf, SumAt, Pick

\* What a set has after one of its elements is removed.
LEMMA PickFacts ==
  ASSUME NEW s \in SUBSET Requests
  PROVE  /\ Cardinality(s) \in Nat
         /\ s # {} => /\ Pick(s) \in s /\ s \ {Pick(s)} \in SUBSET Requests
                      /\ Cardinality(s \ {Pick(s)}) = Cardinality(s) - 1
                      /\ Cardinality(s) # 0
<1>1. IsFiniteSet(s)
  BY FiniteRequests, FS_Subset
<1>2. Cardinality(s) \in Nat /\ (Cardinality(s) = 0 <=> s = {})
  BY <1>1, FS_CardinalityType, FS_EmptySet
<1>3. s # {} => Pick(s) \in s
  BY DEF Pick
<1> HIDE DEF Pick
<1>4. ASSUME s # {} PROVE Cardinality(s \ {Pick(s)}) = Cardinality(s) - 1
  BY <1>1, <1>3, <1>4, FS_RemoveElement
<1> QED BY <1>2, <1>3, <1>4

\* The recursion has a solution: there is one up to every cardinality.
LEMMA SumExists == ASSUME NEW f PROVE Sums(f, SumOf(f))
<1> DEFINE UpTo(n, v) == \A s \in SUBSET Requests : Cardinality(s) <= n => v[s] = SumAt(f, v, s)
           Bad == {n \in Nat : ~ \E v : UpTo(n, v)}
           Extend(v) == [s \in SUBSET Requests |-> SumAt(f, v, s)]
<1>1. Bad = {}
  <2> SUFFICES ASSUME Bad # {} PROVE FALSE
    OBVIOUS
  <2>1. PICK n \in Bad : \A m \in Bad : n <= m
    BY SameAssumptions, KVP!LeastElement
  <2>2. CASE n = 0
    <3>1. UpTo(0, Extend(f))
      <4> SUFFICES ASSUME NEW s \in SUBSET Requests, Cardinality(s) <= 0
                   PROVE  Extend(f)[s] = SumAt(f, Extend(f), s)
        OBVIOUS
      <4>1. Cardinality(s) \in Nat /\ (s # {} => Cardinality(s) # 0)
        BY PickFacts
      <4>2. s = {}
        BY <4>1
      <4> QED BY <4>2 DEF SumAt
    <3> QED BY <2>2, <3>1
  <2>3. CASE n # 0
    <3>1. n - 1 \in Nat /\ n - 1 \notin Bad
      BY <2>1, <2>3
    <3>2. PICK v : UpTo(n - 1, v)
      BY <3>1
    <3>3. ASSUME NEW s \in SUBSET Requests, Cardinality(s) <= n
          PROVE  Extend(v)[s] = SumAt(f, Extend(v), s)
      <4>1. CASE s = {}
        BY <4>1 DEF SumAt
      <4>2. CASE s # {}
        <5> DEFINE t == s \ {Pick(s)}
        <5>1. t \in SUBSET Requests /\ Cardinality(t) <= n - 1
          BY <3>3, <4>2, PickFacts
        <5>2. v[t] = SumAt(f, v, t)
          BY <5>1, <3>2
        <5>3. Extend(v)[t] = v[t]
          BY <5>1, <5>2
        <5>4. SumAt(f, v, s) = SumAt(f, Extend(v), s)
          BY <4>2, <5>3 DEF SumAt
        <5> QED BY <5>4
      <4> QED BY <4>1, <4>2
    <3>4. UpTo(n, Extend(v))
      BY <3>3
    <3> QED BY <3>4, <2>1
  <2> QED BY <2>2, <2>3
<1>2. Cardinality(Requests) \in Nat
  BY PickFacts
<1>3. PICK v : UpTo(Cardinality(Requests), v)
  BY <1>1, <1>2
<1>4. \A s \in SUBSET Requests : v[s] = SumAt(f, v, s)
  <2> SUFFICES ASSUME NEW s \in SUBSET Requests PROVE v[s] = SumAt(f, v, s)
    OBVIOUS
  <2>1. Cardinality(s) <= Cardinality(Requests)
    BY FiniteRequests, FS_Subset
  <2> QED BY <2>1, <1>3
<1>5. \A s \in SUBSET Requests : Extend(v)[s] = v[s]
  BY <1>4
<1>6. ASSUME NEW s \in SUBSET Requests PROVE SumAt(f, v, s) = SumAt(f, Extend(v), s)
  <2>1. s # {} => s \ {Pick(s)} \in SUBSET Requests
    OBVIOUS
  <2> QED BY <2>1, <1>5 DEF SumAt
<1>7. Extend(v) = [s \in SUBSET Requests |-> SumAt(f, Extend(v), s)]
  BY <1>6
<1>8. SumOf(f) = [s \in SUBSET Requests |-> SumAt(f, SumOf(f), s)]
  BY <1>7 DEF SumOf
<1> QED BY <1>8 DEF Sums

\* A sum of natural numbers is one, and is zero if all of them are.
LEMMA SumType ==
  ASSUME NEW f \in [Requests -> Nat]
  PROVE  /\ \A s \in SUBSET Requests : SumOf(f)[s] \in Nat
         /\ (\A r \in Requests : f[r] = 0) => SumOf(f)[Requests] = 0
<1> DEFINE Zero == \A r \in Requests : f[r] = 0
           Good(s) == SumOf(f)[s] \in Nat /\ (Zero => SumOf(f)[s] = 0)
           Bad == {Cardinality(s) : s \in {t \in SUBSET Requests : ~Good(t)}}
<1>1. Bad = {}
  <2> SUFFICES ASSUME Bad # {} PROVE FALSE
    OBVIOUS
  <2>1. Bad \in SUBSET Nat
    BY PickFacts
  <2>2. PICK n \in Bad : \A m \in Bad : n <= m
    BY <2>1, SameAssumptions, KVP!LeastElement
  <2>3. PICK s \in SUBSET Requests : ~Good(s) /\ Cardinality(s) = n
    OBVIOUS
  <2>4. SumOf(f)[s] = SumAt(f, SumOf(f), s)
    BY SumExists DEF Sums
  <2>5. CASE s = {}
    BY <2>3, <2>4, <2>5 DEF SumAt
  <2>6. CASE s # {}
    <3> DEFINE t == s \ {Pick(s)}
    <3>1. /\ t \in SUBSET Requests /\ Cardinality(t) = Cardinality(s) - 1
          /\ Cardinality(s) \in Nat /\ Pick(s) \in Requests
      BY <2>6, PickFacts
    <3>2. Good(t)
      <4>1. Cardinality(t) \notin Bad
        BY <3>1, <2>2, <2>3
      <4> QED BY <3>1, <4>1
    <3>3. SumOf(f)[s] = f[Pick(s)] + SumOf(f)[t]
      BY <2>4, <2>6 DEF SumAt
    <3>4. f[Pick(s)] \in Nat
      BY <3>1
    <3> HIDE DEF t
    <3> QED BY <3>1, <3>2, <3>3, <3>4, <2>3
  <2> QED BY <2>5, <2>6
<1>2. \A s \in SUBSET Requests : Good(s)
  BY <1>1
<1> QED BY <1>2

\* The sum changes by as much as the one number that changes.
LEMMA SumChange ==
  ASSUME NEW f \in [Requests -> Nat], NEW x \in Requests, NEW k \in Nat
  PROVE  SumOf([f EXCEPT ![x] = k])[Requests] = SumOf(f)[Requests] + k - f[x]
<1> DEFINE g == [f EXCEPT ![x] = k]
           Good(s) == SumOf(g)[s] = SumOf(f)[s] + (IF x \in s THEN k - f[x] ELSE 0)
           Bad == {Cardinality(s) : s \in {t \in SUBSET Requests : ~Good(t)}}
<1>1. g \in [Requests -> Nat] /\ g[x] = k /\ \A r \in Requests \ {x} : g[r] = f[r]
  OBVIOUS
<1> HIDE DEF g
<1>2. Bad = {}
  <2> SUFFICES ASSUME Bad # {} PROVE FALSE
    OBVIOUS
  <2>1. Bad \in SUBSET Nat
    BY PickFacts
  <2>2. PICK n \in Bad : \A m \in Bad : n <= m
    BY <2>1, SameAssumptions, KVP!LeastElement
  <2>3. PICK s \in SUBSET Requests : ~Good(s) /\ Cardinality(s) = n
    OBVIOUS
  <2>4. SumOf(f)[s] = SumAt(f, SumOf(f), s) /\ SumOf(g)[s] = SumAt(g, SumOf(g), s)
    BY SumExists DEF Sums
  <2>5. CASE s = {}
    BY <2>3, <2>4, <2>5 DEF SumAt
  <2>6. CASE s # {}
    <3> DEFINE t == s \ {Pick(s)}
    <3>1. /\ t \in SUBSET Requests /\ Cardinality(t) = Cardinality(s) - 1
          /\ Cardinality(s) \in Nat /\ Pick(s) \in Requests /\ Pick(s) \in s
      BY <2>6, PickFacts
    <3>2. Good(t)
      <4>1. Cardinality(t) \notin Bad
        BY <3>1, <2>2, <2>3
      <4> QED BY <3>1, <4>1
    <3>3. /\ SumOf(f)[s] = f[Pick(s)] + SumOf(f)[t]
          /\ SumOf(g)[s] = g[Pick(s)] + SumOf(g)[t]
      BY <2>4, <2>6 DEF SumAt
    <3>4. /\ f[Pick(s)] \in Nat /\ g[Pick(s)] \in Nat /\ f[x] \in Nat
          /\ SumOf(f)[t] \in Nat /\ SumOf(g)[t] \in Nat
      BY <1>1, <3>1, SumType
    <3>5. CASE Pick(s) = x
      <4>1. x \in s /\ x \notin t
        BY <3>1, <3>5
      <4> HIDE DEF t
      <4> QED BY <1>1, <2>3, <3>2, <3>3, <3>4, <3>5, <4>1
    <3>6. CASE Pick(s) # x
      <4>1. x \in s <=> x \in t
        BY <3>1, <3>6
      <4>2. g[Pick(s)] = f[Pick(s)]
        BY <1>1, <3>1, <3>6
      <4> HIDE DEF t
      <4> QED BY <2>3, <3>2, <3>3, <3>4, <4>1, <4>2
    <3> QED BY <3>5, <3>6
  <2> QED BY <2>5, <2>6
<1>3. Good(Requests)
  BY <1>2
<1>4. SumOf(f)[Requests] \in Nat /\ f[x] \in Nat
  BY SumType
<1> QED BY <1>3, <1>4 DEF g
-----------------------------------------------------------------------------
(* The budget                                                              *)

Sum == SumOf(numScheduled)[Requests]

\* BudgetExact, but for what IInv says already.
Budget ==
  /\ Len(running) <= MaxRunningReqs
  /\ tokenBudget <= MaxScheduledTokens
  /\ phase \in {"running", "waiting", "execute"} => tokenBudget + Sum = MaxScheduledTokens

LEMMA BudgetTypes ==
  ASSUME IInv
  PROVE  /\ MaxRunningReqs \in Nat /\ MaxScheduledTokens \in Nat /\ Sum \in Nat
         /\ tokenBudget \in Nat /\ Len(running) \in Nat /\ running \in Seq(Requests)
         /\ numScheduled \in [Requests -> Nat]
<1>1. /\ config \in Configs /\ running \in Seq(Requests) /\ tokenBudget \in Nat
      /\ numScheduled \in [Requests -> Nat]
  BY DEF IInv, Types
<1>2. MaxRunningReqs \in Nat /\ MaxScheduledTokens \in Nat
  BY <1>1, SchedulerAssumption DEF MaxRunningReqs, MaxScheduledTokens
<1>3. Sum \in Nat
  BY <1>1, SumType DEF Sum
<1> QED BY <1>1, <1>2, <1>3, RangeFacts

LEMMA RemoveLength ==
  ASSUME NEW q \in Seq(Requests), IsInjective(q), NEW r \in Requests
  PROVE  Len(Remove(q, r)) <= Len(q)
<1>1. Len(q) \in Nat
  BY RangeFacts
<1>2. CASE r \notin Range(q)
  BY <1>1, <1>2, RemoveAbsent
<1>3. CASE r \in Range(q)
  <2>1. PICK p \in DOMAIN q : q[p] = r
    BY <1>3 DEF Range
  <2>2. Len(Remove(q, r)) = Len(q) - 1
    BY <2>1, RemoveIndex
  <2> QED BY <1>1, <2>2
<1> QED BY <1>2, <1>3

LEMMA Shift ==
  ASSUME NEW b \in Int, NEW m \in Int, NEW n \in Int, NEW x \in Int, NEW k \in Int, b + m = n
  PROVE  (b + x - k) + (m + k - x) = n
OBVIOUS

\* A step of the loops moves tokens between the budget and one request.
LEMMA TokensMove ==
  ASSUME IInv, Budget, NEW r \in Requests, NEW k \in Nat,
         phase \in {"running", "waiting", "execute"},
         numScheduled' = [numScheduled EXCEPT ![r] = k],
         tokenBudget' = tokenBudget + numScheduled[r] - k,
         config' = config, Len(running') <= MaxRunningReqs
  PROVE  Budget'
<1>1. Sum' = Sum + k - numScheduled[r] /\ numScheduled[r] \in Nat
  BY BudgetTypes, SumChange DEF Sum
<1>2. MaxRunningReqs' = MaxRunningReqs /\ MaxScheduledTokens' = MaxScheduledTokens
  BY DEF MaxRunningReqs, MaxScheduledTokens
<1>3. Sum' \in Nat
  <2>1. numScheduled' \in [Requests -> Nat]
    BY BudgetTypes
  <2> QED BY <2>1, SumType DEF Sum
<1>4. tokenBudget' + Sum' = MaxScheduledTokens
  <2>1. /\ tokenBudget \in Nat /\ Sum \in Nat /\ MaxScheduledTokens \in Nat
        /\ tokenBudget + Sum = MaxScheduledTokens
    BY BudgetTypes DEF Budget
  <2>2. /\ tokenBudget \in Int /\ Sum \in Int /\ MaxScheduledTokens \in Int
        /\ numScheduled[r] \in Int
    BY <1>1, <2>1
  <2>3. (tokenBudget + numScheduled[r] - k) + (Sum + k - numScheduled[r]) = MaxScheduledTokens
    BY <2>1, <2>2, Shift
  <2> QED BY <1>1, <2>3, Zenon
<1>5. tokenBudget' \in Int
  BY <1>1, BudgetTypes
<1>6. tokenBudget' <= MaxScheduledTokens
  BY <1>3, <1>4, <1>5, BudgetTypes
<1> QED BY <1>2, <1>4, <1>6 DEF Budget

LEMMA NextBudget == IInv /\ Budget /\ [Next]_vars => Budget'
<1> SUFFICES ASSUME IInv, Budget, [Next]_vars PROVE Budget'
  OBVIOUS
<1>1. MaxRunningReqs' = MaxRunningReqs /\ MaxScheduledTokens' = MaxScheduledTokens
  <2>1. config' = config
    BY DEF Next, vars, EngineLoop, StartSchedule, ScheduleRunning, PreemptVictim, EndRunning,
       ScheduleWaiting, EndWaiting, Execute, FinishStopped, EndUpdate, PreemptForReset, Reset,
       AddRequest, Abort, StartReset, ResetUnused, WaitForWork
  <2> QED BY <2>1 DEF MaxRunningReqs, MaxScheduledTokens
\* Steps that leave the budget and what is scheduled alone.
<1>2. ASSUME UNCHANGED <<tokenBudget, numScheduled>>, Len(running') <= Len(running),
             Len(running') \in Nat,
             phase' \in {"running", "waiting", "execute"} =>
               phase \in {"running", "waiting", "execute"}
      PROVE  Budget'
  BY <1>1, <1>2, BudgetTypes DEF Budget, Sum
<1>3. Len(running) \in Nat /\ Len(running) <= Len(running)
  BY BudgetTypes
<1>4. ASSUME NEW r \in Requests, running' = Remove(running, r)
      PROVE  Len(running') \in Nat /\ Len(running') <= Len(running)
  <2>1. running \in Seq(Requests) /\ IsInjective(running)
    BY DEF IInv, Types
  <2>2. Remove(running, r) \in Seq(Requests)
    BY <2>1, RemoveFacts
  <2> QED BY <1>4, <2>1, <2>2, RemoveLength, RangeFacts
<1>5. CASE UNCHANGED vars \/ WaitForWork
  BY <1>2, <1>3, <1>5 DEF WaitForWork, vars, kvVars, schedVars, requestVars, stepVars
<1>6. CASE \E r \in Requests : AddRequest(r)
  BY <1>2, <1>3, <1>6 DEF AddRequest, kvVars, requestVars, stepVars
<1>7. ASSUME NEW r \in Requests, Abort(r) PROVE Budget'
  BY <1>2, <1>4, <1>7 DEF Abort, FreeRequest, stepVars
<1>8. CASE StartReset \/ ResetUnused \/ Reset \/ EndUpdate \/ EndRunning \/ EndWaiting
  BY <1>2, <1>3, <1>8 DEF StartReset, ResetUnused, Reset, EndUpdate, EndRunning, EndWaiting,
     kvVars, requestVars, stepVars
<1>9. CASE StartSchedule
  <2>1. /\ phase = "idle" /\ tokenBudget' = MaxScheduledTokens
        /\ numScheduled' = numScheduled /\ running' = running
    BY <1>9 DEF StartSchedule, kvVars, requestVars
  <2>2. \A r \in Requests : numScheduled[r] = 0
    BY <2>1, BudgetTypes DEF IInv, Step, Scheduled
  <2>3. Sum = 0
    BY <2>2, BudgetTypes, SumType DEF Sum
  <2> QED BY <1>1, <2>1, <2>3, BudgetTypes DEF Budget, Sum
<1>10. CASE ScheduleRunning
  <2> DEFINE r == running[reqIndex]
             n == NumNewTokens(r)
  <2>1. /\ phase = "running" /\ InRunningLoop
        /\ numScheduled' = [numScheduled EXCEPT ![r] = n]
        /\ tokenBudget' = tokenBudget - n /\ n > 0 /\ running' = running /\ config' = config
    BY <1>10 DEF ScheduleRunning, InRunningLoop
  <2>2. r \in Requests /\ r \notin Scheduled
    BY <2>1, VictimFacts
  <2>3. n \in Nat
    BY <2>1, <2>2, NumNewTokensFacts
  <2> HIDE DEF r, n
  <2>4. numScheduled[r] = 0
    BY <2>2, BudgetTypes DEF Scheduled
  <2>5. tokenBudget' = tokenBudget + numScheduled[r] - n
    BY <2>1, <2>3, <2>4, BudgetTypes
  <2>6. Len(running') <= MaxRunningReqs
    BY <2>1 DEF Budget
  <2> QED BY <2>1, <2>2, <2>3, <2>5, <2>6, TokensMove
<1>11. CASE PreemptVictim
  <2> DEFINE v == Victim
  <2>1. /\ phase = "running" /\ running' = Remove(running, v) /\ config' = config
        /\ numScheduled' = [numScheduled EXCEPT ![v] = 0]
        /\ tokenBudget' = tokenBudget + numScheduled[v]
    BY <1>11 DEF PreemptVictim, InRunningLoop, TakeBack
  <2>2. v \in Requests
    BY <1>11, VictimFacts DEF PreemptVictim
  <2> HIDE DEF v
  <2>3. Len(running') <= MaxRunningReqs
    BY <1>4, <2>1, <2>2, BudgetTypes DEF Budget
  <2>4. tokenBudget' = tokenBudget + numScheduled[v] - 0
    BY <2>1, <2>2, BudgetTypes
  <2> QED BY <2>1, <2>2, <2>3, <2>4, TokensMove
<1>12. CASE ScheduleWaiting
  <2> DEFINE r == Head(waiting)
             hits == ComputedBlocks(r)
             n == KV!MinOf(NumNewTokensWaiting(r, hits), tokenBudget)
  <2>1. /\ phase = "waiting" /\ tokenBudget > 0 /\ Len(running) < MaxRunningReqs
        /\ numScheduled' = [numScheduled EXCEPT ![r] = n] /\ config' = config
        /\ tokenBudget' = tokenBudget - n /\ running' = Append(running, r)
    BY <1>12 DEF ScheduleWaiting, InWaitingLoop
  <2>2. r \in Requests /\ status[r] = "waiting" /\ r \notin Range(running)
    BY <1>12, StartQueues DEF IInv
  <2>3. n \in Nat
    <3>1. /\ Len(hits) \in Nat /\ Len(hits) * BlockSize < numTokens[r]
          /\ Len(hits) * BlockSize \in Nat
      BY <2>2, HitTokens, Constants
    <3>2. numTokens[r] \in Nat /\ tokenBudget \in Nat /\ LongPrefillThreshold \in Nat
      BY <2>2, SchedulerAssumption DEF IInv, Types, LongPrefillThreshold
    <3> HIDE DEF r, hits
    <3> QED BY <2>1, <3>1, <3>2 DEF NumNewTokensWaiting, Capped, KV!MinOf
  <2> HIDE DEF r, hits, n
  <2>4. numScheduled[r] = 0
    BY <2>2, BudgetTypes DEF IInv, Step, Scheduled
  <2>5. tokenBudget' = tokenBudget + numScheduled[r] - n
    BY <2>1, <2>3, <2>4, BudgetTypes
  <2>6. Len(running') <= MaxRunningReqs
    <3>1. Len(running') = Len(running) + 1
      BY <2>1, <2>2, BudgetTypes, AppendProperties
    <3> QED BY <2>1, <3>1, BudgetTypes
  <2> QED BY <2>1, <2>2, <2>3, <2>5, <2>6, TokensMove
<1>13. CASE Execute
  BY <1>1, <1>13 DEF Execute, stepVars, Budget
<1>14. CASE FinishStopped
  <2>1. PICK i \in DOMAIN running : /\ running' = Remove(running, running[i])
                                    /\ FreeRequest(running[i])
    BY <1>14 DEF FinishStopped
  <2>2. running[i] \in Requests
    BY <2>1, BudgetTypes, RangeFacts
  <2> QED BY <1>2, <1>4, <1>14, <2>1, <2>2 DEF FinishStopped, FreeRequest, stepVars
<1>15. CASE PreemptForReset
  <2>1. running # << >> /\ running \in Seq(Requests) /\ IsInjective(running)
    BY <1>15 DEF PreemptForReset, IInv, Types
  <2>2. running' = Remove(running, running[Len(running)]) /\ running[Len(running)] \in Requests
    BY <1>15, <2>1, FrontFacts, RangeFacts DEF PreemptForReset
  <2> QED BY <1>2, <1>4, <1>15, <2>2 DEF PreemptForReset, stepVars
<1> QED BY <1>5, <1>6, <1>7, <1>8, <1>9, <1>10, <1>11, <1>12, <1>13, <1>14, <1>15
        DEF Next, EngineLoop

\* The tokens scheduled and the budget left always add up to
\* max_num_batched_tokens, also when a victim that was scheduled is taken back
\* and the number chosen before that is scheduled after it, and no more requests
\* run than max_num_seqs: the assertions at the end of schedule() never fail.
THEOREM BudgetIsExact == Spec => []BudgetExact
<1>1. Init => Budget
  <2> SUFFICES ASSUME Init PROVE Budget
    OBVIOUS
  <2>1. IInv
    BY InitIInv
  <2>2. phase = "idle" /\ tokenBudget = 0 /\ Len(running) = 0
    BY EmptySeq DEF Init
  <2> QED BY <2>1, <2>2, BudgetTypes DEF Budget
<1>2. IInv /\ Budget => BudgetExact
  <2> SUFFICES ASSUME IInv, Budget PROVE BudgetExact
    OBVIOUS
  <2>1. MapThenSumSet(LAMBDA r : numScheduled[r], Requests) = Sum
    BY SumDef DEF Sum
  <2>2. Range(waiting) \subseteq Requests /\ Range(running) \subseteq Requests
    <3>1. waiting \in Seq(Requests) /\ running \in Seq(Requests)
      BY DEF IInv, Types
    <3> QED BY <3>1, RangeFacts
  <2>3. TypeOK
    <3>1. reqIndex \in 1 .. (Len(running) + 1) \/ phase # "running"
      BY BudgetTypes DEF IInv, Types, Step
    <3>2. tokenBudget \in 0 .. MaxScheduledTokens
      BY BudgetTypes DEF Budget
    <3>3. numNewTokens \in 0 .. tokenBudget
      BY DEF IInv, Types, Step
    <3> QED BY <2>2, <3>1, <3>2, <3>3 DEF IInv, Types, TypeOK
  <2>4. Scheduled \subseteq Range(running)
    BY DEF IInv, Step, Queues, Scheduled
  <2> QED BY <2>1, <2>3, <2>4 DEF Budget, BudgetExact
<1> QED BY <1>1, <1>2, NextBudget, Invariance, PTL DEF Spec

-----------------------------------------------------------------------------
(* The scheduler is a client as the manager assumes                        *)

\* update_from_output is over, so no running request has stopped.
LEMMA SettledFacts == ASSUME IInv, phase # "update" PROVE KV!Settled
BY DEF IInv, Unstopped, KV!Settled

LEMMA RefineRunning ==
  ASSUME IInv, ScheduleRunning PROVE KV!Next
<1> DEFINE r == running[reqIndex]
           n == NumNewTokens(r)
<1>1. /\ running \in Seq(Requests) /\ Len(running) \in Nat /\ DOMAIN running = 1 .. Len(running)
      /\ reqIndex \in DOMAIN running /\ r \in Requests /\ r \in Range(running)
  <2>1. running \in Seq(Requests) /\ reqIndex \in Nat \ {0} /\ reqIndex <= Len(running)
    BY DEF IInv, Types, ScheduleRunning, InRunningLoop
  <2>2. /\ Len(running) \in Nat /\ DOMAIN running = 1 .. Len(running)
        /\ \A i \in 1 .. Len(running) : running[i] \in Requests
        /\ \A x : x \in Range(running) <=> \E i \in 1 .. Len(running) : running[i] = x
    BY <2>1, RangeFacts
  <2>3. reqIndex \in 1 .. Len(running)
    BY <2>1, <2>2
  <2> QED BY <2>1, <2>2, <2>3
<1>2. /\ phase = "running" /\ InRunningLoop /\ n > 0 /\ KV!AllocateSlots(r, n, << >>)
      /\ numScheduled' = [numScheduled EXCEPT ![r] = n]
      /\ UNCHANGED <<status, numTokens, numComputed, content>>
  BY DEF ScheduleRunning, InRunningLoop
<1>3. status[r] = "running" /\ numScheduled[r] = 0
  <2>1. r \notin Scheduled
    BY <1>2, VictimFacts
  <2> QED BY <1>1, <2>1 DEF IInv, Queues, Scheduled, Types
<1>4. n \in 1 .. (numTokens[r] - numComputed[r])
  <2>1. numTokens[r] \in Nat /\ numComputed[r] \in Nat
    BY <1>1 DEF IInv, Types
  <2>2. n \in Nat /\ n <= numTokens[r] - numComputed[r]
    BY <1>1, <1>2, NumNewTokensFacts
  <2> QED BY <1>2, <2>1, <2>2
<1> HIDE DEF r, n
<1>5. KV!ScheduleRunning(r)
  BY <1>2, <1>3, <1>4, SettledFacts DEF KV!ScheduleRunning
<1> QED BY <1>1, <1>5 DEF KV!Next

LEMMA RefineWaiting ==
  ASSUME IInv, config.skipReading = {}, ScheduleWaiting PROVE KV!Next
<1> DEFINE r    == Head(waiting)
           hits == ComputedBlocks(r)
           n    == KV!MinOf(NumNewTokensWaiting(r, hits), tokenBudget)
<1>1. r \in Requests /\ status[r] = "waiting"
  BY StartQueues DEF IInv
<1>2. /\ phase = "waiting" /\ tokenBudget > 0 /\ KV!AllocateSlots(r, n, hits)
      /\ numScheduled' = [numScheduled EXCEPT ![r] = n]
      /\ numComputed' = [numComputed EXCEPT ![r] = Len(hits) * BlockSize]
      /\ status' = [status EXCEPT ![r] = "running"]
      /\ UNCHANGED <<numTokens, content>>
  BY DEF ScheduleWaiting, InWaitingLoop
<1>3. hits = KV!GetComputedBlocks(r)
  BY DEF ComputedBlocks
<1>4. /\ Len(hits) \in Nat /\ Len(hits) * BlockSize < numTokens[r]
      /\ Len(hits) * BlockSize \in Nat
  BY <1>1, HitTokens, Constants
<1> HIDE DEF r, hits
<1>5. n \in 1 .. (numTokens[r] - Len(hits) * BlockSize)
  <2>1. numTokens[r] \in Nat /\ tokenBudget \in Nat /\ LongPrefillThreshold \in Nat
    BY <1>1, SchedulerAssumption DEF IInv, Types, LongPrefillThreshold
  <2> QED BY <1>2, <1>4, <2>1 DEF NumNewTokensWaiting, Capped, KV!MinOf
<1> HIDE DEF n
<1>6. KV!ScheduleWaiting(r)
  BY <1>1, <1>2, <1>3, <1>5, SettledFacts DEF KV!ScheduleWaiting
<1> QED BY <1>1, <1>6 DEF KV!Next

\* A victim under FCFS, or a request preempted for a reset, has no tokens in
\* the step.
LEMMA RefinePreempt ==
  ASSUME IInv, phase # "update", NEW v \in Requests, status[v] = "running", v \notin Scheduled,
         PreemptRequest(v), UNCHANGED <<numTokens, numScheduled, content>>
  PROVE  KV!Next
<1>1. numScheduled[v] = 0
  BY DEF IInv, Types, Scheduled
<1>2. KV!Preempt(v)
  BY <1>1, SettledFacts DEF KV!Preempt, PreemptRequest
<1> QED BY <1>2 DEF KV!Next

LEMMA RefineFinish ==
  ASSUME IInv, phase \in {"idle", "update"}, NEW r \in Requests, status[r] # "finished",
         FreeRequest(r)
  PROVE  KV!Next
<1>1. numScheduled[r] = 0
  BY DEF IInv, Types, Step, Scheduled
<1>2. KV!Finish(r)
  BY <1>1 DEF KV!Finish, FreeRequest
<1> QED BY <1>2 DEF KV!Next

LEMMA RefineReset ==
  ASSUME IInv, Reset \/ ResetUnused PROVE [KV!Next]_(KV!vars)
<1>1. /\ phase \in {"idle", "reset"}
      /\ UNCHANGED <<reqBlocks, numCachedBlock, status, numTokens, numComputed, numScheduled, content>>
      /\ \/ KV!CanResetPrefixCache(pool) /\ pool' = KV!ResetPrefixCache(pool)
         \/ pool' = pool
  BY DEF Reset, ResetUnused, requestVars
<1>2. CASE KV!CanResetPrefixCache(pool) /\ pool' = KV!ResetPrefixCache(pool)
  <2>1. KV!Reset
    BY <1>1, <1>2, SettledFacts DEF KV!Reset, KV!requestVars
  <2> QED BY <2>1 DEF KV!Next
<1>3. CASE pool' = pool
  BY <1>1, <1>3 DEF KV!vars, KV!managerVars, KV!requestVars
<1> QED BY <1>1, <1>2, <1>3

LEMMA StepRefines ==
  ASSUME IInv, [Next]_vars, Policy = "fcfs", config.skipReading = {}
  PROVE  [KV!Next]_(KV!vars)
<1>1. ASSUME UNCHANGED kvVars PROVE UNCHANGED KV!vars
  BY <1>1 DEF kvVars, managerVars, requestVars, KV!vars, KV!managerVars, KV!requestVars
<1>2. CASE UNCHANGED vars \/ WaitForWork
  <2>1. UNCHANGED kvVars
    BY <1>2 DEF vars, WaitForWork
  <2> QED BY <1>1, <2>1
<1>3. CASE StartSchedule \/ EndRunning \/ EndWaiting \/ EndUpdate \/ StartReset
  <2>1. UNCHANGED kvVars
    BY <1>3 DEF StartSchedule, EndRunning, EndWaiting, EndUpdate, StartReset
  <2> QED BY <1>1, <2>1
<1>4. CASE ScheduleRunning
  BY <1>4, RefineRunning
<1>5. CASE PreemptVictim
  <2> DEFINE v == Victim
  <2>1. InRunningLoop /\ PreemptRequest(v) /\ TakeBack(v) /\ UNCHANGED <<numTokens, content>>
    BY <1>5 DEF PreemptVictim
  <2>2. /\ v \in Requests /\ status[v] = "running" /\ v \notin Scheduled
        /\ phase = "running"
    BY <2>1, VictimFacts DEF InRunningLoop
  <2> HIDE DEF v
  <2>3. numScheduled' = numScheduled
    <3>1. numScheduled \in [Requests -> Nat] /\ numScheduled[v] = 0
      BY <2>2 DEF IInv, Types, Scheduled
    <3>2. numScheduled' = [numScheduled EXCEPT ![v] = 0]
      BY <2>1 DEF TakeBack
    <3> QED BY <2>2, <3>1, <3>2
  <2> QED BY <2>1, <2>2, <2>3, RefinePreempt
<1>6. CASE ScheduleWaiting
  BY <1>6, RefineWaiting
<1>7. CASE Execute
  <2>1. CASE KV!Execute
    BY <2>1 DEF KV!Next
  <2>2. CASE UNCHANGED kvVars
    BY <1>1, <2>2
  <2> QED BY <1>7, <2>1, <2>2 DEF Execute
<1>8. CASE FinishStopped
  <2>1. PICK i \in DOMAIN running : FreeRequest(running[i])
    BY <1>8 DEF FinishStopped
  <2>2. running[i] \in Requests /\ running[i] \in Range(running) /\ phase = "update"
    BY <1>8, RangeFacts DEF FinishStopped, IInv, Types, Range
  <2>3. status[running[i]] = "running"
    BY <2>2 DEF IInv, Queues
  <2> QED BY <2>1, <2>2, <2>3, RefineFinish
<1>9. CASE PreemptForReset
  <2> DEFINE v == running[Len(running)]
  <2>1. /\ phase = "reset" /\ PreemptRequest(v) /\ UNCHANGED <<numTokens, numScheduled, content>>
    BY <1>9 DEF PreemptForReset
  <2>2. v \in Requests /\ v \in Range(running)
    <3>1. running \in Seq(Requests) /\ IsInjective(running) /\ running # << >>
      BY <1>9 DEF IInv, Types, PreemptForReset
    <3>2. Len(running) \in DOMAIN running
      BY <3>1, FrontFacts
    <3> QED BY <3>1, <3>2, RangeFacts DEF Range
  <2> HIDE DEF v
  <2>3. status[v] = "running" /\ v \notin Scheduled
    BY <2>1, <2>2 DEF IInv, Queues, Step
  <2> QED BY <2>1, <2>2, <2>3, RefinePreempt
<1>10. CASE Reset \/ ResetUnused
  BY <1>10, RefineReset
<1>11. CASE \E r \in Requests : AddRequest(r) \/ Abort(r)
  <2>1. PICK r \in Requests : AddRequest(r) \/ Abort(r)
    BY <1>11
  <2>2. CASE AddRequest(r)
    BY <1>1, <2>2 DEF AddRequest
  <2>3. CASE Abort(r)
    BY <2>3, RefineFinish DEF Abort
  <2> QED BY <2>1, <2>2, <2>3
<1> QED BY <1>2, <1>3, <1>4, <1>5, <1>6, <1>7, <1>8, <1>9, <1>10, <1>11 DEF Next, EngineLoop

\* Under FCFS, with every request reading the cache, the scheduler calls the
\* manager in the order the manager relies on: never a preemption of a request
\* that has tokens in the step, never a schedule with a stopped request left.
THEOREM SchedulerIsAClient == Spec => ManagerSpec
<1>1. Init => KV!Init
  BY DEF Init
<1>2. IInv /\ [Next]_vars =>
        [Policy = "fcfs" /\ config.skipReading = {} => [KV!Next]_(KV!vars)]_vars
  BY StepRefines
<1> QED BY <1>1, <1>2, Invariance, PTL DEF Spec, ManagerSpec

\* The two instances of the manager make the same steps: their operators have
\* the same definitions, from the pool's methods upwards.
LEMMA SameManager == [KV!Next]_(KV!vars) => [KVP!Next]_(KVP!vars)
<1>1. ASSUME NEW hits PROVE KV!TouchedPool(hits) = KVP!TouchedPool(hits)
  BY Zenon DEF KV!TouchedPool, KVP!TouchedPool, KV!Touch, KVP!Touch, KV!NullBlock,
     KVP!NullBlock, KV!Keep, KVP!Keep, KV!Rank, KVP!Rank, KV!Cardinality, KVP!Cardinality,
     KV!Range, KVP!Range, KV!Blocks, KVP!Blocks
<1>2. ASSUME NEW r PROVE KV!Free(r) = KVP!Free(r)
  BY Zenon DEF KV!Free, KVP!Free, KV!FreeBlocks, KVP!FreeBlocks, KV!NullBlock,
     KVP!NullBlock, KV!Reversed, KVP!Reversed, KV!Untracked, KVP!Untracked, KV!Keep,
     KVP!Keep, KV!Rank, KVP!Rank, KV!Cardinality, KVP!Cardinality, KV!Range, KVP!Range,
     KV!Blocks, KVP!Blocks
<1>3. ASSUME NEW p, NEW S PROVE KV!EvictCachedBlocks(p, S) = KVP!EvictCachedBlocks(p, S)
  BY Zenon DEF KV!EvictCachedBlocks, KVP!EvictCachedBlocks, KV!Keep, KVP!Keep, KV!Rank,
     KVP!Rank, KV!Cardinality, KVP!Cardinality, KV!Range, KVP!Range, KV!Blocks, KVP!Blocks
<1>4. ASSUME NEW p, NEW n PROVE KV!GetNewBlocks(p, n) = KVP!GetNewBlocks(p, n)
  BY <1>3, Zenon DEF KV!GetNewBlocks, KVP!GetNewBlocks, KV!NewBlocks, KVP!NewBlocks,
     KV!Range, KVP!Range, KV!Blocks, KVP!Blocks
<1>5. ASSUME NEW p, NEW bs, NEW hs
      PROVE  KV!CacheFullBlocks(p, bs, hs) = KVP!CacheFullBlocks(p, bs, hs)
  BY Zenon DEF KV!CacheFullBlocks, KVP!CacheFullBlocks, KV!Range, KVP!Range, KV!Blocks,
     KVP!Blocks
<1>6. ASSUME NEW p, NEW r, NEW blks, NEW i, NEW j
      PROVE  KV!CacheBlocks(p, r, blks, i, j) = KVP!CacheBlocks(p, r, blks, i, j)
  BY <1>5, Zenon DEF KV!CacheBlocks, KVP!CacheBlocks, KV!Hash, KVP!Hash
<1>7. ASSUME NEW r, NEW n, NEW hits
      PROVE  KV!NumRequiredBlocks(r, n, hits) = KVP!NumRequiredBlocks(r, n, hits)
  BY Zenon DEF KV!NumRequiredBlocks, KVP!NumRequiredBlocks, KV!MinOf, KVP!MinOf, KV!cdiv,
     KVP!cdiv
<1>8. ASSUME NEW hits PROVE KV!NumEvictable(hits) = KVP!NumEvictable(hits)
  BY Zenon DEF KV!NumEvictable, KVP!NumEvictable, KV!Cardinality, KVP!Cardinality,
     KV!Range, KVP!Range, KV!NullBlock, KVP!NullBlock
<1>9. ASSUME NEW r, NEW n, NEW hits
      PROVE  KV!NumBlocksToAllocate(r, n, hits) = KVP!NumBlocksToAllocate(r, n, hits)
  BY <1>7, <1>8, Zenon DEF KV!NumBlocksToAllocate, KVP!NumBlocksToAllocate, KV!MaxOf,
     KVP!MaxOf, KV!Untracked, KVP!Untracked
<1>10. ASSUME NEW r, NEW n, NEW hits
       PROVE  KV!CanAllocateSlots(r, n, hits) = KVP!CanAllocateSlots(r, n, hits)
  BY <1>9, Zenon DEF KV!CanAllocateSlots, KVP!CanAllocateSlots, KV!GetNumFreeBlocks,
     KVP!GetNumFreeBlocks
<1>11. ASSUME NEW r, NEW n, NEW hits
       PROVE  KV!NumNewBlocks(r, n, hits) = KVP!NumNewBlocks(r, n, hits)
  BY <1>7, Zenon DEF KV!NumNewBlocks, KVP!NumNewBlocks, KV!MaxOf, KVP!MaxOf
<1>12. ASSUME NEW r, NEW n, NEW hits
       PROVE  KV!NumFullBlocks(r, n, hits) = KVP!NumFullBlocks(r, n, hits)
  BY Zenon DEF KV!NumFullBlocks, KVP!NumFullBlocks, KV!MinOf, KVP!MinOf
<1>13. ASSUME NEW r, NEW n, NEW hits
       PROVE  KV!AllocateSlots(r, n, hits) = KVP!AllocateSlots(r, n, hits)
  BY <1>1, <1>4, <1>6, <1>10, <1>11, <1>12, Zenon DEF KV!AllocateSlots, KVP!AllocateSlots,
     KV!NumAlreadyCached, KVP!NumAlreadyCached, KV!NewBlocks, KVP!NewBlocks, KV!Untracked,
     KVP!Untracked
<1>14. ASSUME NEW r PROVE KV!GetComputedBlocks(r) = KVP!GetComputedBlocks(r)
  BY Zenon DEF KV!GetComputedBlocks, KVP!GetComputedBlocks, KV!LongestHit, KVP!LongestHit,
     KV!IsCached, KVP!IsCached, KV!Hash, KVP!Hash, KV!GetCachedBlock, KVP!GetCachedBlock
<1>15. KV!Settled = KVP!Settled
  BY Zenon DEF KV!Settled, KVP!Settled, KV!Stopped, KVP!Stopped
<1>16. ASSUME NEW r PROVE KV!ScheduleWaiting(r) = KVP!ScheduleWaiting(r)
  BY <1>14, <1>13, <1>15, Zenon DEF KV!ScheduleWaiting, KVP!ScheduleWaiting
<1>17. ASSUME NEW r PROVE KV!ScheduleRunning(r) = KVP!ScheduleRunning(r)
  BY <1>13, <1>15, Zenon DEF KV!ScheduleRunning, KVP!ScheduleRunning
<1>18. ASSUME NEW r PROVE KV!Preempt(r) = KVP!Preempt(r)
  BY <1>2, <1>15, Zenon DEF KV!Preempt, KVP!Preempt
<1>19. ASSUME NEW r PROVE KV!Finish(r) = KVP!Finish(r)
  BY <1>2, Zenon DEF KV!Finish, KVP!Finish
<1>20. KV!Execute = KVP!Execute
  BY Zenon DEF KV!Execute, KVP!Execute, KV!Writes, KVP!Writes, KV!KVAt, KVP!KVAt,
     KV!Positions, KVP!Positions, KV!SlotOf, KVP!SlotOf, KV!Blocks, KVP!Blocks, KV!Slots,
     KVP!Slots, KV!managerVars, KVP!managerVars
<1>21. KV!Reset = KVP!Reset
  BY <1>15, Zenon DEF KV!Reset, KVP!Reset, KV!CanResetPrefixCache, KVP!CanResetPrefixCache,
     KV!ResetPrefixCache, KVP!ResetPrefixCache, KV!GetNumFreeBlocks, KVP!GetNumFreeBlocks,
     KV!Blocks, KVP!Blocks, KV!requestVars, KVP!requestVars
<1>22. KV!Next <=> KVP!Next
  BY <1>16, <1>17, <1>18, <1>19, <1>20, <1>21, Zenon DEF KV!Next, KVP!Next
<1>23. UNCHANGED KV!vars => UNCHANGED KVP!vars
  BY DEF KV!vars, KVP!vars, KV!managerVars, KVP!managerVars, KV!requestVars,
     KVP!requestVars
<1> QED BY <1>22, <1>23

\* Under FCFS with every request reading the cache, the KV that the running
\* requests have computed is their own: the theorem of the manager carries over
\* to the scheduler that drives it.  (Under the priority policy it does not.)
THEOREM FCFSKeepsContents ==
  ASSUME \A c \in Configs : c.policy = "fcfs" /\ c.skipReading = {}
  PROVE  Spec => []KVContentsCorrect
<1>1. KVP!Spec => []KVP!KVContentsCorrect
  BY SameAssumptions, KVP!ContentsAreCorrect, PTL
<1>2. KVP!KVContentsCorrect => KVContentsCorrect
  BY Zenon DEF KVContentsCorrect, KV!KVContentsCorrect, KVP!KVContentsCorrect, KV!Writes,
     KVP!Writes, KV!KVAt, KVP!KVAt, KV!Positions, KVP!Positions, KV!SlotOf, KVP!SlotOf
<1>3. Init => KVP!Init
  BY DEF Init, KV!Init, KVP!Init, KV!InitPool, KVP!InitPool, KV!Blocks, KVP!Blocks,
     KV!Slots, KVP!Slots, KV!Empty, KVP!Empty, KV!Untracked, KVP!Untracked
<1>4. IInv /\ [Next]_vars => [KVP!Next]_(KVP!vars)
  <2> SUFFICES ASSUME IInv, [Next]_vars PROVE [KVP!Next]_(KVP!vars)
    OBVIOUS
  <2>1. Policy = "fcfs" /\ config.skipReading = {}
    BY DEF IInv, Types, Policy
  <2>2. [KV!Next]_(KV!vars)
    BY <2>1, StepRefines
  <2> QED BY <2>2, SameManager
<1> QED BY <1>1, <1>2, <1>3, <1>4, Invariance, PTL DEF Spec, KVP!Spec
=============================================================================
