----------------------- MODULE MultiprocExecutorProofs -----------------------
(***************************************************************************)
(* For every number of workers, size of the rings and number of calls: the *)
(* answers that a call returns were computed for that call, although no    *)
(* answer says so (AnswersOwnCall), provided that no call has a deadline   *)
(* and only steps fail on a worker (Dependable).  README.md tells what     *)
(* happens otherwise.                                                      *)
(*                                                                         *)
(* The argument is about what is in the queues: as long as the executor is *)
(* not shut down, the answers of a worker that are on their way are        *)
(* exactly those of the calls it has run and nobody has taken an answer    *)
(* for, in the order of the calls (InTurn), and the engine asks for the    *)
(* oldest call that is not settled.  When it has given up at the shutdown, *)
(* an answer may be left over; but then no queue is read from which one    *)
(* could come.                                                             *)
(***************************************************************************)
EXTENDS MultiprocExecutor, SequenceTheorems, TLAPS

\* What the theorem assumes of the calls.
Dependable == TimeoutCalls = {} /\ FailingCalls \subseteq {"step"}

Answer == [call : Nat, ok : BOOLEAN]

Types ==
  /\ config \in Configs
  /\ pc \in {"idle", "enqueue", "answer", "dead"} /\ call \in Kinds
  /\ sent \in Seq(Kinds)
  /\ taken \in [Workers -> Nat]
  /\ output \in [Workers -> Seq(Answer)] /\ response \in [Workers -> Seq(Answer)]
  /\ futures \in Seq(Nat) /\ batches \in Seq(Nat) /\ answering \in Seq(Nat) /\ got \in Seq(Nat)
  /\ result \in [1 .. MaxCalls -> Seq(Nat)]
  /\ alive \subseteq Workers /\ isFailed \in BOOLEAN /\ shutdownEvent \in BOOLEAN

\* The bounds of the queues, with what the engine has checked before it waits
\* for a slot.
Bounds ==
  /\ \A w \in Workers : /\ taken[w] <= Len(sent) /\ Len(sent) - taken[w] <= RingSize
                        /\ Len(response[w]) <= RingSize
  /\ Len(batches) <= MaxOutstanding
  /\ Len(sent) <= MaxCalls
  /\ pc = "enqueue" => /\ Len(sent) < MaxCalls
                       /\ call = "step" => Len(batches) < MaxOutstanding

Increasing(s) == \A i, j \in 1 .. Len(s) : i < j => s[i] < s[j]

Unsettled == {c \in 1 .. Len(sent) : result[c] = NoResult}

\* The calls without a result are those being answered and then the futures,
\* oldest first; only the last one being answered can be a utility call, and
\* there are no futures then.
Pending ==
  /\ Increasing(answering) /\ Increasing(futures)
  /\ \A a \in Range(answering), f \in Range(futures) : a < f
  /\ Range(answering) \cup Range(futures) = Unsettled
  /\ \A c \in Unsettled : sent[c] = "utility" => futures = << >> /\ answering[Len(answering)] = c
  /\ \A f \in Range(futures) : sent[f] = "step"
  /\ pc = "answer" <=> answering # << >>

\* The batch queue has the futures, and before them steps that are settled.
Batches ==
  /\ Increasing(batches) /\ Range(batches) \subseteq 1 .. Len(sent)
  /\ Range(futures) \subseteq Range(batches)

\* The answers taken for the call being answered are its own.
Gotten ==
  IF answering = << >>
    THEN got = << >>
    ELSE /\ Len(got) < Len(Ranks(sent[Head(answering)]))
         /\ \A i \in 1 .. Len(got) : got[i] = Head(answering)

\* Worker w's answer to call c has been taken.
Asked(w, c) ==
  /\ answering # << >> /\ c = Head(answering)
  /\ \E i \in 1 .. Len(got) : Ranks(sent[c])[i] = w

\* The calls that w has run and whose answer is still to be taken.
Owed(w) == {c \in 1 .. taken[w] : Replies(w, sent[c]) /\ result[c] = NoResult /\ ~Asked(w, c)}

Queue(w) == response[w] \o output[w]
CallsOf(q) == [i \in 1 .. Len(q) |-> q[i].call]

\* The answers of w on their way are those it owes, in the order of the calls.
InTurn(w) ==
  /\ Increasing(CallsOf(Queue(w)))
  /\ Range(CallsOf(Queue(w))) = Owed(w)
  /\ \A a \in Range(Queue(w)) : ~a.ok => sent[a.call] = "step"

\* The engine has given up its last call.
Over == shutdownEvent /\ answering = << >> /\ futures = << >> /\ pc \in {"idle", "dead"}

Answers == Over \/ \A w \in Workers : InTurn(w) \/ (shutdownEvent /\ response[w] = << >>)

\* A worker has run the calls for which its answer has been taken.
Served ==
  shutdownEvent \/ \A w \in Workers, c \in 1 .. Len(sent) :
                     Replies(w, sent[c]) /\ (result[c] # NoResult \/ Asked(w, c)) => c <= taken[w]

\* A result is an error or the call's own answers.
Results ==
  /\ \A c \in 1 .. MaxCalls : c > Len(sent) => result[c] = NoResult
  /\ \A c \in 1 .. Len(sent) : result[c] \notin {NoResult, Error} =>
                                 result[c] = [i \in DOMAIN Ranks(sent[c]) |-> c]

\* After the shutdown nobody answers any more.
Failures == shutdownEvent => isFailed /\ alive = {}

IInv == /\ Dependable /\ Types /\ Bounds /\ Pending /\ Batches /\ Gotten
        /\ Answers /\ Served /\ Results /\ Failures

-----------------------------------------------------------------------------
(* Sequences                                                               *)

\* The elements of a sequence and its length.
LEMMA SeqFacts ==
  ASSUME NEW S, NEW s \in Seq(S)
  PROVE  /\ Len(s) \in Nat /\ DOMAIN s = 1 .. Len(s) /\ \A i \in 1 .. Len(s) : s[i] \in S
         /\ \A x : x \in Range(s) <=> \E i \in 1 .. Len(s) : x = s[i]
         /\ s = << >> <=> Len(s) = 0
         /\ s = << >> <=> Range(s) = {}
         /\ s # << >> => Head(s) = s[1] /\ 1 \in 1 .. Len(s) /\ Len(s) \in 1 .. Len(s)
<1>1. Len(s) \in Nat /\ DOMAIN s = 1 .. Len(s) /\ \A i \in 1 .. Len(s) : s[i] \in S
  BY LenProperties, ElementOfSeq
<1>2. \A x : x \in Range(s) <=> \E i \in 1 .. Len(s) : x = s[i]
  BY <1>1, Zenon DEF Range
<1>3. s = << >> <=> Len(s) = 0
  <2>1. Len(<< >>) = 0 /\ (s # << >> => Len(s) \in Nat \ {0})
    BY EmptySeq
  <2> QED BY <2>1
<1>4. Len(s) # 0 => 1 \in 1 .. Len(s) /\ Len(s) \in 1 .. Len(s)
  BY <1>1
<1>5. s = << >> <=> Range(s) = {}
  <2>1. Len(s) = 0 => 1 .. Len(s) = {}
    BY <1>1
  <2>2. Len(s) # 0 => s[1] \in Range(s)
    BY <1>2, <1>4
  <2>3. Len(s) = 0 => Range(s) = {}
    BY <1>2, <2>1
  <2> QED BY <1>3, <2>2, <2>3
<1>6. s # << >> => Head(s) = s[1]
  OBVIOUS
<1> QED BY <1>1, <1>2, <1>3, <1>4, <1>5, <1>6

\* append at the end
LEMMA AppendFacts ==
  ASSUME NEW S, NEW s \in Seq(S), NEW e \in S
  PROVE  /\ Append(s, e) \in Seq(S) /\ Append(s, e) # << >>
         /\ Len(Append(s, e)) = Len(s) + 1
         /\ \A i \in 1 .. Len(s) : Append(s, e)[i] = s[i]
         /\ Append(s, e)[Len(s) + 1] = e
         /\ Range(Append(s, e)) = Range(s) \cup {e}
         /\ s # << >> => Head(Append(s, e)) = Head(s)
         /\ s = << >> => Head(Append(s, e)) = e
<1> DEFINE t == Append(s, e)
<1>1. /\ t \in Seq(S) /\ t # << >> /\ Len(t) = Len(s) + 1
      /\ \A i \in 1 .. Len(s) : t[i] = s[i]
      /\ t[Len(s) + 1] = e
  BY AppendProperties
<1>2. Head(t) = IF s = <<>> THEN e ELSE Head(s)
  BY HeadTailAppend
<1> HIDE DEF t
<1>3. /\ Len(s) \in Nat
      /\ \A x : x \in Range(s) <=> \E i \in 1 .. Len(s) : x = s[i]
      /\ \A x : x \in Range(t) <=> \E i \in 1 .. Len(t) : x = t[i]
  BY <1>1, SeqFacts
<1>4. \A i : i \in 1 .. Len(t) <=> i \in 1 .. Len(s) \/ i = Len(s) + 1
  BY <1>1, <1>3
<1>5. Range(t) = Range(s) \cup {e}
  <2>1. ASSUME NEW x \in Range(t) PROVE x \in Range(s) \cup {e}
    <3>1. PICK i \in 1 .. Len(t) : x = t[i]
      BY <1>3
    <3> QED BY <3>1, <1>1, <1>3, <1>4
  <2>2. ASSUME NEW x \in Range(s) PROVE x \in Range(t)
    <3>1. PICK i \in 1 .. Len(s) : x = s[i]
      BY <1>3
    <3> QED BY <3>1, <1>1, <1>3, <1>4
  <2>3. e \in Range(t)
    BY <1>1, <1>3, <1>4
  <2> QED BY <2>1, <2>2, <2>3
<1> QED BY <1>1, <1>2, <1>5 DEF t

\* the rest of a sequence
LEMMA TailFacts ==
  ASSUME NEW S, NEW s \in Seq(S), s # << >>
  PROVE  /\ Head(s) \in S /\ Tail(s) \in Seq(S) /\ Len(Tail(s)) = Len(s) - 1
         /\ \A i \in 1 .. Len(Tail(s)) : Tail(s)[i] = s[i + 1]
         /\ Range(s) = Range(Tail(s)) \cup {Head(s)}
<1> DEFINE t == Tail(s)
<1>1. /\ Head(s) \in S /\ t \in Seq(S) /\ Len(t) = Len(s) - 1
      /\ \A i \in 1 .. Len(t) : t[i] = s[i + 1]
  BY HeadTailProperties
<1> HIDE DEF t
<1>2. /\ Len(s) \in Nat /\ Head(s) = s[1] /\ 1 \in 1 .. Len(s)
      /\ \A x : x \in Range(s) <=> \E i \in 1 .. Len(s) : x = s[i]
      /\ \A x : x \in Range(t) <=> \E i \in 1 .. Len(t) : x = t[i]
  BY <1>1, SeqFacts
<1>3. \A i \in 1 .. Len(t) : i + 1 \in 1 .. Len(s)
  BY <1>1, <1>2
<1>4. \A i \in 1 .. Len(s) : i # 1 => i - 1 \in 1 .. Len(t) /\ (i - 1) + 1 = i
  BY <1>1, <1>2
<1>5. Range(s) = Range(t) \cup {Head(s)}
  <2>1. ASSUME NEW x \in Range(s), x # s[1] PROVE x \in Range(t)
    <3>1. PICK i \in 1 .. Len(s) : x = s[i]
      BY <1>2
    <3>2. i - 1 \in 1 .. Len(t) /\ (i - 1) + 1 = i
      BY <2>1, <3>1, <1>4
    <3>3. t[i - 1] = x
      BY <3>1, <3>2, <1>1
    <3> QED BY <3>2, <3>3, <1>2
  <2>2. ASSUME NEW x \in Range(t) PROVE x \in Range(s)
    <3>1. PICK i \in 1 .. Len(t) : x = t[i]
      BY <1>2
    <3> QED BY <3>1, <1>1, <1>2, <1>3
  <2>3. s[1] \in Range(s)
    BY <1>2
  <2> QED BY <2>1, <2>2, <2>3, <1>2
<1> QED BY <1>1, <1>5 DEF t

\* An increasing sequence of calls, and the calls behind its end.
LEMMA IncreasingAppend ==
  ASSUME NEW s \in Seq(Nat), Increasing(s), NEW e \in Nat, \A x \in Range(s) : x < e
  PROVE  Increasing(Append(s, e))
<1> DEFINE t == Append(s, e)
<1>1. /\ Len(t) = Len(s) + 1
      /\ \A i \in 1 .. Len(s) : t[i] = s[i]
      /\ t[Len(s) + 1] = e
  BY AppendFacts
<1>2. Len(s) \in Nat /\ \A i \in 1 .. Len(s) : s[i] \in Range(s)
  BY SeqFacts
<1> HIDE DEF t
<1>3. ASSUME NEW i \in 1 .. Len(t), NEW j \in 1 .. Len(t), i < j PROVE t[i] < t[j]
  <2>1. i \in 1 .. Len(s)
    BY <1>1, <1>2, <1>3
  <2>2. CASE j \in 1 .. Len(s)
    BY <2>1, <2>2, <1>1, <1>3 DEF Increasing
  <2>3. CASE j = Len(s) + 1
    BY <2>1, <2>3, <1>1, <1>2
  <2> QED BY <2>2, <2>3, <1>1, <1>2
<1> QED BY <1>3 DEF Increasing, t

\* The head of an increasing sequence is its least element, and gone from its tail.
LEMMA IncreasingTail ==
  ASSUME NEW s \in Seq(Nat), Increasing(s), s # << >>
  PROVE  /\ Increasing(Tail(s)) /\ Head(s) \in Range(s)
         /\ \A x \in Range(s) : Head(s) <= x
         /\ Range(Tail(s)) = Range(s) \ {Head(s)}
<1> DEFINE t == Tail(s)
<1>1. /\ t \in Seq(Nat) /\ Len(t) = Len(s) - 1
      /\ \A i \in 1 .. Len(t) : t[i] = s[i + 1]
      /\ Range(s) = Range(t) \cup {Head(s)}
  BY TailFacts
<1> HIDE DEF t
<1>2. /\ Len(s) \in Nat /\ Head(s) = s[1] /\ 1 \in 1 .. Len(s)
      /\ \A i \in 1 .. Len(s) : s[i] \in Nat
      /\ \A x : x \in Range(s) <=> \E i \in 1 .. Len(s) : x = s[i]
      /\ \A x : x \in Range(t) <=> \E i \in 1 .. Len(t) : x = t[i]
  BY <1>1, SeqFacts
<1>3. \A i \in 1 .. Len(t) : i + 1 \in 1 .. Len(s) /\ 1 < i + 1 /\ i \in Int
  BY <1>1, <1>2
<1>4. Increasing(t)
  <2> SUFFICES ASSUME NEW i \in 1 .. Len(t), NEW j \in 1 .. Len(t), i < j PROVE t[i] < t[j]
    BY DEF Increasing
  <2>1. i + 1 < j + 1
    BY <1>1, <1>2
  <2> QED BY <2>1, <1>1, <1>3 DEF Increasing
<1>5. \A x \in Range(t) : Head(s) < x
  <2> TAKE x \in Range(t)
  <2>1. PICK i \in 1 .. Len(t) : x = t[i]
    BY <1>2
  <2> QED BY <2>1, <1>1, <1>2, <1>3 DEF Increasing
<1>6. Head(s) \in Nat /\ \A x \in Range(s) : x \in Nat
  BY <1>2
<1>7. \A x \in Range(s) : Head(s) <= x
  BY <1>1, <1>5, <1>6
<1>8. Head(s) \notin Range(t)
  <2> SUFFICES ASSUME Head(s) \in Range(t) PROVE FALSE
    OBVIOUS
  <2>1. Head(s) < Head(s)
    BY <1>5
  <2> QED BY <2>1, <1>6
<1> QED BY <1>1, <1>4, <1>7, <1>8 DEF t

\* The calls of a queue of answers.
LEMMA CallsOfFacts ==
  ASSUME NEW q \in Seq(Answer)
  PROVE  /\ CallsOf(q) \in Seq(Nat) /\ Len(CallsOf(q)) = Len(q)
         /\ q # << >> => CallsOf(q) # << >> /\ Head(CallsOf(q)) = Head(q).call
                         /\ CallsOf(Tail(q)) = Tail(CallsOf(q))
         /\ \A a \in Answer : CallsOf(Append(q, a)) = Append(CallsOf(q), a.call)
         /\ \A a \in Range(q) : a \in Answer /\ a.call \in Range(CallsOf(q))
<1>1. /\ Len(q) \in Nat /\ \A i \in 1 .. Len(q) : q[i] \in Answer /\ q[i].call \in Nat
      /\ q = << >> <=> Len(q) = 0
      /\ q # << >> => Head(q) = q[1] /\ 1 \in 1 .. Len(q)
  <2>1. \A a \in Answer : a.call \in Nat
    BY DEF Answer
  <2>2. /\ Len(q) \in Nat /\ \A i \in 1 .. Len(q) : q[i] \in Answer
        /\ q = << >> <=> Len(q) = 0
        /\ q # << >> => Head(q) = q[1] /\ 1 \in 1 .. Len(q)
    BY SeqFacts
  <2> QED BY <2>1, <2>2
<1>2. CallsOf(q) \in [1 .. Len(q) -> Nat] /\ \A i \in 1 .. Len(q) : CallsOf(q)[i] = q[i].call
  BY <1>1 DEF CallsOf
<1>3. CallsOf(q) \in Seq(Nat) /\ Len(CallsOf(q)) = Len(q)
  BY <1>1, <1>2
<1>4. ASSUME q # << >>
      PROVE  CallsOf(q) # << >> /\ Head(CallsOf(q)) = Head(q).call /\ CallsOf(Tail(q)) = Tail(CallsOf(q))
  <2>1. CallsOf(q) # << >> /\ Head(CallsOf(q)) = CallsOf(q)[1]
    BY <1>1, <1>3, <1>4, SeqFacts
  <2>2. Head(CallsOf(q)) = Head(q).call
    BY <2>1, <1>1, <1>2, <1>4
  <2>3. Len(Tail(q)) = Len(q) - 1 /\ \A i \in 1 .. Len(Tail(q)) : Tail(q)[i] = q[i + 1]
    BY <1>4, TailFacts
  <2>4. /\ Tail(CallsOf(q)) \in Seq(Nat) /\ Len(Tail(CallsOf(q))) = Len(q) - 1
        /\ \A i \in 1 .. (Len(q) - 1) : Tail(CallsOf(q))[i] = CallsOf(q)[i + 1]
    BY <2>1, <1>3, TailFacts
  <2> DEFINE t == Tail(CallsOf(q))
             u == Tail(q)
  <2>5. t = [i \in 1 .. (Len(q) - 1) |-> t[i]]
    BY <2>4, LenProperties
  <2> HIDE DEF t, u
  <2>6. \A i \in 1 .. (Len(q) - 1) : i + 1 \in 1 .. Len(q)
    BY <1>1
  <2>7. \A i \in 1 .. (Len(q) - 1) : t[i] = u[i].call
    BY <2>3, <2>4, <2>6, <1>2 DEF t, u
  <2>8. CallsOf(u) = [i \in 1 .. (Len(q) - 1) |-> u[i].call]
    BY <2>3 DEF CallsOf, u
  <2> QED BY <2>1, <2>2, <2>5, <2>7, <2>8 DEF t, u
<1>5. ASSUME NEW a \in Answer PROVE CallsOf(Append(q, a)) = Append(CallsOf(q), a.call)
  <2> DEFINE t == Append(CallsOf(q), a.call)
             u == Append(q, a)
  <2>1. /\ Len(u) = Len(q) + 1 /\ \A i \in 1 .. Len(q) : u[i] = q[i]
        /\ u[Len(q) + 1] = a
    BY AppendFacts
  <2>2. /\ t \in Seq(Nat) /\ Len(t) = Len(q) + 1
        /\ \A i \in 1 .. Len(q) : t[i] = CallsOf(q)[i]
        /\ t[Len(q) + 1] = a.call
    <3>1. a.call \in Nat
      BY DEF Answer
    <3> QED BY <3>1, <1>3, AppendFacts
  <2>3. t = [i \in 1 .. (Len(q) + 1) |-> t[i]]
    BY <2>2, LenProperties
  <2> HIDE DEF t, u
  <2>4. \A i \in 1 .. (Len(q) + 1) : i \in 1 .. Len(q) \/ i = Len(q) + 1
    BY <1>1
  <2>5. \A i \in 1 .. (Len(q) + 1) : t[i] = u[i].call
    BY <2>1, <2>2, <2>4, <1>2
  <2>6. CallsOf(u) = [i \in 1 .. (Len(q) + 1) |-> u[i].call]
    BY <2>1 DEF CallsOf
  <2> QED BY <2>3, <2>5, <2>6 DEF t, u
<1>6. ASSUME NEW a \in Range(q) PROVE a \in Answer /\ a.call \in Range(CallsOf(q))
  <2>1. PICK i \in 1 .. Len(q) : a = q[i]
    BY SeqFacts
  <2>2. a.call = CallsOf(q)[i] /\ i \in 1 .. Len(CallsOf(q))
    BY <2>1, <1>2, <1>3
  <2>3. \A x : x \in Range(CallsOf(q)) <=> \E k \in 1 .. Len(CallsOf(q)) : x = CallsOf(q)[k]
    BY <1>3, SeqFacts
  <2> QED BY <2>1, <2>2, <2>3, <1>1
<1> QED BY <1>3, <1>4, <1>5, <1>6

\* The answers on their way, when one is taken, handed on or added.
LEMMA QueueFacts ==
  ASSUME NEW r \in Seq(Answer), NEW o \in Seq(Answer)
  PROVE  /\ r \o o \in Seq(Answer)
         /\ r # << >> => /\ r \o o # << >> /\ Head(r \o o) = Head(r)
                         /\ Tail(r) \o o = Tail(r \o o)
         /\ o # << >> => Append(r, Head(o)) \o Tail(o) = r \o o
         /\ \A a \in Answer : r \o Append(o, a) = Append(r \o o, a)
<1>1. /\ r \o o \in Seq(Answer) /\ Len(r \o o) = Len(r) + Len(o)
      /\ \A i \in 1 .. Len(r) + Len(o) : (r \o o)[i] = IF i <= Len(r) THEN r[i] ELSE o[i - Len(r)]
  BY ConcatProperties
<1>2. Len(r) \in Nat /\ Len(o) \in Nat /\ (r = << >> <=> Len(r) = 0) /\ (o = << >> <=> Len(o) = 0)
  BY SeqFacts
<1>3. ASSUME r # << >>
      PROVE  r \o o # << >> /\ Head(r \o o) = Head(r) /\ Tail(r) \o o = Tail(r \o o)
  <2>1. r \o o # << >>
    BY <1>1, <1>2, <1>3, SeqFacts
  <2>2. Head(r \o o) = (r \o o)[1] /\ Head(r) = r[1]
    BY <2>1, <1>1, <1>3, SeqFacts
  <2>3. 1 \in 1 .. Len(r) + Len(o) /\ 1 <= Len(r)
    BY <1>2, <1>3
  <2>4. Head(r \o o) = Head(r)
    BY <2>2, <2>3, <1>1
  <2> DEFINE c == r \o o
             t == Tail(r)
             u == Tail(r) \o o
             v == Tail(c)
  <2>5. t \in Seq(Answer) /\ Len(t) = Len(r) - 1 /\ \A i \in 1 .. Len(t) : t[i] = r[i + 1]
    BY <1>3, TailFacts
  <2>6. /\ u \in Seq(Answer) /\ Len(u) = Len(t) + Len(o)
        /\ \A i \in 1 .. Len(t) + Len(o) : u[i] = IF i <= Len(t) THEN t[i] ELSE o[i - Len(t)]
    BY <2>5, ConcatProperties
  <2>7. v \in Seq(Answer) /\ Len(v) = Len(c) - 1 /\ \A i \in 1 .. Len(v) : v[i] = c[i + 1]
    BY <2>1, <1>1, TailFacts
  <2>8. /\ c \in Seq(Answer) /\ Len(c) = Len(r) + Len(o)
        /\ \A i \in 1 .. Len(r) + Len(o) : c[i] = IF i <= Len(r) THEN r[i] ELSE o[i - Len(r)]
    BY <1>1
  <2> HIDE DEF c, t, u, v
  <2>9. Len(u) = Len(v)
    BY <2>5, <2>6, <2>7, <2>8, <1>2
  <2>10. ASSUME NEW i \in 1 .. Len(u) PROVE u[i] = v[i]
    <3>1. i \in 1 .. Len(v) /\ i + 1 \in 1 .. Len(r) + Len(o) /\ i \in 1 .. Len(t) + Len(o)
      BY <2>5, <2>6, <2>9, <1>2
    <3>2. CASE i <= Len(t)
      <4>1. i + 1 <= Len(r) /\ i \in 1 .. Len(t)
        BY <3>1, <3>2, <2>5, <1>2
      <4> QED BY <4>1, <3>1, <3>2, <2>5, <2>6, <2>7, <2>8
    <3>3. CASE ~(i <= Len(t))
      <4>1. ~(i + 1 <= Len(r)) /\ (i + 1) - Len(r) = i - Len(t)
        BY <3>1, <3>3, <2>5, <1>2
      <4>2. u[i] = o[i - Len(t)]
        BY <3>1, <3>3, <2>6
      <4>3. v[i] = c[i + 1] /\ c[i + 1] = o[(i + 1) - Len(r)]
        BY <4>1, <3>1, <2>7, <2>8
      <4> QED BY <4>1, <4>2, <4>3
    <3> QED BY <3>2, <3>3
  <2>11. u = v
    BY <2>6, <2>7, <2>9, <2>10, SeqEqual
  <2> QED BY <2>1, <2>4, <2>11 DEF c, u, v
<1>4. ASSUME o # << >> PROVE Append(r, Head(o)) \o Tail(o) = r \o o
  <2>1. Head(o) \in Answer /\ Tail(o) \in Seq(Answer) /\ <<Head(o)>> \in Seq(Answer)
    BY <1>4, TailFacts
  <2>2. <<Head(o)>> \o Tail(o) = o
    BY <1>4
  <2>3. Append(r, Head(o)) = r \o <<Head(o)>>
    BY <2>1, AppendIsConcat
  <2>4. (r \o <<Head(o)>>) \o Tail(o) = r \o (<<Head(o)>> \o Tail(o))
    BY <2>1, ConcatAssociative
  <2> QED BY <2>2, <2>3, <2>4
<1>5. ASSUME NEW a \in Answer PROVE r \o Append(o, a) = Append(r \o o, a)
  <2>1. <<a>> \in Seq(Answer)
    OBVIOUS
  <2>2. Append(o, a) = o \o <<a>> /\ Append(r \o o, a) = (r \o o) \o <<a>>
    BY <1>1, AppendIsConcat
  <2>3. (r \o o) \o <<a>> = r \o (o \o <<a>>)
    BY <2>1, ConcatAssociative
  <2> QED BY <2>2, <2>3
<1> QED BY <1>1, <1>3, <1>4, <1>5

-----------------------------------------------------------------------------
(* Ranks                                                                   *)

\* The ranks asked for a call are, each once, those that reply to it.
LEMMA RankFacts ==
  ASSUME NEW kind \in Kinds
  PROVE  /\ Ranks(kind) \in Seq(Workers) /\ Len(Ranks(kind)) \in Nat \ {0}
         /\ DOMAIN Ranks(kind) = 1 .. Len(Ranks(kind))
         /\ \A i \in 1 .. Len(Ranks(kind)) : Ranks(kind)[i] \in Workers
         /\ \A i, j \in 1 .. Len(Ranks(kind)) : Ranks(kind)[i] = Ranks(kind)[j] => i = j
         /\ \A w \in Workers : Replies(w, kind) <=> \E i \in 1 .. Len(Ranks(kind)) : Ranks(kind)[i] = w
         /\ kind = "step" => Ranks(kind) = <<OutputRank>> /\ Len(Ranks(kind)) = 1
<1>1. NumWorkers \in Nat \ {0} /\ OutputRank \in Workers
  BY ExecutorAssumption
<1>2. CASE kind = "step"
  <2>1. Ranks(kind) = <<OutputRank>>
    BY <1>2 DEF Ranks
  <2>2. \A w \in Workers : Replies(w, kind) <=> w = OutputRank
    BY <1>2 DEF Replies
  <2>3. /\ <<OutputRank>> \in Seq(Workers) /\ Len(<<OutputRank>>) = 1 /\ DOMAIN <<OutputRank>> = 1 .. 1
        /\ \A i \in 1 .. 1 : i = 1 /\ <<OutputRank>>[i] = OutputRank
    BY <1>1
  <2> QED BY <2>1, <2>2, <2>3, <1>1, <1>2
<1>3. CASE kind = "utility"
  <2> DEFINE r == [i \in 1 .. NumWorkers |-> i - 1]
  <2>1. Ranks(kind) = r
    BY <1>3 DEF Ranks
  <2>2. \A w \in Workers : Replies(w, kind)
    BY <1>3 DEF Replies
  <2>3. r \in [1 .. NumWorkers -> Workers] /\ \A i \in 1 .. NumWorkers : r[i] = i - 1
    BY <1>1 DEF Workers
  <2>4. r \in Seq(Workers) /\ Len(r) = NumWorkers /\ DOMAIN r = 1 .. NumWorkers
    BY <2>3, <1>1
  <2>5. \A w \in Workers : w + 1 \in 1 .. NumWorkers /\ (w + 1) - 1 = w
    BY <1>1 DEF Workers
  <2> HIDE DEF r
  <2>6. \A w \in Workers : \E i \in 1 .. NumWorkers : r[i] = w
    BY <2>3, <2>5
  <2>7. \A i, j \in 1 .. NumWorkers : r[i] = r[j] => i = j
    BY <2>3, <1>1
  <2>8. \A i \in 1 .. NumWorkers : r[i] \in Workers
    BY <2>3
  <2> QED BY <2>1, <2>2, <2>4, <2>6, <2>7, <2>8, <1>1, <1>3
<1> QED BY <1>2, <1>3 DEF Kinds

-----------------------------------------------------------------------------
(* What the invariant says of the calls                                    *)

\* The numbers that occur.
LEMMA Numbers ==
  ASSUME IInv
  PROVE  /\ RingSize \in Nat \ {0} /\ MaxOutstanding \in Nat \ {0} /\ MaxCalls \in Nat
         /\ Len(sent) \in Nat /\ Len(sent) <= MaxCalls
         /\ \A c \in 1 .. Len(sent) : c \in 1 .. MaxCalls /\ sent[c] \in Kinds /\ result[c] \in Seq(Nat)
         /\ \A w \in Workers : taken[w] \in Nat /\ taken[w] <= Len(sent)
         /\ \A w \in Workers : response[w] \in Seq(Answer) /\ output[w] \in Seq(Answer) /\ Queue(w) \in Seq(Answer)
         /\ Len(got) \in Nat /\ Len(batches) \in Nat
<1>1. RingSize \in Nat \ {0} /\ MaxOutstanding \in Nat \ {0} /\ MaxCalls \in Nat
  BY ExecutorAssumption DEF IInv, Types, RingSize, MaxOutstanding
<1>2. Len(sent) \in Nat /\ Len(sent) <= MaxCalls /\ \A c \in 1 .. Len(sent) : sent[c] \in Kinds
  BY SeqFacts DEF IInv, Types, Bounds
<1>3. \A c \in 1 .. Len(sent) : c \in 1 .. MaxCalls
  BY <1>1, <1>2
<1>4. result \in [1 .. MaxCalls -> Seq(Nat)] /\ taken \in [Workers -> Nat]
      /\ output \in [Workers -> Seq(Answer)] /\ response \in [Workers -> Seq(Answer)]
      /\ got \in Seq(Nat) /\ batches \in Seq(Nat)
  BY DEF IInv, Types
<1>5. \A w \in Workers : taken[w] <= Len(sent)
  BY DEF IInv, Bounds
<1>6. \A w \in Workers : response[w] \in Seq(Answer) /\ output[w] \in Seq(Answer) /\ Queue(w) \in Seq(Answer)
  BY <1>4, QueueFacts DEF Queue
<1>7. Len(got) \in Nat /\ Len(batches) \in Nat
  BY <1>4, SeqFacts
<1> QED BY <1>1, <1>2, <1>3, <1>4, <1>5, <1>6, <1>7

\* The call being answered is the oldest that is not settled.
LEMMA OldestCall ==
  ASSUME IInv, answering # << >>
  PROVE  /\ Head(answering) \in Unsettled /\ Head(answering) \in 1 .. Len(sent)
         /\ result[Head(answering)] = NoResult
         /\ \A d \in Unsettled : Head(answering) <= d
<1>1. /\ answering \in Seq(Nat) /\ futures \in Seq(Nat) /\ Increasing(answering)
      /\ \A a \in Range(answering), f \in Range(futures) : a < f
      /\ Range(answering) \cup Range(futures) = Unsettled
  BY DEF IInv, Types, Pending
<1>2. Head(answering) \in Range(answering) /\ \A x \in Range(answering) : Head(answering) <= x
  BY <1>1, IncreasingTail
<1>3. Unsettled \subseteq Nat
  BY Numbers DEF Unsettled
<1>4. ASSUME NEW d \in Unsettled PROVE Head(answering) <= d
  <2>1. d \in Nat /\ Head(answering) \in Nat
    BY <1>1, <1>2, <1>3
  <2> QED BY <2>1, <1>1, <1>2
<1> QED BY <1>1, <1>2, <1>4 DEF Unsettled

\* A worker owes only calls it has run, and that are not settled.
LEMMA OwedFacts ==
  ASSUME IInv, NEW w \in Workers
  PROVE  Owed(w) \subseteq Unsettled /\ \A c \in Owed(w) : c \in 1 .. taken[w] /\ c \in 1 .. Len(sent)
<1>1. Len(sent) \in Nat /\ taken[w] \in Nat /\ taken[w] <= Len(sent)
  BY Numbers
<1>2. \A c \in 1 .. taken[w] : c \in 1 .. Len(sent)
  BY <1>1
<1> QED BY <1>2 DEF Owed, Unsettled

\* The answer that the engine takes is that of the call it is waiting for.
LEMMA AnswerOfTheCall ==
  ASSUME IInv, pc = "answer", NEW w, w = AskedRank, response[w] # << >>
  PROVE  /\ w \in Workers /\ InTurn(w) /\ ~Over /\ answering # << >>
         /\ Queue(w) # << >> /\ Head(Queue(w)) = Head(response[w]) /\ Head(response[w]) \in Answer
         /\ Head(response[w]).call = Head(answering)
         /\ Head(answering) \in Owed(w)
         /\ ~Head(response[w]).ok => sent[Head(answering)] = "step"
<1> DEFINE c == Head(answering)
<1>1. answering # << >> /\ ~Over
  BY DEF IInv, Pending, Over
<1>2. c \in Unsettled /\ c \in 1 .. Len(sent) /\ result[c] = NoResult /\ \A d \in Unsettled : c <= d
  BY <1>1, OldestCall
<1>3. sent[c] \in Kinds
  BY <1>2, Numbers
<1>4. Len(got) \in Nat /\ Len(got) < Len(Ranks(sent[c]))
  BY <1>1, Numbers DEF IInv, Gotten
<1>5. Len(got) + 1 \in 1 .. Len(Ranks(sent[c])) /\ Ranks(sent[c])[Len(got) + 1] = w
  BY <1>3, <1>4, RankFacts DEF AskedRank
<1>6. w \in Workers /\ Replies(w, sent[c])
  BY <1>3, <1>5, RankFacts
<1>7. ~Asked(w, c)
  <2> SUFFICES ASSUME NEW i \in 1 .. Len(got), Ranks(sent[c])[i] = w PROVE FALSE
    BY DEF Asked
  <2>1. i \in 1 .. Len(Ranks(sent[c])) /\ i # Len(got) + 1
    BY <1>4
  <2> QED BY <2>1, <1>3, <1>5, RankFacts
<1>8. InTurn(w)
  BY <1>1, <1>6 DEF IInv, Answers
<1> DEFINE q == Queue(w)
<1>9. q \in Seq(Answer) /\ q # << >> /\ Head(q) = Head(response[w])
  BY <1>6, Numbers, QueueFacts DEF Queue
<1> HIDE DEF q
<1>10. CallsOf(q) \in Seq(Nat) /\ CallsOf(q) # << >> /\ Head(CallsOf(q)) = Head(q).call
  BY <1>9, CallsOfFacts
<1>11. Increasing(CallsOf(q)) /\ Range(CallsOf(q)) = Owed(w)
       /\ \A a \in Range(q) : ~a.ok => sent[a.call] = "step"
  BY <1>8 DEF InTurn, q
<1>12. Head(q).call \in Owed(w) /\ \A d \in Owed(w) : Head(q).call <= d
  BY <1>10, <1>11, IncreasingTail
<1>13. Head(q).call \in Unsettled /\ Head(q).call \in 1 .. taken[w] /\ taken[w] \in Nat
  BY <1>6, <1>12, OwedFacts, Numbers
<1>14. c \in Owed(w)
  <2>1. c <= Head(q).call
    BY <1>2, <1>13
  <2>2. c \in 1 .. taken[w]
    BY <2>1, <1>2, <1>13
  <2> QED BY <2>2, <1>2, <1>6, <1>7 DEF Owed
<1>15. Head(q).call = c
  <2>1. c <= Head(q).call /\ Head(q).call <= c
    BY <1>2, <1>12, <1>13, <1>14
  <2> QED BY <2>1, <1>2, <1>13
<1>16. Head(q) \in Range(q) /\ Head(q) \in Answer
  BY <1>9, SeqFacts
<1> QED BY <1>1, <1>6, <1>8, <1>9, <1>11, <1>14, <1>15, <1>16 DEF q

-----------------------------------------------------------------------------
(* Steps that leave calls and answers alone                                *)

\* Steps that change no more than where the engine is and who is alive.
LEMMA QuietPreserves ==
  ASSUME IInv, UNCHANGED <<sent, futures, batches, answering, got, result, workerVars, config>>,
         Types', Failures',
         pc' = "answer" <=> pc = "answer",
         pc' = "enqueue" => Len(sent) < MaxCalls /\ (call' = "step" => Len(batches) < MaxOutstanding),
         Over => Over', shutdownEvent => shutdownEvent'
  PROVE  IInv'
<1>1. UNCHANGED <<sent, futures, batches, answering, got, result, taken, output, response, config>>
  BY DEF workerVars
<1>2. Bounds'
  BY <1>1 DEF IInv, Bounds, RingSize, MaxOutstanding
<1>3. Unsettled' = Unsettled
  BY <1>1 DEF Unsettled
<1>4. Pending'
  BY <1>1, <1>3 DEF IInv, Pending
<1>5. Batches' /\ Gotten' /\ Results'
  BY <1>1 DEF IInv, Batches, Gotten, Results
<1>6. \A w, c : Asked(w, c)' <=> Asked(w, c)
  BY <1>1 DEF Asked
<1>7. \A w : InTurn(w)' <=> InTurn(w)
  <2> TAKE w
  <2>1. Owed(w)' = Owed(w) /\ Queue(w)' = Queue(w)
    BY <1>1, <1>6 DEF Owed, Queue
  <2> QED BY <2>1, <1>1 DEF InTurn
<1>8. Answers'
  BY <1>1, <1>7 DEF IInv, Answers
<1>9. Served'
  BY <1>1, <1>6 DEF IInv, Served
<1> QED BY <1>2, <1>4, <1>5, <1>8, <1>9 DEF IInv, Dependable

\* collective_rpc, up to the wait for a slot.
LEMMA CollectiveRpcPreserves ==
  ASSUME IInv, NEW kind \in Kinds, CollectiveRpc(kind)
  PROVE  IInv'
<1>1. UNCHANGED <<sent, futures, batches, answering, got, result, workerVars, failVars, config>>
      /\ pc = "idle" /\ call' = kind /\ Len(sent) < MaxCalls /\ MayCall(kind)
      /\ pc' = IF ~isFailed THEN "enqueue" ELSE IF kind = "step" THEN "dead" ELSE "idle"
  BY DEF CollectiveRpc
<1>2. Types'
  BY <1>1 DEF IInv, Types, workerVars, failVars
<1>3. Failures'
  BY <1>1 DEF IInv, Failures, failVars
<1>4. Over => Over'
  BY <1>1 DEF IInv, Failures, Over, failVars
<1>5. shutdownEvent => shutdownEvent'
  BY <1>1 DEF failVars
<1>6. pc' = "enqueue" => Len(sent) < MaxCalls /\ (call' = "step" => Len(batches) < MaxOutstanding)
  BY <1>1 DEF MayCall
<1>7. pc' = "answer" <=> pc = "answer"
  BY <1>1
<1> QED BY <1>1, <1>2, <1>3, <1>4, <1>5, <1>6, <1>7, QuietPreserves

\* Deaths, the monitor, the shutdown and its report to the engine.
LEMMA FailurePreserves ==
  ASSUME IInv,
         \/ \E w \in Workers : WorkerDies(w)
         \/ MonitorWorkers \/ Shutdown \/ ExecutorFailed \/ UNCHANGED vars
  PROVE  IInv'
<1>1. UNCHANGED <<sent, futures, batches, answering, got, result, workerVars, config, call>>
  BY DEF WorkerDies, MonitorWorkers, Shutdown, ExecutorFailed, vars, callVars
<1>2. pc' = pc \/ (pc = "idle" /\ pc' = "dead")
  BY DEF WorkerDies, MonitorWorkers, Shutdown, ExecutorFailed, vars, callVars
<1>3. /\ alive' \subseteq alive /\ isFailed' \in BOOLEAN /\ shutdownEvent' \in BOOLEAN
      /\ shutdownEvent => shutdownEvent'
      /\ Failures'
  <2>1. /\ alive \subseteq Workers /\ isFailed \in BOOLEAN /\ shutdownEvent \in BOOLEAN
        /\ shutdownEvent => isFailed /\ alive = {}
    BY DEF IInv, Types, Failures
  <2>2. CASE \E w \in Workers : WorkerDies(w)
    BY <2>1, <2>2 DEF WorkerDies, Failures
  <2>3. CASE MonitorWorkers
    BY <2>1, <2>3 DEF MonitorWorkers, Failures
  <2>4. CASE Shutdown
    BY <2>1, <2>4 DEF Shutdown, Failures
  <2>5. CASE ExecutorFailed \/ UNCHANGED vars
    <3>1. UNCHANGED <<alive, isFailed, shutdownEvent>>
      BY <2>5 DEF ExecutorFailed, vars, failVars
    <3> QED BY <2>1, <3>1 DEF Failures
  <2> QED BY <2>2, <2>3, <2>4, <2>5
<1>4. Types'
  BY <1>1, <1>2, <1>3 DEF IInv, Types, workerVars
<1>5. Over => Over'
  BY <1>1, <1>2, <1>3 DEF Over
<1>6. pc' = "answer" <=> pc = "answer"
  BY <1>2
<1>7. pc' = "enqueue" => Len(sent) < MaxCalls /\ (call' = "step" => Len(batches) < MaxOutstanding)
  BY <1>1, <1>2 DEF IInv, Bounds
<1> QED BY <1>1, <1>3, <1>4, <1>5, <1>6, <1>7, QuietPreserves

-----------------------------------------------------------------------------
(* The workers                                                             *)

\* An iteration of worker_busy_loop adds the newest answer at the end.
LEMMA WorkerPreserves ==
  ASSUME IInv, NEW w \in Workers, WorkerBusyLoop(w)
  PROVE  IInv'
<1> DEFINE c == taken[w] + 1
<1>1. /\ w \in alive /\ taken[w] < Len(sent)
      /\ taken' = [taken EXCEPT ![w] = c]
      /\ UNCHANGED <<pc, call, futures, batches, answering, got, result, sent, response,
                     alive, isFailed, shutdownEvent, config>>
  BY DEF WorkerBusyLoop, callVars, failVars
<1>2. PICK ok \in {TRUE} \cup {sent[c] \notin FailingCalls} :
        output' = IF Replies(w, sent[c]) THEN [output EXCEPT ![w] = Append(@, [call |-> c, ok |-> ok])]
                  ELSE output
  BY Zenon DEF WorkerBusyLoop
<1>3. /\ Len(sent) \in Nat /\ Len(sent) <= MaxCalls
      /\ \A v \in Workers : taken[v] \in Nat /\ taken[v] <= Len(sent)
      /\ \A v \in Workers : response[v] \in Seq(Answer) /\ output[v] \in Seq(Answer) /\ Queue(v) \in Seq(Answer)
  BY Numbers
<1>4. c \in 1 .. Len(sent) /\ c \in Nat
  BY <1>1, <1>3
<1>5. sent[c] \in Kinds /\ FailingCalls \subseteq {"step"}
  BY <1>4, Numbers DEF IInv, Dependable
<1>6. ok \in BOOLEAN /\ (~ok => sent[c] = "step")
  BY <1>2, <1>5
<1> DEFINE a == [call |-> c, ok |-> ok]
<1>7. a \in Answer /\ a.call = c /\ (~a.ok => sent[c] = "step")
  BY <1>4, <1>6 DEF Answer
<1> HIDE DEF a
<1>8. output' = IF Replies(w, sent[c]) THEN [output EXCEPT ![w] = Append(@, a)] ELSE output
  BY <1>2 DEF a
<1>9. /\ taken'[w] = c /\ \A v \in Workers : v # w => taken'[v] = taken[v]
      /\ taken' \in [Workers -> Nat]
  BY <1>1, <1>4 DEF IInv, Types
<1> HIDE DEF c
<1>10. /\ output' \in [Workers -> Seq(Answer)]
       /\ \A v \in Workers : v # w \/ ~Replies(w, sent[c]) => output'[v] = output[v]
       /\ Replies(w, sent[c]) => output'[w] = Append(output[w], a)
  <2>1. output \in [Workers -> Seq(Answer)] /\ Append(output[w], a) \in Seq(Answer)
    BY <1>3, <1>7, AppendFacts DEF IInv, Types
  <2> QED BY <2>1, <1>8
<1>11. Types'
  BY <1>1, <1>9, <1>10 DEF IInv, Types
<1>12. Bounds'
  <2>1. c <= Len(sent) /\ Len(sent) - c <= RingSize
    <3>1. Len(sent) - taken[w] <= RingSize /\ RingSize \in Nat
      BY Numbers DEF IInv, Bounds
    <3> QED BY <3>1, <1>1, <1>3, <1>4 DEF c
  <2>2. \A v \in Workers : taken'[v] <= Len(sent) /\ Len(sent) - taken'[v] <= RingSize
    BY <2>1, <1>9 DEF IInv, Bounds
  <2> QED BY <2>2, <1>1 DEF IInv, Bounds, RingSize, MaxOutstanding
<1>13. Unsettled' = Unsettled
  BY <1>1 DEF Unsettled
<1>14. Pending' /\ Batches' /\ Gotten' /\ Results' /\ Failures'
  BY <1>1, <1>13 DEF IInv, Pending, Batches, Gotten, Results, Failures
<1>15. \A v, d : Asked(v, d)' <=> Asked(v, d)
  BY <1>1 DEF Asked
<1>16. ~shutdownEvent /\ ~Over
  BY <1>1 DEF IInv, Failures, Over
<1>17. Served'
  <2> SUFFICES ASSUME NEW v \in Workers, NEW d \in 1 .. Len(sent), Replies(v, sent[d]),
                      result[d] # NoResult \/ Asked(v, d)
               PROVE  d <= taken'[v]
    BY <1>1, <1>15 DEF Served
  <2>1. d <= taken[v]
    BY <1>16 DEF IInv, Served
  <2> QED BY <2>1, <1>3, <1>4, <1>9 DEF c
<1>18. ASSUME NEW v \in Workers PROVE InTurn(v)'
  <2>1. InTurn(v)
    BY <1>16 DEF IInv, Answers
  <2>2. CASE v # w
    <3>1. Queue(v)' = Queue(v) /\ Owed(v)' = Owed(v)
      BY <2>2, <1>1, <1>9, <1>10, <1>15 DEF Queue, Owed
    <3> QED BY <2>1, <3>1, <1>1 DEF InTurn
  <2>3. CASE v = w /\ ~Replies(w, sent[c])
    <3>1. Queue(v)' = Queue(v)
      BY <2>3, <1>1, <1>10 DEF Queue
    <3>2. \A d : d \in 1 .. taken'[v] <=> d \in 1 .. taken[v] \/ d = c
      BY <2>3, <1>3, <1>9 DEF c
    <3>3. Owed(v)' = Owed(v)
      BY <2>3, <3>2, <1>1, <1>15 DEF Owed
    <3> QED BY <2>1, <3>1, <3>3, <1>1 DEF InTurn
  <2>4. CASE v = w /\ Replies(w, sent[c])
    <3> DEFINE q == Queue(w)
    <3>1. q \in Seq(Answer)
      BY <1>3
    <3>2. Queue(w)' = Append(q, a)
      <4>1. Queue(w)' = response[w] \o Append(output[w], a)
        BY <2>4, <1>1, <1>10 DEF Queue
      <4>2. response[w] \o Append(output[w], a) = Append(response[w] \o output[w], a)
        BY <1>3, <1>7, QueueFacts
      <4> QED BY <4>1, <4>2 DEF Queue
    <3>3. \A d : d \in 1 .. taken'[w] <=> d \in 1 .. taken[w] \/ d = c
      BY <1>3, <1>9 DEF c
    <3>4. c \notin 1 .. taken[w]
      BY <1>3 DEF c
    <3>5. result[c] = NoResult /\ ~Asked(w, c)
      <4>1. ~(c <= taken[w])
        BY <1>3 DEF c
      <4> QED BY <4>1, <2>4, <1>4, <1>16 DEF IInv, Served
    <3>6. Owed(w)' = Owed(w) \cup {c}
      BY <2>4, <3>3, <3>5, <1>1, <1>15 DEF Owed
    <3> HIDE DEF q
    <3>7. CallsOf(q) \in Seq(Nat) /\ CallsOf(Append(q, a)) = Append(CallsOf(q), c)
      BY <3>1, <1>7, CallsOfFacts
    <3>8. Increasing(CallsOf(q)) /\ Range(CallsOf(q)) = Owed(w)
          /\ \A x \in Range(q) : ~x.ok => sent[x.call] = "step"
      BY <2>1, <2>4 DEF InTurn, q
    <3>9. \A d \in Owed(w) : d < c
      BY <1>3, OwedFacts DEF c
    <3>10. Increasing(Append(CallsOf(q), c)) /\ Range(Append(CallsOf(q), c)) = Owed(w) \cup {c}
      BY <3>7, <3>8, <3>9, <1>4, IncreasingAppend, AppendFacts
    <3>11. Range(Append(q, a)) = Range(q) \cup {a}
      BY <3>1, <1>7, AppendFacts
    <3> QED BY <2>4, <3>2, <3>6, <3>7, <3>8, <3>10, <3>11, <1>1, <1>7 DEF InTurn
  <2> QED BY <2>2, <2>3, <2>4
<1>19. Answers'
  BY <1>18 DEF Answers
<1> QED BY <1>11, <1>12, <1>14, <1>17, <1>19 DEF IInv, Dependable

\* enqueue_output hands the oldest answer on; the order stays.
LEMMA OutputPreserves ==
  ASSUME IInv, NEW w \in Workers, EnqueueOutput(w)
  PROVE  IInv'
<1>1. /\ w \in alive /\ output[w] # << >> /\ Len(response[w]) < RingSize
      /\ response' = [response EXCEPT ![w] = Append(@, Head(output[w]))]
      /\ output' = [output EXCEPT ![w] = Tail(@)]
      /\ UNCHANGED <<pc, call, futures, batches, answering, got, result, sent, taken,
                     alive, isFailed, shutdownEvent, config>>
  BY DEF EnqueueOutput, callVars, failVars
<1>2. \A v \in Workers : response[v] \in Seq(Answer) /\ output[v] \in Seq(Answer)
  BY Numbers
<1>3. Head(output[w]) \in Answer /\ Tail(output[w]) \in Seq(Answer)
      /\ Append(response[w], Head(output[w])) \in Seq(Answer)
      /\ Len(Append(response[w], Head(output[w]))) = Len(response[w]) + 1
  BY <1>1, <1>2, TailFacts, AppendFacts
<1>4. /\ response' \in [Workers -> Seq(Answer)] /\ output' \in [Workers -> Seq(Answer)]
      /\ response'[w] = Append(response[w], Head(output[w])) /\ output'[w] = Tail(output[w])
      /\ \A v \in Workers : v # w => response'[v] = response[v] /\ output'[v] = output[v]
  BY <1>1, <1>3 DEF IInv, Types
<1>5. Types'
  BY <1>1, <1>4 DEF IInv, Types
<1>6. Bounds'
  <2>1. Len(response'[w]) <= RingSize
    <3>1. Len(response[w]) \in Nat /\ RingSize \in Nat
      BY <1>2, Numbers, SeqFacts
    <3> QED BY <3>1, <1>1, <1>3, <1>4
  <2>2. \A v \in Workers : Len(response'[v]) <= RingSize
    BY <2>1, <1>4 DEF IInv, Bounds
  <2> QED BY <2>2, <1>1 DEF IInv, Bounds, RingSize, MaxOutstanding
<1>7. Unsettled' = Unsettled
  BY <1>1 DEF Unsettled
<1>8. Pending' /\ Batches' /\ Gotten' /\ Results' /\ Failures'
  BY <1>1, <1>7 DEF IInv, Pending, Batches, Gotten, Results, Failures
<1>9. \A v, d : Asked(v, d)' <=> Asked(v, d)
  BY <1>1 DEF Asked
<1>10. Served'
  BY <1>1, <1>9 DEF IInv, Served
<1>11. ~shutdownEvent /\ ~Over
  BY <1>1 DEF IInv, Failures, Over
<1>12. ASSUME NEW v \in Workers PROVE InTurn(v)'
  <2>1. InTurn(v)
    BY <1>11 DEF IInv, Answers
  <2>2. Owed(v)' = Owed(v)
    BY <1>1, <1>9 DEF Owed
  <2>3. Queue(v)' = Queue(v)
    <3>1. CASE v # w
      BY <3>1, <1>4 DEF Queue
    <3>2. CASE v = w
      BY <3>2, <1>1, <1>2, <1>4, QueueFacts DEF Queue
    <3> QED BY <3>1, <3>2
  <2> QED BY <2>1, <2>2, <2>3, <1>1 DEF InTurn
<1>13. Answers'
  BY <1>12 DEF Answers
<1> QED BY <1>5, <1>6, <1>8, <1>10, <1>13 DEF IInv, Dependable

-----------------------------------------------------------------------------
(* The engine                                                              *)

\* The broadcast of a call: it is the newest, and comes last.
LEMMA EnqueuePreserves ==
  ASSUME IInv, Enqueue
  PROVE  IInv'
<1> DEFINE n == Len(sent)
           c == Len(sent) + 1
<1>1. /\ pc = "enqueue" /\ HasSlot /\ sent' = Append(sent, call)
      /\ UNCHANGED <<call, got, result, taken, output, response, alive, isFailed, shutdownEvent, config>>
  BY DEF Enqueue, workerVars, failVars
<1>2. \/ /\ call = "step" /\ pc' = "idle"
         /\ futures' = Append(futures, c) /\ batches' = Append(batches, c) /\ answering' = answering
      \/ /\ call = "utility" /\ pc' = "answer"
         /\ answering' = futures \o <<c>> /\ futures' = << >> /\ batches' = batches
  BY DEF Enqueue, DrainFirst, IInv, Types, Kinds
<1>3. /\ n \in Nat /\ n < MaxCalls /\ MaxCalls \in Nat /\ call \in Kinds
      /\ \A w \in Workers : taken[w] \in Nat /\ taken[w] <= n
      /\ sent \in Seq(Kinds) /\ futures \in Seq(Nat) /\ batches \in Seq(Nat)
      /\ \A d \in 1 .. n : sent[d] \in Kinds
  BY <1>1, Numbers DEF IInv, Types, Bounds
<1>4. /\ sent' \in Seq(Kinds) /\ Len(sent') = c /\ sent'[c] = call
      /\ \A d \in 1 .. n : sent'[d] = sent[d]
  BY <1>1, <1>3, AppendFacts
<1>5. answering = << >> /\ got = << >>
  BY <1>1 DEF IInv, Pending, Gotten
<1>6. Range(answering) = {}
  BY <1>5, SeqFacts DEF IInv, Types
<1>7. /\ Range(futures) = Unsettled /\ Increasing(futures)
      /\ \A d \in Unsettled : sent[d] = "step"
  BY <1>6 DEF IInv, Pending
<1>8. c \in Nat /\ c \in 1 .. MaxCalls /\ c > n
  BY <1>3
<1>9. result[c] = NoResult
  BY <1>8 DEF IInv, Results
<1>10. \A d : d \in 1 .. Len(sent') <=> d \in 1 .. n \/ d = c
  BY <1>3, <1>4
<1> HIDE DEF n, c
<1>11. Unsettled' = Unsettled \cup {c}
  BY <1>1, <1>9, <1>10 DEF Unsettled, n
<1>12. \A d \in Unsettled : d < c /\ d \in 1 .. n
  BY <1>3, <1>8 DEF Unsettled, n
<1>13. /\ Append(futures, c) \in Seq(Nat) /\ Append(futures, c) # << >>
       /\ Range(Append(futures, c)) = Unsettled \cup {c} /\ Increasing(Append(futures, c))
       /\ Append(futures, c)[Len(Append(futures, c))] = c
       /\ Append(futures, c) = futures \o <<c>>
       /\ Head(Append(futures, c)) \in Unsettled \cup {c}
  <2> DEFINE t == Append(futures, c)
  <2>1. /\ t \in Seq(Nat) /\ t # << >> /\ Range(t) = Unsettled \cup {c}
        /\ Len(t) = Len(futures) + 1 /\ t[Len(futures) + 1] = c
    <3>1. futures \in Seq(Nat) /\ c \in Nat
      BY <1>3, <1>8
    <3>2. t \in Seq(Nat) /\ t # << >> /\ Range(t) = Range(futures) \cup {c}
      BY <3>1, AppendFacts
    <3>3. Len(t) = Len(futures) + 1 /\ t[Len(futures) + 1] = c
      BY <3>1, AppendFacts
    <3> QED BY <3>2, <3>3, <1>7
  <2>2. Increasing(t)
    BY <1>3, <1>7, <1>8, <1>12, IncreasingAppend
  <2>3. t = futures \o <<c>>
    BY <1>3, <1>8, AppendIsConcat
  <2>4. Head(t) \in Range(t)
    BY <2>1, <2>2, IncreasingTail
  <2> QED BY <2>1, <2>2, <2>3, <2>4
<1>14. Types'
  <2>1. Append(batches, c) \in Seq(Nat) /\ << >> \in Seq(Nat)
    BY <1>3, <1>8, AppendFacts, EmptySeq
  <2>2. futures' \in Seq(Nat) /\ batches' \in Seq(Nat) /\ answering' \in Seq(Nat)
        /\ pc' \in {"idle", "answer"}
    BY <2>1, <1>2, <1>3, <1>13 DEF IInv, Types, c
  <2> QED BY <2>2, <1>1, <1>4 DEF IInv, Types
<1>15. Bounds'
  <2>1. \A w \in Workers : taken[w] <= c /\ c - taken[w] <= RingSize
    <3>1. \A w \in Workers : n - taken[w] < RingSize
      BY <1>1 DEF HasSlot, n
    <3>2. RingSize \in Nat /\ c = n + 1
      BY Numbers DEF c, n
    <3> QED BY <3>1, <3>2, <1>3
  <2>2. Len(batches') <= MaxOutstanding
    <3>1. CASE call = "step"
      <4>1. Len(batches) < MaxOutstanding /\ Len(batches) \in Nat /\ MaxOutstanding \in Nat
        BY <3>1, <1>1, Numbers DEF IInv, Bounds
      <4>2. Len(batches') = Len(batches) + 1
        BY <3>1, <1>2, <1>3, <1>8, AppendFacts DEF c
      <4> QED BY <4>1, <4>2
    <3>2. CASE call # "step"
      BY <3>2, <1>2 DEF IInv, Bounds
    <3> QED BY <3>1, <3>2
  <2>3. c <= MaxCalls
    BY <1>8
  <2> QED BY <2>1, <2>2, <2>3, <1>1, <1>2, <1>4 DEF IInv, Bounds, RingSize, MaxOutstanding
<1>16. Pending'
  <2>1. CASE call = "step"
    <3>1. futures' = Append(futures, c) /\ answering' = answering /\ pc' = "idle"
      BY <2>1, <1>2 DEF c
    <3>2. \A d \in Unsettled' : sent'[d] = "step"
      BY <2>1, <1>4, <1>7, <1>11, <1>12
    <3>3. Increasing(answering)
      BY DEF IInv, Pending
    <3> QED BY <3>1, <3>2, <3>3, <1>5, <1>6, <1>11, <1>13 DEF Pending
  <2>2. CASE call = "utility"
    <3>1. answering' = Append(futures, c) /\ futures' = << >> /\ pc' = "answer"
      BY <2>2, <1>2, <1>13 DEF c
    <3>2. Range(<< >>) = {} /\ Increasing(<< >>)
      BY EmptySeq, SeqFacts DEF Increasing
    <3>3. \A d \in Unsettled' : sent'[d] = "utility" => d = c
      BY <1>4, <1>7, <1>11, <1>12
    <3> QED BY <3>1, <3>2, <3>3, <1>11, <1>13 DEF Pending
  <2> QED BY <2>1, <2>2, <1>2
<1>17. Batches'
  <2>1. Increasing(batches) /\ Range(batches) \subseteq 1 .. n /\ Range(futures) \subseteq Range(batches)
    BY DEF IInv, Batches, n
  <2>2. CASE call = "step"
    <3>1. futures' = Append(futures, c) /\ batches' = Append(batches, c)
      BY <2>2, <1>2 DEF c
    <3>2. \A d \in Range(batches) : d < c
      BY <2>1, <1>3, <1>8
    <3>3. Increasing(Append(batches, c)) /\ Range(Append(batches, c)) = Range(batches) \cup {c}
      <4>1. batches \in Seq(Nat) /\ c \in Nat
        BY <1>3, <1>8
      <4>2. Range(Append(batches, c)) = Range(batches) \cup {c}
        BY <4>1, AppendFacts
      <4>3. Increasing(Append(batches, c))
        BY <4>1, <3>2, <2>1, IncreasingAppend
      <4> QED BY <4>2, <4>3
    <3> QED BY <2>1, <3>1, <3>3, <1>7, <1>10, <1>13 DEF Batches
  <2>3. CASE call = "utility"
    <3>1. futures' = << >> /\ batches' = batches /\ Range(<< >>) = {}
      BY <2>3, <1>2, EmptySeq, SeqFacts
    <3> QED BY <2>1, <3>1, <1>10 DEF Batches
  <2> QED BY <2>2, <2>3, <1>2
<1>18. Gotten'
  <2>1. got' = << >> /\ Len(<< >>) = 0
    BY <1>1, <1>5
  <2>2. CASE call = "step"
    BY <2>1, <2>2, <1>2, <1>5 DEF Gotten
  <2>3. CASE call = "utility"
    <3>1. answering' = Append(futures, c)
      BY <2>3, <1>2, <1>13 DEF c
    <3>2. sent'[Head(answering')] \in Kinds
      BY <3>1, <1>3, <1>4, <1>12, <1>13
    <3>3. Len(Ranks(sent'[Head(answering')])) \in Nat \ {0}
      BY <3>2, RankFacts
    <3> QED BY <2>1, <3>1, <3>3, <1>13 DEF Gotten
  <2> QED BY <2>2, <2>3, <1>2
<1>19. \A w, d : ~Asked(w, d) /\ ~Asked(w, d)'
  BY <1>1, <1>5 DEF Asked
<1>20. \A w \in Workers : \A d \in 1 .. taken[w] : d \in 1 .. n
  BY <1>3
<1>21. ASSUME NEW w \in Workers, InTurn(w) PROVE InTurn(w)'
  <2>1. Owed(w)' = Owed(w)
    BY <1>1, <1>4, <1>19, <1>20 DEF Owed, Replies
  <2>2. Queue(w)' = Queue(w) /\ Queue(w) \in Seq(Answer)
    BY <1>1, Numbers DEF Queue
  <2>3. \A a \in Range(Queue(w)) : a.call \in 1 .. n
    BY <2>2, <1>21, CallsOfFacts, OwedFacts DEF InTurn, n
  <2> QED BY <2>1, <2>2, <2>3, <1>4, <1>21 DEF InTurn
<1>22. Answers'
  BY <1>1, <1>21 DEF IInv, Answers, Over
<1>23. Served'
  <2> SUFFICES ASSUME ~shutdownEvent, NEW w \in Workers, NEW d \in 1 .. Len(sent'),
                      Replies(w, sent'[d]), result[d] # NoResult
               PROVE  d <= taken[w]
    BY <1>1, <1>19 DEF Served, Replies
  <2>1. d \in 1 .. n /\ sent'[d] = sent[d]
    BY <1>4, <1>9, <1>10
  <2> QED BY <2>1 DEF IInv, Served, n
<1>24. Results'
  <2>1. \A d \in 1 .. MaxCalls : d > Len(sent') => d > Len(sent)
    BY <1>3, <1>4, <1>8 DEF n
  <2>2. \A d \in 1 .. Len(sent') : result[d] \notin {NoResult, Error} => d \in 1 .. n
    BY <1>9, <1>10
  <2> QED BY <2>1, <2>2, <1>1, <1>4 DEF IInv, Results, n, Ranks
<1>25. Failures'
  BY <1>1 DEF IInv, Failures
<1> QED BY <1>14, <1>15, <1>16, <1>17, <1>18, <1>22, <1>23, <1>24, <1>25 DEF IInv, Dependable

\* future.result(): the oldest step in the batch queue is the oldest future, or
\* it has been settled by a utility call.
LEMMA FutureResultPreserves ==
  ASSUME IInv, FutureResult
  PROVE  IInv'
<1> DEFINE c == Head(batches)
<1>1. /\ pc = "idle" /\ batches # << >> /\ batches' = Tail(batches)
      /\ UNCHANGED <<sent, got, result, taken, output, response, alive, isFailed, shutdownEvent, config>>
  BY DEF FutureResult, workerVars, failVars
<1>2. \/ /\ result[c] = NoResult /\ pc' = "answer" /\ call' = "step"
         /\ answering' = <<c>> /\ futures' = Tail(futures)
      \/ /\ result[c] # NoResult /\ pc' \in {"idle", "dead"}
         /\ UNCHANGED <<call, answering, futures>>
  BY DEF FutureResult
<1>3. /\ futures \in Seq(Nat) /\ batches \in Seq(Nat) /\ answering = << >> /\ got = << >>
      /\ Increasing(futures) /\ Increasing(batches)
      /\ Range(batches) \subseteq 1 .. Len(sent) /\ Range(futures) \subseteq Range(batches)
      /\ \A f \in Range(futures) : sent[f] = "step"
  BY <1>1 DEF IInv, Types, Pending, Batches, Gotten
<1>4. Range(answering) = {} /\ Increasing(answering)
  BY <1>3, SeqFacts DEF IInv, Types, Pending
<1>5. Range(futures) = Unsettled
  BY <1>4 DEF IInv, Pending
<1>6. /\ c \in Range(batches) /\ Increasing(Tail(batches)) /\ \A x \in Range(batches) : c <= x
      /\ Range(Tail(batches)) = Range(batches) \ {c}
  BY <1>1, <1>3, IncreasingTail
<1>7. /\ c \in Nat /\ Tail(batches) \in Seq(Nat) /\ Len(Tail(batches)) = Len(batches) - 1
      /\ Len(sent) \in Nat /\ Len(batches) \in Nat /\ MaxOutstanding \in Nat
  BY <1>1, <1>3, TailFacts, Numbers
<1>8. c \in 1 .. Len(sent)
  BY <1>3, <1>6
<1> HIDE DEF c
<1>9. Unsettled' = Unsettled
  BY <1>1 DEF Unsettled
<1>10. \A w, d : ~Asked(w, d) /\ ~Asked(w, d)'
  BY <1>1, <1>3 DEF Asked
<1>11. \A w \in Workers : InTurn(w)' <=> InTurn(w)
  <2> TAKE w \in Workers
  <2>1. Owed(w)' = Owed(w) /\ Queue(w)' = Queue(w)
    BY <1>1, <1>10 DEF Owed, Queue
  <2> QED BY <2>1, <1>1 DEF InTurn
<1>12. Served' /\ Results' /\ Failures'
  BY <1>1, <1>10 DEF IInv, Served, Results, Failures
<1>13. Len(batches') <= MaxOutstanding
  BY <1>1, <1>7 DEF IInv, Bounds
<1>14. pc' # "enqueue" /\ pc' \in {"idle", "dead", "answer"}
  BY <1>2
<1>15. Bounds'
  BY <1>1, <1>13, <1>14 DEF IInv, Bounds, RingSize, MaxOutstanding
<1>16. CASE result[c] = NoResult
  <2>1. c \in Range(futures) /\ futures # << >>
    <3>1. c \in Range(futures)
      BY <1>5, <1>8, <1>16 DEF Unsettled
    <3> QED BY <3>1, <1>3, SeqFacts
  <2>2. /\ Head(futures) \in Range(futures) /\ Increasing(Tail(futures))
        /\ \A x \in Range(futures) : Head(futures) <= x
        /\ Range(Tail(futures)) = Range(futures) \ {Head(futures)}
    BY <2>1, <1>3, IncreasingTail
  <2>3. Head(futures) \in Nat /\ Tail(futures) \in Seq(Nat)
    BY <2>1, <1>3, TailFacts
  <2>4. Head(futures) = c
    <3>1. Head(futures) <= c /\ c <= Head(futures)
      BY <2>1, <2>2, <1>3, <1>6
    <3> QED BY <3>1, <2>3, <1>7
  <2>5. answering' = <<c>> /\ futures' = Tail(futures) /\ pc' = "answer" /\ call' = "step"
    BY <1>2, <1>16 DEF c
  <2>6. /\ <<c>> \in Seq(Nat) /\ <<c>> # << >> /\ Head(<<c>>) = c
        /\ Range(<<c>>) = {c} /\ Increasing(<<c>>)
    <3>1. Len(<<c>>) = 1 /\ DOMAIN <<c>> = 1 .. 1 /\ <<c>>[1] = c /\ \A i \in 1 .. 1 : i = 1
      OBVIOUS
    <3>2. <<c>> \in Seq(Nat)
      BY <1>7
    <3>3. Range(<<c>>) = {c}
      BY <3>1 DEF Range
    <3> QED BY <3>1, <3>2, <3>3 DEF Increasing
  <2>7. Types'
    BY <2>3, <2>5, <2>6, <1>1, <1>7 DEF IInv, Types, Kinds
  <2>8. Pending'
    <3>1. ASSUME NEW f \in Range(futures') PROVE c < f /\ sent'[f] = "step"
      <4>1. f \in Range(futures) /\ f # c /\ c <= f
        BY <2>2, <2>4, <2>5
      <4>2. f \in Nat
        BY <4>1, <1>3, SeqFacts
      <4> QED BY <4>1, <4>2, <1>1, <1>3, <1>7
    <3>2. \A d \in Unsettled' : sent'[d] = "step"
      BY <1>1, <1>3, <1>5, <1>9
    <3>3. Range(answering') \cup Range(futures') = Unsettled'
      BY <2>1, <2>2, <2>4, <2>5, <2>6, <1>5, <1>9
    <3> QED BY <3>1, <3>2, <3>3, <2>2, <2>5, <2>6 DEF Pending
  <2>9. Batches'
    BY <2>2, <2>4, <2>5, <1>1, <1>3, <1>6 DEF Batches
  <2>10. Gotten'
    <3>1. sent[c] \in Kinds
      BY <1>8, Numbers
    <3>2. Len(Ranks(sent[c])) \in Nat \ {0} /\ Len(<< >>) = 0
      BY <3>1, RankFacts
    <3> QED BY <3>2, <2>5, <2>6, <1>1, <1>3 DEF Gotten
  <2>11. Answers'
    <3>1. ~Over
      BY <2>1 DEF Over
    <3> QED BY <3>1, <1>1, <1>11 DEF IInv, Answers
  <2> QED BY <2>7, <2>8, <2>9, <2>10, <2>11, <1>12, <1>15 DEF IInv, Dependable
<1>17. CASE result[c] # NoResult
  <2>1. UNCHANGED <<call, answering, futures>> /\ pc' \in {"idle", "dead"}
    BY <1>2, <1>17 DEF c
  <2>2. Types'
    BY <2>1, <1>1, <1>7 DEF IInv, Types
  <2>3. Pending'
    BY <2>1, <1>1, <1>3, <1>9 DEF IInv, Pending
  <2>4. c \notin Range(futures)
    BY <1>5, <1>17 DEF Unsettled
  <2>5. Batches'
    BY <2>1, <2>4, <1>1, <1>3, <1>6 DEF Batches
  <2>6. Gotten'
    BY <2>1, <1>1, <1>3 DEF Gotten
  <2>7. Answers'
    BY <2>1, <1>1, <1>11 DEF IInv, Answers, Over
  <2> QED BY <2>2, <2>3, <2>5, <2>6, <2>7, <1>12, <1>15 DEF IInv, Dependable
<1> QED BY <1>16, <1>17

\* The first call being answered is settled; what becomes of the answers is
\* shown where this is used.
LEMMA SettlePreserves ==
  ASSUME IInv, pc = "answer", NEW value \in Seq(Nat), value # NoResult, Settle(value),
         value # Error => value = [i \in DOMAIN Ranks(sent[Head(answering)]) |-> Head(answering)],
         response' \in [Workers -> Seq(Answer)], \A w \in Workers : Len(response'[w]) <= RingSize,
         Answers', Served'
  PROVE  IInv'
<1> DEFINE c == Head(answering)
           t == Tail(answering)
<1>1. /\ result' = [result EXCEPT ![c] = value]
      /\ got' = << >> /\ answering' = t
      /\ pc' = IF t # << >> THEN "answer" ELSE IF call = "step" /\ value = Error THEN "dead" ELSE "idle"
      /\ UNCHANGED <<call, sent, futures, batches, taken, output, alive, isFailed, shutdownEvent, config>>
  BY DEF Settle, failVars
<1>2. /\ answering \in Seq(Nat) /\ answering # << >> /\ Increasing(answering)
      /\ result \in [1 .. MaxCalls -> Seq(Nat)]
  BY DEF IInv, Types, Pending
<1>3. c \in Unsettled /\ c \in 1 .. Len(sent) /\ c \in 1 .. MaxCalls
  BY <1>2, OldestCall, Numbers
<1>4. /\ t \in Seq(Nat) /\ Len(t) = Len(answering) - 1 /\ Increasing(t)
      /\ \A i \in 1 .. Len(t) : t[i] = answering[i + 1]
      /\ Range(t) = Range(answering) \ {c}
  BY <1>2, TailFacts, IncreasingTail
<1> HIDE DEF c, t
<1>5. /\ result' \in [1 .. MaxCalls -> Seq(Nat)] /\ result'[c] = value
      /\ \A d \in 1 .. MaxCalls : d # c => result'[d] = result[d]
  BY <1>1, <1>2, <1>3
<1>6. \A d \in 1 .. Len(sent) : d \in 1 .. MaxCalls
  BY Numbers
<1>7. Unsettled' = Unsettled \ {c}
  BY <1>1, <1>3, <1>5, <1>6 DEF Unsettled
<1>8. Types'
  <2>1. << >> \in Seq(Nat)
    BY EmptySeq
  <2> QED BY <2>1, <1>1, <1>4, <1>5 DEF IInv, Types
<1>9. Bounds'
  BY <1>1 DEF IInv, Bounds, RingSize, MaxOutstanding
<1>10. c \notin Range(futures)
  <2>1. c \in Range(answering) /\ c \in Nat
    BY <1>2, <1>3, IncreasingTail DEF c
  <2>2. c \in Range(futures) => c < c
    BY <2>1 DEF IInv, Pending
  <2> QED BY <2>1, <2>2
<1>11. Pending'
  <2>1. Increasing(futures) /\ \A f \in Range(futures) : sent[f] = "step"
    BY DEF IInv, Pending
  <2>2. \A a \in Range(t), f \in Range(futures) : a < f
    BY <1>4 DEF IInv, Pending
  <2>3. Range(t) \cup Range(futures) = Unsettled'
    BY <1>4, <1>7, <1>10 DEF IInv, Pending
  <2>4. ASSUME NEW d \in Unsettled', sent[d] = "utility" PROVE futures = << >> /\ t[Len(t)] = d
    <3>1. d # c /\ futures = << >> /\ answering[Len(answering)] = d
      BY <2>4, <1>7 DEF IInv, Pending
    <3>2. Len(answering) \in Nat /\ answering[1] = c /\ Len(answering) # 0
      BY <1>2, SeqFacts DEF c
    <3>3. Len(answering) # 1
      BY <3>1, <3>2
    <3>4. Len(t) \in 1 .. Len(t) /\ Len(t) + 1 = Len(answering)
      BY <3>2, <3>3, <1>4
    <3> QED BY <3>1, <3>4, <1>4
  <2> QED BY <2>1, <2>2, <2>3, <2>4, <1>1, <1>4 DEF Pending
<1>12. Batches'
  BY <1>1 DEF IInv, Batches
<1>13. Gotten'
  <2>1. CASE t = << >>
    BY <2>1, <1>1 DEF Gotten
  <2>2. CASE t # << >>
    <3>1. Head(t) \in Range(t)
      BY <2>2, <1>4, IncreasingTail
    <3>2. Head(t) \in 1 .. Len(sent)
      BY <3>1, <1>4 DEF IInv, Pending, Unsettled
    <3>3. Len(Ranks(sent[Head(t)])) \in Nat \ {0} /\ Len(<< >>) = 0
      BY <3>2, Numbers, RankFacts
    <3> QED BY <2>2, <3>3, <1>1 DEF Gotten
  <2> QED BY <2>1, <2>2
<1>14. Results'
  <2>1. \A d \in 1 .. MaxCalls : d > Len(sent) => d # c
    BY <1>3, Numbers
  <2>2. \A d \in 1 .. MaxCalls : d > Len(sent) => result'[d] = NoResult
    BY <2>1, <1>5 DEF IInv, Results
  <2>3. ASSUME NEW d \in 1 .. Len(sent), result'[d] \notin {NoResult, Error}
        PROVE  result'[d] = [i \in DOMAIN Ranks(sent[d]) |-> d]
    <3>1. CASE d = c
      BY <2>3, <3>1, <1>5 DEF c
    <3>2. CASE d # c
      BY <2>3, <3>2, <1>5, <1>6 DEF IInv, Results
    <3> QED BY <3>1, <3>2
  <2> QED BY <2>2, <2>3, <1>1 DEF Results
<1>15. Failures'
  BY <1>1 DEF IInv, Failures
<1> QED BY <1>8, <1>9, <1>11, <1>12, <1>13, <1>14, <1>15 DEF IInv, Dependable

\* A settled call is owed by nobody.
LEMMA SettledOwed ==
  ASSUME IInv, pc = "answer", NEW value \in Seq(Nat), value # NoResult, Settle(value), NEW v \in Workers
  PROVE  Owed(v)' = Owed(v) \ {Head(answering)}
<1> DEFINE c == Head(answering)
<1>1. /\ result' = [result EXCEPT ![c] = value] /\ got' = << >>
      /\ UNCHANGED <<sent, taken>>
  BY DEF Settle
<1>2. answering # << >> /\ result \in [1 .. MaxCalls -> Seq(Nat)]
  BY DEF IInv, Types, Pending
<1>3. c \in 1 .. MaxCalls
  BY <1>2, OldestCall, Numbers
<1> HIDE DEF c
<1>4. \A d : ~Asked(v, d)'
  <2>1. 1 .. Len(<< >>) = {}
    BY EmptySeq
  <2> QED BY <2>1, <1>1 DEF Asked
<1>5. \A d : d # c => ~Asked(v, d)
  BY DEF Asked, c
<1>6. result'[c] = value /\ \A d \in 1 .. MaxCalls : d # c => result'[d] = result[d]
  BY <1>1, <1>2, <1>3
<1>7. \A d \in 1 .. taken[v] : d \in 1 .. MaxCalls
  <2>1. taken[v] \in Nat /\ Len(sent) \in Nat /\ taken[v] <= Len(sent) /\ Len(sent) <= MaxCalls /\ MaxCalls \in Nat
    BY Numbers
  <2> QED BY <2>1
<1>8. ASSUME NEW d PROVE d \in Owed(v)' <=> d \in Owed(v) /\ d # c
  <2>1. d \in Owed(v)' <=> d \in 1 .. taken[v] /\ Replies(v, sent[d]) /\ result'[d] = NoResult
    BY <1>1, <1>4 DEF Owed, Replies
  <2>2. d # c => (d \in Owed(v) <=> d \in 1 .. taken[v] /\ Replies(v, sent[d]) /\ result[d] = NoResult)
    BY <1>5 DEF Owed
  <2>3. d \in 1 .. taken[v] /\ d # c => result'[d] = result[d]
    BY <1>6, <1>7
  <2> QED BY <2>1, <2>2, <2>3, <1>6
<1> QED BY <1>8 DEF c

\* An answer is taken from the front of a response queue, and is owed no more.
LEMMA TakenInTurn ==
  ASSUME IInv, pc = "answer", NEW w, w = AskedRank, response[w] # << >>,
         response' = [response EXCEPT ![w] = Tail(@)],
         UNCHANGED <<sent, taken, output, shutdownEvent>>,
         Owed(w)' = Owed(w) \ {Head(answering)},
         \A v \in Workers : v # w => Owed(v)' = Owed(v)
  PROVE  /\ response' \in [Workers -> Seq(Answer)] /\ \A v \in Workers : Len(response'[v]) <= RingSize
         /\ Answers'
<1>1. /\ w \in Workers /\ InTurn(w) /\ ~Over /\ answering # << >>
      /\ Queue(w) # << >> /\ Head(Queue(w)) = Head(response[w])
      /\ Head(response[w]).call = Head(answering)
  BY AnswerOfTheCall
<1>2. \A v \in Workers : response[v] \in Seq(Answer) /\ output[v] \in Seq(Answer) /\ Queue(v) \in Seq(Answer)
  BY Numbers
<1>3. Tail(response[w]) \in Seq(Answer) /\ Len(Tail(response[w])) = Len(response[w]) - 1
  BY <1>1, <1>2, TailFacts
<1>4. /\ response' \in [Workers -> Seq(Answer)] /\ response'[w] = Tail(response[w])
      /\ \A v \in Workers : v # w => response'[v] = response[v]
  BY <1>1, <1>3 DEF IInv, Types
<1>5. ASSUME NEW v \in Workers PROVE Len(response'[v]) <= RingSize
  <2>1. Len(response[v]) <= RingSize /\ RingSize \in Nat
    BY Numbers DEF IInv, Bounds
  <2>2. CASE v = w
    <3>1. Len(response[w]) \in Nat
      BY <1>1, <1>2, SeqFacts
    <3> QED BY <2>1, <2>2, <3>1, <1>3, <1>4
  <2>3. CASE v # w
    BY <2>1, <2>3, <1>4
  <2> QED BY <2>2, <2>3
<1>6. InTurn(w)'
  <2> DEFINE q == Queue(w)
  <2>1. Queue(w)' = Tail(q)
    <3>1. response[w] \in Seq(Answer) /\ output[w] \in Seq(Answer) /\ response[w] # << >>
      BY <1>1, <1>2
    <3>2. Tail(response[w]) \o output[w] = Tail(response[w] \o output[w])
      BY <3>1, QueueFacts
    <3> QED BY <3>2, <1>4 DEF Queue
  <2>2. q \in Seq(Answer) /\ q # << >> /\ Head(q).call = Head(answering)
    BY <1>1, <1>2
  <2>3. Increasing(CallsOf(q)) /\ Range(CallsOf(q)) = Owed(w) /\ \A a \in Range(q) : ~a.ok => sent[a.call] = "step"
    BY <1>1 DEF InTurn
  <2> HIDE DEF q
  <2>4. /\ CallsOf(q) \in Seq(Nat) /\ CallsOf(q) # << >> /\ Head(CallsOf(q)) = Head(answering)
        /\ CallsOf(Tail(q)) = Tail(CallsOf(q))
    BY <2>2, CallsOfFacts
  <2>5. Increasing(CallsOf(Tail(q))) /\ Range(CallsOf(Tail(q))) = Owed(w) \ {Head(answering)}
    BY <2>3, <2>4, IncreasingTail
  <2>6. Range(Tail(q)) \subseteq Range(q)
    BY <2>2, TailFacts
  <2> QED BY <2>1, <2>3, <2>5, <2>6 DEF InTurn
<1>7. ASSUME NEW v \in Workers, v # w PROVE InTurn(v)' \/ (shutdownEvent' /\ response'[v] = << >>)
  <2>1. Queue(v)' = Queue(v) /\ Owed(v)' = Owed(v)
    BY <1>4, <1>7 DEF Queue
  <2>2. InTurn(v)' <=> InTurn(v)
    BY <2>1 DEF InTurn
  <2>3. InTurn(v) \/ (shutdownEvent /\ response[v] = << >>)
    BY <1>1 DEF IInv, Answers
  <2> QED BY <2>2, <2>3, <1>4, <1>7
<1> QED BY <1>4, <1>5, <1>6, <1>7 DEF Answers

\* get_response takes the answer of the call it waits for from the rank asked.
LEMMA TakeResponsePreserves ==
  ASSUME IInv, TakeResponse
  PROVE  IInv'
<1>0. PICK w : w = AskedRank
  OBVIOUS
<1> DEFINE c == Head(answering)
           a == Head(response[w])
           r == Ranks(sent[c])
           n == Len(got) + 1
<1>1. pc = "answer" /\ response[w] # << >> /\ response' = [response EXCEPT ![w] = Tail(@)]
  BY <1>0 DEF TakeResponse
<1>2. IF ~a.ok THEN Settle(Error)
      ELSE IF n = Len(r) THEN Settle(Append(got, a.call))
      ELSE /\ got' = Append(got, a.call)
           /\ UNCHANGED <<pc, call, sent, futures, batches, answering, result,
                          taken, output, alive, isFailed, shutdownEvent, config>>
  BY <1>0 DEF TakeResponse, failVars
<1>3. /\ w \in Workers /\ ~Over /\ answering # << >> /\ a \in Answer /\ a.call = c
      /\ c \in Owed(w) /\ (~a.ok => sent[c] = "step")
  BY <1>0, <1>1, AnswerOfTheCall
<1>4. c \in 1 .. Len(sent) /\ result[c] = NoResult /\ sent[c] \in Kinds /\ c \in Nat
  BY <1>3, OldestCall, Numbers
<1>5. /\ got \in Seq(Nat) /\ Len(got) \in Nat /\ Len(got) < Len(r)
      /\ \A i \in 1 .. Len(got) : got[i] = c
  BY <1>3, Numbers DEF IInv, Types, Gotten
<1>6. /\ Len(r) \in Nat \ {0} /\ DOMAIN r = 1 .. Len(r)
      /\ \A i, j \in 1 .. Len(r) : r[i] = r[j] => i = j
      /\ \A v \in Workers : Replies(v, sent[c]) <=> \E i \in 1 .. Len(r) : r[i] = v
      /\ sent[c] = "step" => Len(r) = 1
  BY <1>4, RankFacts
<1>7. w = r[n]
  BY <1>0 DEF AskedRank
<1>8. n \in 1 .. Len(r) /\ n \in Nat /\ (n = Len(r) <=> ~(n < Len(r)))
  BY <1>5, <1>6
<1>9. \A v : Asked(v, c) <=> \E i \in 1 .. Len(got) : r[i] = v
  BY <1>3 DEF Asked
<1>10. /\ Append(got, c) \in Seq(Nat) /\ Append(got, c) # << >> /\ Len(Append(got, c)) = n
       /\ \A i \in 1 .. n : Append(got, c)[i] = c
  <2> DEFINE t == Append(got, c)
  <2>1. /\ t \in Seq(Nat) /\ t # << >> /\ Len(t) = n
        /\ \A i \in 1 .. Len(got) : t[i] = got[i]
        /\ t[n] = c
    BY <1>4, <1>5, AppendFacts
  <2> HIDE DEF t
  <2>2. \A i \in 1 .. n : i \in 1 .. Len(got) \/ i = n
    BY <1>5
  <2>3. \A i \in 1 .. n : t[i] = c
    BY <2>1, <2>2, <1>5
  <2> QED BY <2>1, <2>3 DEF t
<1>11. c \in 1 .. taken[w] /\ taken[w] \in Nat
  BY <1>3, OwedFacts, Numbers
<1> HIDE DEF c, a, r, n
<1>12. \A v \in Workers, d \in 1 .. Len(sent) :
         ~shutdownEvent /\ Replies(v, sent[d]) /\ (result[d] # NoResult \/ Asked(v, d)) => d <= taken[v]
  BY DEF IInv, Served
<1>13. CASE n = Len(r) \/ ~a.ok
  <2>1. n = Len(r)
    <3>1. ~a.ok => Len(r) = 1
      BY <1>3, <1>6
    <3>2. Len(r) = 1 => n = 1
      BY <1>8
    <3> QED BY <3>1, <3>2, <1>13
  <2>2. PICK value \in {Error, Append(got, c)} : Settle(value)
    BY <2>1, <1>2, <1>3
  <2>3. value \in Seq(Nat) /\ value # NoResult
    <3>1. Error \in Seq(Nat) /\ Error # NoResult
      BY DEF Error, NoResult
    <3> QED BY <2>2, <3>1, <1>10 DEF NoResult
  <2>4. value # Error => value = [i \in DOMAIN r |-> c]
    <3> DEFINE t == Append(got, c)
    <3>1. t \in Seq(Nat) /\ Len(t) = n /\ \A i \in 1 .. n : t[i] = c
      BY <1>10
    <3>2. t = [i \in 1 .. n |-> t[i]]
      BY <3>1, LenProperties
    <3> HIDE DEF t
    <3>3. t = [i \in 1 .. n |-> c]
      BY <3>1, <3>2
    <3> QED BY <2>1, <2>2, <3>3, <1>6 DEF t
  <2>5. \A v \in Workers : v # w => ~Replies(v, sent[c]) \/ Asked(v, c)
    <3> TAKE v \in Workers
    <3> SUFFICES ASSUME v # w, Replies(v, sent[c]) PROVE Asked(v, c)
      OBVIOUS
    <3>1. PICK i \in 1 .. Len(r) : r[i] = v
      BY <1>6
    <3>2. i # n
      BY <3>1, <1>7
    <3>3. i \in 1 .. Len(got)
      BY <3>2, <2>1, <1>5, <1>6 DEF n
    <3> QED BY <3>1, <3>3, <1>9
  <2>6. \A v \in Workers : Owed(v)' = Owed(v) \ {c}
    BY <2>2, <2>3, <1>1, SettledOwed DEF c
  <2>7. \A v \in Workers : v # w => c \notin Owed(v)
    BY <2>5 DEF Owed
  <2>8. UNCHANGED <<sent, taken, output, shutdownEvent>> /\ result' = [result EXCEPT ![c] = value] /\ got' = << >>
    BY <2>2 DEF Settle, failVars, c
  <2>9. Owed(w)' = Owed(w) \ {Head(answering)} /\ \A v \in Workers : v # w => Owed(v)' = Owed(v)
    BY <2>6, <2>7, <1>3 DEF c
  <2>10. /\ response' \in [Workers -> Seq(Answer)] /\ \A v \in Workers : Len(response'[v]) <= RingSize
         /\ Answers'
    BY <2>8, <2>9, <1>0, <1>1, TakenInTurn
  <2>11. Served'
    <3> SUFFICES ASSUME ~shutdownEvent, NEW v \in Workers, NEW d \in 1 .. Len(sent), Replies(v, sent[d]),
                        result'[d] # NoResult \/ Asked(v, d)'
                 PROVE  d <= taken[v]
      BY <2>8 DEF Served, Replies
    <3>1. ~Asked(v, d)'
      <4>1. 1 .. Len(<< >>) = {}
        BY EmptySeq
      <4> QED BY <4>1, <2>8 DEF Asked
    <3>2. CASE d = c
      <4>1. CASE v = w
        BY <3>2, <4>1, <1>11
      <4>2. CASE v # w
        BY <3>2, <4>2, <2>5, <1>4, <1>12
      <4> QED BY <4>1, <4>2
    <3>3. CASE d # c
      <4>1. result'[d] = result[d]
        <5>1. d \in 1 .. MaxCalls /\ result \in [1 .. MaxCalls -> Seq(Nat)]
          BY Numbers DEF IInv, Types
        <5> QED BY <5>1, <3>3, <2>8
      <4> QED BY <4>1, <3>1, <1>12
    <3> QED BY <3>2, <3>3
  <2> QED BY <2>2, <2>3, <2>4, <2>10, <2>11, <1>1, SettlePreserves DEF c, r
<1>14. CASE n # Len(r) /\ a.ok
  <2>1. /\ got' = Append(got, c)
        /\ UNCHANGED <<pc, call, sent, futures, batches, answering, result,
                       taken, output, alive, isFailed, shutdownEvent, config>>
    BY <1>2, <1>3, <1>14
  <2>2. Len(got') = n /\ \A i : i \in 1 .. n <=> i \in 1 .. Len(got) \/ i = n
    BY <2>1, <1>5, <1>10 DEF n
  <2>3. \A v, d : Asked(v, d)' <=> Asked(v, d) \/ (d = c /\ v = w)
    <3> TAKE v, d
    <3>1. Asked(v, d)' <=> d = c /\ \E i \in 1 .. n : r[i] = v
      BY <2>1, <2>2, <1>3 DEF Asked, Ranks, c, r
    <3>2. Asked(v, d) <=> d = c /\ \E i \in 1 .. Len(got) : r[i] = v
      BY <1>3 DEF Asked, c, r
    <3> QED BY <3>1, <3>2, <2>2, <1>7
  <2>4. \A v \in Workers : Owed(v)' = IF v = w THEN Owed(v) \ {c} ELSE Owed(v)
    BY <2>1, <2>3 DEF Owed, Replies
  <2>5. /\ response' \in [Workers -> Seq(Answer)] /\ \A v \in Workers : Len(response'[v]) <= RingSize
        /\ Answers'
    <3>1. Owed(w)' = Owed(w) \ {Head(answering)} /\ \A v \in Workers : v # w => Owed(v)' = Owed(v)
      BY <2>4, <1>3 DEF c
    <3>2. UNCHANGED <<sent, taken, output, shutdownEvent>>
      BY <2>1
    <3> QED BY <3>1, <3>2, <1>0, <1>1, TakenInTurn
  <2>6. Types'
    BY <2>1, <2>5, <1>10 DEF IInv, Types
  <2>7. Bounds'
    BY <2>1, <2>5 DEF IInv, Bounds, RingSize, MaxOutstanding
  <2>8. Unsettled' = Unsettled
    BY <2>1 DEF Unsettled
  <2>9. Pending' /\ Batches' /\ Results' /\ Failures'
    BY <2>1, <2>8 DEF IInv, Pending, Batches, Results, Failures
  <2>10. Gotten'
    <3>1. n < Len(r)
      BY <1>8, <1>14
    <3>2. \A i \in 1 .. n : got'[i] = c
      BY <2>1, <1>10
    <3> QED BY <2>1, <2>2, <3>1, <3>2, <1>3 DEF Gotten, Ranks, c, r
  <2>11. Served'
    <3> SUFFICES ASSUME ~shutdownEvent, NEW v \in Workers, NEW d \in 1 .. Len(sent), Replies(v, sent[d]),
                        result[d] # NoResult \/ Asked(v, d) \/ (d = c /\ v = w)
                 PROVE  d <= taken[v]
      BY <2>1, <2>3 DEF Served, Replies
    <3>1. CASE d = c /\ v = w
      BY <3>1, <1>11
    <3> QED BY <3>1, <1>12
  <2> QED BY <2>5, <2>6, <2>7, <2>9, <2>10, <2>11 DEF IInv, Dependable
<1> QED BY <1>13, <1>14

\* A wait that is cancelled: the executor is shut down, and the queue it was on
\* has no answers and gets no more.
LEMMA DequeueRaisesPreserves ==
  ASSUME IInv, DequeueRaises
  PROVE  IInv'
<1> DEFINE c == Head(answering)
           w == AskedRank
<1>1. pc = "answer" /\ response[w] = << >> /\ Settle(Error) /\ response' = response
  BY DEF DequeueRaises
<1>2. shutdownEvent
  BY DEF DequeueRaises, GivesUp, IInv, Dependable
<1>3. answering # << >> /\ answering \in Seq(Nat)
  BY <1>1 DEF IInv, Pending, Types
<1>4. c \in Unsettled /\ c \in 1 .. Len(sent) /\ sent[c] \in Kinds
  BY <1>3, OldestCall, Numbers
<1>5. Error \in Seq(Nat) /\ Error # NoResult
  BY DEF Error, NoResult
<1>6. /\ answering' = Tail(answering) /\ UNCHANGED <<sent, futures, taken, output, shutdownEvent>>
      /\ pc' = IF Tail(answering) # << >> THEN "answer" ELSE IF call = "step" THEN "dead" ELSE "idle"
  BY <1>1 DEF Settle, failVars
<1>7. \A v \in Workers : Owed(v)' = Owed(v) \ {c}
  BY <1>1, <1>5, SettledOwed
<1>8. Answers'
  <2>1. CASE sent[c] = "step"
    <3>1. w = OutputRank
      <4>1. Len(got) \in Nat /\ Len(got) < Len(Ranks(sent[c])) /\ Ranks(sent[c]) = <<OutputRank>>
            /\ Len(Ranks(sent[c])) = 1
        BY <2>1, <1>3, <1>4, RankFacts, Numbers DEF IInv, Gotten
      <4>2. Len(got) + 1 = 1
        BY <4>1
      <4> QED BY <4>1, <4>2 DEF AskedRank
    <3>2. ASSUME NEW v \in Workers PROVE InTurn(v)' \/ (shutdownEvent' /\ response'[v] = << >>)
      <4>1. CASE v = w
        BY <4>1, <1>1, <1>2, <1>6
      <4>2. CASE v # w
        <5>1. c \notin Owed(v)
          BY <2>1, <3>1, <4>2 DEF Owed, Replies
        <5>2. Owed(v)' = Owed(v) /\ Queue(v)' = Queue(v)
          BY <5>1, <1>1, <1>6, <1>7 DEF Queue
        <5>3. InTurn(v)' <=> InTurn(v)
          BY <5>2, <1>6 DEF InTurn
        <5>4. InTurn(v) \/ (shutdownEvent /\ response[v] = << >>)
          BY <1>3 DEF IInv, Answers, Over
        <5> QED BY <5>3, <5>4, <1>1, <1>6
      <4> QED BY <4>1, <4>2
    <3> QED BY <3>2 DEF Answers
  <2>2. CASE sent[c] = "utility"
    <3>1. futures = << >> /\ answering[Len(answering)] = c
      BY <2>2, <1>4 DEF IInv, Pending
    <3>2. Len(answering) \in Nat \ {0} /\ answering[1] = c /\ 1 \in 1 .. Len(answering)
          /\ Len(answering) \in 1 .. Len(answering)
      BY <1>3, SeqFacts
    <3>3. Len(answering) = 1
      <4>1. 1 < Len(answering) => answering[1] < answering[Len(answering)]
        BY <3>2 DEF IInv, Pending, Increasing
      <4>2. c \in Nat
        BY <1>4, Numbers
      <4> HIDE DEF c
      <4>3. ~(1 < Len(answering))
        BY <4>1, <4>2, <3>1, <3>2
      <4>4. Len(answering) \in Nat /\ Len(answering) # 0
        BY <3>2
      <4> QED BY <4>3, <4>4
    <3>4. Tail(answering) = << >>
      <4>1. Tail(answering) \in Seq(Nat) /\ Len(Tail(answering)) = 0
        BY <1>3, <3>3, TailFacts
      <4> QED BY <4>1, SeqFacts
    <3> QED BY <3>1, <3>4, <1>2, <1>6 DEF Answers, Over
  <2> QED BY <2>1, <2>2, <1>4 DEF Kinds
<1>9. Served'
  BY <1>2, <1>6 DEF Served
<1>10. response' \in [Workers -> Seq(Answer)] /\ \A v \in Workers : Len(response'[v]) <= RingSize
  BY <1>1 DEF IInv, Types, Bounds
<1> QED BY <1>1, <1>5, <1>8, <1>9, <1>10, SettlePreserves

-----------------------------------------------------------------------------
(* The theorems                                                            *)

\* No call has been made, no queue has an answer.
LEMMA InitIInv == Dependable /\ Init => IInv
<1> SUFFICES ASSUME Dependable, Init PROVE IInv
  OBVIOUS
<1>1. /\ config \in Configs /\ pc = "idle" /\ call = "step" /\ sent = << >>
      /\ taken = [w \in Workers |-> 0]
      /\ output = [w \in Workers |-> << >>] /\ response = [w \in Workers |-> << >>]
      /\ futures = << >> /\ batches = << >> /\ answering = << >> /\ got = << >>
      /\ result = [c \in 1 .. MaxCalls |-> << >>]
      /\ alive = Workers /\ isFailed = FALSE /\ shutdownEvent = FALSE
  BY DEF Init, NoResult
<1>2. << >> \in Seq(Nat) /\ << >> \in Seq(Answer) /\ << >> \in Seq(Kinds) /\ Len(<< >>) = 0
  BY EmptySeq
<1>3. Range(<< >>) = {} /\ Increasing(<< >>) /\ 1 .. Len(<< >>) = {}
  <2>1. Range(<< >>) = {}
    BY <1>2, SeqFacts
  <2>2. 1 .. 0 = {}
    OBVIOUS
  <2> QED BY <2>1, <2>2, <1>2 DEF Increasing
<1>4. Types
  BY <1>1, <1>2 DEF Types, Kinds
<1>5. RingSize \in Nat \ {0} /\ MaxOutstanding \in Nat \ {0} /\ MaxCalls \in Nat
  BY <1>1, ExecutorAssumption DEF RingSize, MaxOutstanding
<1>6. Bounds
  <2>1. \A w \in Workers : taken[w] = 0 /\ response[w] = << >>
    BY <1>1
  <2> QED BY <2>1, <1>1, <1>2, <1>5 DEF Bounds
<1>7. Unsettled = {}
  BY <1>1, <1>3 DEF Unsettled
<1>8. Pending /\ Batches /\ Gotten /\ Failures
  BY <1>1, <1>3, <1>7 DEF Pending, Batches, Gotten, Failures
<1>9. Answers
  <2> SUFFICES ASSUME NEW w \in Workers PROVE InTurn(w)
    BY DEF Answers
  <2>1. Owed(w) = {}
    <3>1. taken[w] = 0 /\ 1 .. 0 = {}
      BY <1>1
    <3> QED BY <3>1 DEF Owed
  <2>2. Queue(w) = << >>
    <3>1. response[w] = << >> /\ output[w] = << >>
      BY <1>1
    <3>2. << >> \o << >> = << >>
      OBVIOUS
    <3> QED BY <3>1, <3>2 DEF Queue
  <2>3. CallsOf(<< >>) = << >>
    <3>1. CallsOf(<< >>) \in Seq(Nat) /\ Len(CallsOf(<< >>)) = 0
      BY <1>2, CallsOfFacts
    <3> QED BY <3>1, SeqFacts
  <2> QED BY <2>1, <2>2, <2>3, <1>3 DEF InTurn
<1>10. Served /\ Results
  BY <1>1, <1>3 DEF Served, Results, NoResult
<1> QED BY <1>4, <1>6, <1>8, <1>9, <1>10 DEF IInv

\* Every step of the engine, the workers and the monitor preserves the invariant.
LEMMA StepPreserves == IInv /\ [Next]_vars => IInv'
<1> SUFFICES ASSUME IInv, [Next]_vars PROVE IInv'
  OBVIOUS
<1>1. ASSUME NEW kind \in Kinds, CollectiveRpc(kind) PROVE IInv'
  BY <1>1, CollectiveRpcPreserves
<1>2. CASE Enqueue
  BY <1>2, EnqueuePreserves
<1>3. CASE FutureResult
  BY <1>3, FutureResultPreserves
<1>4. CASE TakeResponse
  BY <1>4, TakeResponsePreserves
<1>5. CASE DequeueRaises
  BY <1>5, DequeueRaisesPreserves
<1>6. ASSUME NEW w \in Workers, WorkerBusyLoop(w) PROVE IInv'
  BY <1>6, WorkerPreserves
<1>7. ASSUME NEW w \in Workers, EnqueueOutput(w) PROVE IInv'
  BY <1>7, OutputPreserves
<1>8. ASSUME NEW w \in Workers, WorkerDies(w) PROVE IInv'
  BY <1>8, FailurePreserves
<1>9. CASE MonitorWorkers \/ Shutdown \/ ExecutorFailed \/ UNCHANGED vars
  BY <1>9, FailurePreserves
<1> QED BY <1>1, <1>2, <1>3, <1>4, <1>5, <1>6, <1>7, <1>8, <1>9 DEF Next, EngineStep, WorkerStep, Spin

\* Every reachable state satisfies the inductive invariant: the queues hold the
\* answers that are owed, in the order in which the engine asks for them.
THEOREM Invariance == Dependable /\ Spec => []IInv
<1>1. Dependable /\ Init => IInv
  BY InitIInv
<1>2. IInv /\ [Next]_vars => IInv'
  BY StepPreserves
<1> QED BY <1>1, <1>2, PTL DEF Spec

\* What collective_rpc returns was computed for that very call, for any number
\* of workers and calls and any size of the queues, whatever step failed and
\* whenever workers died; the queues keep to their sizes.
THEOREM AnswersBelong == Dependable /\ Spec => []AnswersOwnCall
<1>1. IInv => AnswersOwnCall
  <2> SUFFICES ASSUME IInv PROVE AnswersOwnCall
    OBVIOUS
  <2>1. /\ Len(sent) \in Nat /\ MaxCalls \in Nat
        /\ \A w \in Workers : taken[w] \in Nat /\ taken[w] <= Len(sent)
    BY Numbers
  <2>2. \A w \in Workers : taken[w] \in 0 .. Len(sent)
    BY <2>1
  <2>3. TypeOK
    BY <2>2 DEF IInv, Types, Bounds, TypeOK
  <2>4. DOMAIN result = 1 .. MaxCalls
    BY DEF IInv, Types
  <2>5. \A c \in 1 .. MaxCalls : c \in 1 .. Len(sent) \/ c > Len(sent)
    BY <2>1
  <2> QED BY <2>3, <2>4, <2>5 DEF AnswersOwnCall, IInv, Results
<1> QED BY <1>1, Invariance, PTL
=============================================================================
