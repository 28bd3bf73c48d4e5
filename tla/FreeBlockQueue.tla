---------------------------- MODULE FreeBlockQueue ----------------------------
(***************************************************************************)
(* FreeKVCacheBlockQueue (vllm/v1/core/kv_cache_utils.py): the queue of    *)
(* free blocks as a doubly linked list through the blocks themselves, so   *)
(* that a block can leave from the middle without a scan, with a fake head *)
(* and a fake tail and the number of blocks in a counter of its own.       *)
(*                                                                         *)
(* The methods are called by BlockPool, which removes blocks that it knows *)
(* to be free and appends blocks that it has taken; taken is that          *)
(* knowledge (ref_cnt > 0, or the null block).                             *)
(***************************************************************************)
EXTENDS Integers, Sequences, FiniteSets, Functions

CONSTANT NumBlocks
ASSUME NumBlocksAssumption == NumBlocks \in Nat

VARIABLES nextFree,  \* next_free_block of every node
          prevFree,  \* prev_free_block of every node
          numFree,   \* num_free_blocks
          taken,     \* the blocks the pool has
          call       \* the last call: what it returned or was given, in order

vars == <<nextFree, prevFree, numFree, taken, call>>

Block == 0 .. (NumBlocks - 1)
FakeHead == NumBlocks            \* fake_free_list_head
FakeTail == NumBlocks + 1        \* fake_free_list_tail
Node == Block \cup {FakeHead, FakeTail}
None == -1

\* The node reached from the head over k + 1 links, None once a link is missing.
Walk[k \in 0 .. NumBlocks] ==
  IF k = 0 THEN nextFree[FakeHead]
  ELSE IF Walk[k - 1] = None THEN None ELSE nextFree[Walk[k - 1]]

\* get_all_free_blocks: the nodes from the head to the one without successor.
Reaches(k) == Walk[k] = FakeTail /\ \A j \in 0 .. (k - 1) : Walk[j] # FakeTail
FreeList ==
  IF \E k \in 0 .. NumBlocks : Reaches(k)
    THEN LET len == CHOOSE k \in 0 .. NumBlocks : Reaches(k)
         IN  [i \in 1 .. len |-> Walk[i - 1]]
    ELSE <<None>>

-----------------------------------------------------------------------------
Call(op, bs) == [op |-> op, blocks |-> bs]

\* __init__ on all blocks of the pool, in the order of their ids.
Init ==
  /\ nextFree = [x \in Node |-> CASE x = FakeHead -> IF NumBlocks > 0 THEN 0 ELSE FakeTail
                                  [] x = FakeTail -> None
                                  [] OTHER    -> IF x = NumBlocks - 1 THEN FakeTail ELSE x + 1]
  /\ prevFree = [x \in Node |-> CASE x = FakeHead -> None
                                  [] x = FakeTail -> IF NumBlocks > 0 THEN NumBlocks - 1 ELSE FakeHead
                                  [] OTHER    -> IF x = 0 THEN FakeHead ELSE x - 1]
  /\ numFree = NumBlocks
  /\ taken = {}
  /\ call = Call("init", [i \in 1 .. NumBlocks |-> i - 1])

\* popleft, which raises ValueError on an empty list.
PopLeft ==
  LET first == nextFree[FakeHead] IN
  /\ first \notin {FakeTail, None}
  /\ nextFree[first] # None
  /\ nextFree' = [nextFree EXCEPT ![FakeHead] = nextFree[first], ![first] = None]
  /\ prevFree' = [prevFree EXCEPT ![nextFree[first]] = FakeHead, ![first] = None]
  /\ numFree' = numFree - 1
  /\ taken' = taken \cup {first}
  /\ call' = Call("take", <<first>>)

\* A fault: the node behind the popped ones keeps its old predecessor.
PopLeftNHalfLinked(n) ==
  LET popped == {Walk[k] : k \in 0 .. (n - 1)}
      curr   == Walk[n]
  IN  /\ n > 0
      /\ numFree >= n
      /\ None \notin popped
      /\ nextFree' = [x \in Node |-> IF x \in popped THEN None
                                     ELSE IF x = FakeHead /\ curr # None THEN curr
                                     ELSE nextFree[x]]
      /\ prevFree' = [x \in Node |-> IF x \in popped THEN None ELSE prevFree[x]]
      /\ numFree' = numFree - n
      /\ taken' = taken \cup popped
      /\ call' = Call("take", [i \in 1 .. n |-> Walk[i - 1]])

\* popleft_n for n > 0: the first n nodes are unlinked one after another, then
\* the head is linked to the node after them.
PopLeftN(n) ==
  LET popped == {Walk[k] : k \in 0 .. (n - 1)}
      curr   == Walk[n]
  IN  /\ n > 0
      /\ numFree >= n
      /\ None \notin popped
      /\ nextFree' = [x \in Node |-> IF x \in popped THEN None
                                     ELSE IF x = FakeHead /\ curr # None THEN curr
                                     ELSE nextFree[x]]
      /\ prevFree' = [x \in Node |-> IF x = curr THEN FakeHead
                                     ELSE IF x \in popped THEN None
                                     ELSE prevFree[x]]
      /\ numFree' = numFree - n
      /\ taken' = taken \cup popped
      /\ call' = Call("take", [i \in 1 .. n |-> Walk[i - 1]])

\* remove, which raises RuntimeError unless both links are set.
Remove(b) ==
  /\ b \notin taken
  /\ prevFree[b] # None /\ nextFree[b] # None
  /\ nextFree' = [nextFree EXCEPT ![prevFree[b]] = nextFree[b], ![b] = None]
  /\ prevFree' = [prevFree EXCEPT ![nextFree[b]] = prevFree[b], ![b] = None]
  /\ numFree' = numFree - 1
  /\ taken' = taken \cup {b}
  /\ call' = Call("remove", <<b>>)

\* append
AppendBlock(b) ==
  LET last == prevFree[FakeTail] IN
  /\ b \in taken
  /\ last # None
  /\ nextFree' = [nextFree EXCEPT ![last] = b, ![b] = FakeTail]
  /\ prevFree' = [prevFree EXCEPT ![b] = last, ![FakeTail] = b]
  /\ numFree' = numFree + 1
  /\ taken' = taken \ {b}
  /\ call' = Call("put", <<b>>)

\* append_n for a non-empty list bs, linked behind the last block in its order.
Position(bs, x) == CHOOSE i \in DOMAIN bs : bs[i] = x

\* A fault: the blocks are pushed in front of each other, last one first.
AppendNReversed(bs) ==
  LET last == prevFree[FakeTail] IN
  /\ bs # << >>
  /\ Range(bs) \subseteq taken
  /\ last # None
  /\ nextFree' = [x \in Node |->
       IF x \in Range(bs)
         THEN IF Position(bs, x) = 1 THEN FakeTail ELSE bs[Position(bs, x) - 1]
         ELSE IF x = last THEN bs[Len(bs)] ELSE nextFree[x]]
  /\ prevFree' = [x \in Node |->
       IF x \in Range(bs)
         THEN IF Position(bs, x) = Len(bs) THEN last ELSE bs[Position(bs, x) + 1]
         ELSE IF x = FakeTail THEN bs[1] ELSE prevFree[x]]
  /\ numFree' = numFree + Len(bs)
  /\ taken' = taken \ Range(bs)
  /\ call' = Call("put", bs)

AppendN(bs) ==
  LET last == prevFree[FakeTail] IN
  /\ bs # << >>
  /\ Range(bs) \subseteq taken
  /\ last # None
  /\ nextFree' = [x \in Node |->
       IF x \in Range(bs)
         THEN IF Position(bs, x) = Len(bs) THEN FakeTail ELSE bs[Position(bs, x) + 1]
         ELSE IF x = last THEN bs[1] ELSE nextFree[x]]
  /\ prevFree' = [x \in Node |->
       IF x \in Range(bs)
         THEN IF Position(bs, x) = 1 THEN last ELSE bs[Position(bs, x) - 1]
         ELSE IF x = FakeTail THEN bs[Len(bs)] ELSE prevFree[x]]
  /\ numFree' = numFree + Len(bs)
  /\ taken' = taken \ Range(bs)
  /\ call' = Call("put", bs)

Injections(S) == {s \in UNION {[1 .. n -> S] : n \in 0 .. Cardinality(S)} : IsInjective(s)}

Next == \/ PopLeft
        \/ \E n \in 1 .. NumBlocks : PopLeftN(n)
        \/ \E b \in Block : Remove(b)
        \/ \E b \in Block : AppendBlock(b)
        \/ \E bs \in Injections(taken) : AppendN(bs)

Spec == Init /\ [][Next]_vars

-----------------------------------------------------------------------------
\* Type invariant; num_free_blocks stays between 0 and the size of the pool.
TypeOK ==
  /\ nextFree \in [Node -> Node \cup {None}]
  /\ prevFree \in [Node -> Node \cup {None}]
  /\ numFree \in 0 .. NumBlocks
  /\ taken \subseteq Block

\* The list is linked both ways without a gap from head to tail, its length is
\* num_free_blocks, and the blocks outside it have both links cleared, so that
\* remove() and popleft() raise on them instead of corrupting the list.
Linked ==
  /\ TypeOK
  /\ Range(FreeList) = Block \ taken
  /\ numFree = Len(FreeList)
  /\ \A x \in Node \ taken : nextFree[x] # None => prevFree[nextFree[x]] = x
  /\ \A b \in taken : nextFree[b] = None /\ prevFree[b] = None

\* The linked list is a queue: whatever mixture of methods the pool calls,
\* popleft and popleft_n return the blocks at the front in their order, a removed
\* block leaves all others in place, and appended blocks come last in the order
\* given.
Abstract == INSTANCE FreeQueue WITH queue <- FreeList, call <- call
QueueRefined == Abstract!QSpec
=============================================================================
