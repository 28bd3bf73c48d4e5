------------------------------ MODULE FreeQueue ------------------------------
(***************************************************************************)
(* What FreeKVCacheBlockQueue promises the block pool: a queue of blocks   *)
(* without duplicates, from which the pool takes blocks at the front or,   *)
(* when a prefix-cache hit touches a free block, anywhere, and to which it *)
(* returns at the back blocks that it has taken.                           *)
(***************************************************************************)
EXTENDS Integers, Sequences, FiniteSets, Functions

CONSTANT NumBlocks   \* the blocks are 0 .. NumBlocks - 1

VARIABLES queue,
          call      \* the last call: what it took or put back, in order

Block == 0 .. (NumBlocks - 1)

\* The sequences without duplicates over S: what a call can return at once.
Injections(S) == {s \in UNION {[1 .. n -> S] : n \in 0 .. Cardinality(S)} : IsInjective(s)}

Call(op, bs) == [op |-> op, blocks |-> bs]

QInit == /\ queue = [i \in 1 .. NumBlocks |-> i - 1]
         /\ call = Call("init", queue)

TakeFront(n) == /\ n <= Len(queue)
                /\ queue' = SubSeq(queue, n + 1, Len(queue))
                /\ call' = Call("take", SubSeq(queue, 1, n))

Remove(b) == \E i \in 1 .. Len(queue) :
               /\ queue[i] = b
               /\ queue' = SubSeq(queue, 1, i - 1) \o SubSeq(queue, i + 1, Len(queue))
               /\ call' = Call("remove", <<b>>)

PutBack(s) == /\ queue' = queue \o s
              /\ call' = Call("put", s)

QNext == \/ \E n \in 1 .. Len(queue) : TakeFront(n)
         \/ \E b \in Range(queue) : Remove(b)
         \/ \E s \in Injections(Block \ Range(queue)) : PutBack(s)

QSpec == QInit /\ [][QNext]_<<queue, call>>
=============================================================================
