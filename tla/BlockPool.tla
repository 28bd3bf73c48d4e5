------------------------------ MODULE BlockPool ------------------------------
(***************************************************************************)
(* The pool of physical KV-cache blocks of one engine: vllm/v1/core/       *)
(* block_pool.py, with the free queue of kv_cache_utils.py seen as the     *)
(* sequence it implements (module FreeBlockQueue has its linked list).     *)
(*                                                                         *)
(* The pool is a value p, a record                                         *)
(*    p.ref     the ref_cnt of every block                                 *)
(*    p.hash    the block_hash of every block, NoHash for None             *)
(*    p.cached  BlockHashToBlockMap: the blocks registered under a hash,   *)
(*              in the insertion order of the inner dict                   *)
(*    p.free    free_block_queue, the next block to hand out first         *)
(* and every method of BlockPool is an operator from a pool to a pool, so  *)
(* that a handler that calls several of them is a single action.  Metrics  *)
(* and KV events are left out.                                             *)
(***************************************************************************)
EXTENDS Integers, Sequences, FiniteSets, Functions

CONSTANTS NumGpuBlocks,   \* size of the pool, the null block included
          Hashes,         \* the block hashes that can occur
          NoHash          \* block_hash = None

ASSUME PoolAssumption == /\ NumGpuBlocks \in Nat \ {0}
                         /\ NoHash \notin Hashes

Blocks == 0 .. (NumGpuBlocks - 1)

\* The placeholder block popped from the queue by __init__.
NullBlock == 0

PoolType == [ref    : [Blocks -> Nat],
             hash   : [Blocks -> Hashes \cup {NoHash}],
             cached : [Hashes -> Seq(Blocks)],
             free   : Seq(Blocks)]

-----------------------------------------------------------------------------
(* Sequences of blocks                                                     *)

\* The subsequence of the elements of s that are in S, in their order: the
\* i-th element is kept at the position given by its rank among the kept ones.
Rank(I, i) == Cardinality({j \in I : j <= i})

Keep(s, S) ==
  LET I == {i \in DOMAIN s : s[i] \in S}
  IN  [k \in 1 .. Cardinality(I) |-> s[CHOOSE i \in I : Rank(I, i) = k]]

Reversed(s) == [i \in 1 .. Len(s) |-> s[Len(s) + 1 - i]]

-----------------------------------------------------------------------------
(* The methods of BlockPool                                                *)

\* __init__: all blocks free in the order of their ids, except the null block,
\* which has been popped without being counted as referenced.
InitPool == [ref    |-> [b \in Blocks |-> 0],
             hash   |-> [b \in Blocks |-> NoHash],
             cached |-> [h \in Hashes |-> << >>],
             free   |-> [i \in 1 .. (NumGpuBlocks - 1) |-> i]]

GetNumFreeBlocks(p) == Len(p.free)

\* get_cached_block / get_one_block: is there a block for h, and the first one.
IsCached(p, h)       == p.cached[h] # << >>
GetCachedBlock(p, h) == p.cached[h][1]

\* cache_full_blocks: bs are the newly full blocks of a request and hs their
\* hashes, one for one.  Duplicates of a hash are all kept, in order.
CacheFullBlocks(p, bs, hs) ==
  [ref    |-> p.ref,
   hash   |-> [b \in Blocks |-> IF b \in Range(bs)
                                  THEN hs[CHOOSE i \in DOMAIN bs : bs[i] = b]
                                  ELSE p.hash[b]],
   cached |-> [h \in Hashes |-> IF h \in Range(hs)
                                  THEN Append(p.cached[h],
                                              bs[CHOOSE i \in DOMAIN hs : hs[i] = h])
                                  ELSE p.cached[h]],
   free   |-> p.free]

\* A fault: pop() drops the whole entry of the hash, duplicates included.
EvictWholeEntry(p, S) ==
  LET gone == {b \in S : p.hash[b] \in Hashes /\ b \in Range(p.cached[p.hash[b]])}
  IN  [ref    |-> p.ref,
       hash   |-> [b \in Blocks |-> IF b \in gone THEN NoHash ELSE p.hash[b]],
       cached |-> [h \in Hashes |-> IF \E b \in gone : p.hash[b] = h THEN << >>
                                    ELSE p.cached[h]],
       free   |-> p.free]

\* _maybe_evict_cached_block on every block of S: a block whose hash is found in
\* the map under its own id loses both its hash and its entry.
EvictCachedBlocks(p, S) ==
  LET gone == {b \in S : p.hash[b] \in Hashes /\ b \in Range(p.cached[p.hash[b]])}
  IN  [ref    |-> p.ref,
       hash   |-> [b \in Blocks |-> IF b \in gone THEN NoHash ELSE p.hash[b]],
       cached |-> [h \in Hashes |->
                     Keep(p.cached[h], {b \in Blocks : ~(b \in gone /\ p.hash[b] = h)})],
       free   |-> p.free]

\* get_new_blocks, which raises ValueError unless n blocks are free: the first
\* n of the queue, evicted from the cache and referenced once.
CanGetNewBlocks(p, n) == n <= GetNumFreeBlocks(p)
NewBlocks(p, n)       == SubSeq(p.free, 1, n)
\* A fault: the blocks handed out stay in the prefix cache.
GetNewBlocksUnevicted(p, n) ==
  LET new == Range(NewBlocks(p, n))
  IN  [ref    |-> [b \in Blocks |-> IF b \in new THEN p.ref[b] + 1 ELSE p.ref[b]],
       hash   |-> p.hash,
       cached |-> p.cached,
       free   |-> SubSeq(p.free, n + 1, Len(p.free))]
GetNewBlocks(p, n) ==
  LET new     == Range(NewBlocks(p, n))
      evicted == EvictCachedBlocks(p, new)
  IN  [ref    |-> [b \in Blocks |-> IF b \in new THEN p.ref[b] + 1 ELSE p.ref[b]],
       hash   |-> evicted.hash,
       cached |-> evicted.cached,
       free   |-> SubSeq(p.free, n + 1, Len(p.free))]

\* Faults: touch forgets to take the block out of the free queue, or counts a
\* reference only for the blocks it takes out.
TouchStillFree(p, bs) ==
  [ref    |-> [b \in Blocks |-> IF b \in Range(bs) THEN p.ref[b] + 1 ELSE p.ref[b]],
   hash   |-> p.hash,
   cached |-> p.cached,
   free   |-> p.free]
TouchUncounted(p, bs) ==
  LET unfree == {b \in Range(bs) : p.ref[b] = 0 /\ b # NullBlock}
  IN  [ref    |-> [b \in Blocks |-> IF b \in unfree THEN p.ref[b] + 1 ELSE p.ref[b]],
       hash   |-> p.hash,
       cached |-> p.cached,
       free   |-> Keep(p.free, Blocks \ unfree)]

\* touch: one more reference to every block of bs; those that were eviction
\* candidates leave the free queue.
Touch(p, bs) ==
  LET unfree == {b \in Range(bs) : p.ref[b] = 0 /\ b # NullBlock}
  IN  [ref    |-> [b \in Blocks |-> IF b \in Range(bs) THEN p.ref[b] + 1 ELSE p.ref[b]],
       hash   |-> p.hash,
       cached |-> p.cached,
       free   |-> Keep(p.free, Blocks \ unfree)]

\* A fault: a block goes back to the queue while others still hold it.
FreeBlocksInUse(p, bs) ==
  [ref    |-> [b \in Blocks |-> IF b \in Range(bs) THEN p.ref[b] - 1 ELSE p.ref[b]],
   hash   |-> p.hash,
   cached |-> p.cached,
   free   |-> p.free \o Keep(bs, Blocks \ {NullBlock})]

\* free_blocks: one reference less; the blocks that lost their last one are put
\* at the end of the queue in the order given, keeping hash and cache entry.
FreeBlocks(p, bs) ==
  LET ref == [b \in Blocks |-> IF b \in Range(bs) THEN p.ref[b] - 1 ELSE p.ref[b]]
  IN  [ref    |-> ref,
       hash   |-> p.hash,
       cached |-> p.cached,
       free   |-> p.free \o Keep(bs, {b \in Blocks : ref[b] = 0 /\ b # NullBlock})]

\* reset_prefix_cache: refused while any block but the null block is in use.
CanResetPrefixCache(p) == NumGpuBlocks - GetNumFreeBlocks(p) = 1
ResetPrefixCache(p) ==
  [ref    |-> p.ref,
   hash   |-> [b \in Blocks |-> NoHash],
   cached |-> [h \in Hashes |-> << >>],
   free   |-> p.free]

-----------------------------------------------------------------------------
(* What the pool promises its user                                         *)

\* The free queue holds exactly the blocks nobody references, each once, and
\* never the null block.
FreeExact(p) ==
  /\ IsInjective(p.free)
  /\ Range(p.free) = {b \in Blocks : b # NullBlock /\ p.ref[b] = 0}

\* The hash on a block and its entry in cached_block_hash_to_block never part.
MapExact(p) ==
  \A h \in Hashes : /\ IsInjective(p.cached[h])
                    /\ Range(p.cached[h]) = {b \in Blocks : p.hash[b] = h}
=============================================================================
