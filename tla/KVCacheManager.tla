---------------------------- MODULE KVCacheManager ----------------------------
(***************************************************************************)
(* The KV cache manager of one engine (vllm/v1/core/kv_cache_manager.py,   *)
(* single_type_kv_cache_manager.py) over the block pool: which request     *)
(* holds which blocks, prefix-cache hits, allocation and release.          *)
(*                                                                         *)
(* One full-attention group, no speculative lookahead, no KV connector.    *)
(* The caller is any client that follows the scheduler's protocol: in a    *)
(* step it schedules some requests, each at most once, it may preempt the  *)
(* ones it has not scheduled, then the model runs the step (Execute).      *)
(*                                                                         *)
(* The tokens of a request are known beforehand: Stream[r] is the prompt   *)
(* of r followed by the tokens the model will sample, the last of which    *)
(* stops the request.  numTokens[r] says how many of them exist already.   *)
(* Two requests have the same KV at a position iff their streams agree up  *)
(* to it, so that the KV at a position is written as the prefix of the     *)
(* stream that ends there.  content is the GPU memory: the KV in every     *)
(* slot of every block.                                                    *)
(***************************************************************************)
EXTENDS BlockPool

CONSTANTS Requests,
          Stream,          \* [Requests -> sequences of tokens]
          PromptLen,       \* [Requests -> Nat], how much of it is the prompt
          BlockSize,
          MaxModelLen,
          EnableCaching    \* enable_caching

\* The chained hash of the first i blocks of r: by construction of
\* hash_block_tokens it stands for all the tokens up to the end of block i.
Hash(r, i) == SubSeq(Stream[r], 1, i * BlockSize)

ASSUME ManagerAssumption ==
  /\ BlockSize \in Nat \ {0}
  /\ MaxModelLen \in Nat
  /\ EnableCaching \in BOOLEAN
  /\ IsFiniteSet(Requests)
  /\ PromptLen \in [Requests -> Nat]
  /\ \A r \in Requests :
       /\ DOMAIN Stream[r] = 1 .. Len(Stream[r])
       /\ Len(Stream[r]) \in 1 .. MaxModelLen
       /\ PromptLen[r] \in 1 .. (Len(Stream[r]) - 1)
       /\ \A i \in 1 .. (Len(Stream[r]) \div BlockSize) : Hash(r, i) \in Hashes

VARIABLES pool,            \* the BlockPool
          reqBlocks,       \* req_to_blocks, << >> for a request without entry
          numCachedBlock,  \* num_cached_block, Untracked without entry
          status,          \* "waiting" (also preempted), "running", "finished"
          numTokens,       \* request.num_tokens
          numComputed,     \* request.num_computed_tokens before the step
          numScheduled,    \* num_scheduled_tokens of the step being built
          content          \* the KV in the slots of the blocks

managerVars == <<pool, reqBlocks, numCachedBlock>>
requestVars == <<status, numTokens, numComputed, numScheduled>>
vars        == <<managerVars, requestVars, content>>

Untracked == -1
Empty     == << >>
Slots     == 0 .. (BlockSize - 1)

cdiv(a, b)  == (a + b - 1) \div b
MinOf(a, b) == IF a <= b THEN a ELSE b
MaxOf(a, b) == IF a >= b THEN a ELSE b

-----------------------------------------------------------------------------
(* Prefix-cache lookup                                                     *)

\* FullAttentionManager.find_longest_cache_hit: the longest run of cached
\* hashes from the first block on, among the first maxLength tokens.
LongestHit(p, r, maxLength) ==
  CHOOSE k \in 0 .. (maxLength \div BlockSize) :
    /\ \A i \in 1 .. k : IsCached(p, Hash(r, i))
    /\ k < maxLength \div BlockSize => ~IsCached(p, Hash(r, k + 1))

\* get_computed_blocks: the last token is always recomputed, for its logits.
GetComputedBlocks(r) ==
  IF EnableCaching
    THEN [i \in 1 .. LongestHit(pool, r, numTokens[r] - 1) |->
            GetCachedBlock(pool, Hash(r, i))]
    ELSE << >>

-----------------------------------------------------------------------------
(* allocate_slots                                                          *)

\* cdiv(num_tokens_need_slot, block_size) for n new tokens after the hits.
NumRequiredBlocks(r, n, hits) ==
  LET totalComputed == MinOf(numComputed[r] + Len(hits) * BlockSize, MaxModelLen)
  IN  cdiv(MinOf(totalComputed + n, MaxModelLen), BlockSize)

\* _get_num_evictable_blocks
NumEvictable(hits) ==
  Cardinality({b \in Range(hits) : pool.ref[b] = 0 /\ b # NullBlock})

\* A fault: hits that sit in the free queue are taken to cost nothing.
NumBlocksUnevictable(r, n, hits) ==
  MaxOf(NumRequiredBlocks(r, n, hits) - (Len(hits) + Len(reqBlocks[r])), 0)

\* get_num_blocks_to_allocate: a hit that sits in the free queue uses up free
\* capacity too.
NumBlocksToAllocate(r, n, hits) ==
  LET required == NumRequiredBlocks(r, n, hits)
  IN  IF numCachedBlock[r] # Untracked
        THEN MaxOf(required - Len(reqBlocks[r]), 0)
        ELSE MaxOf(required - (Len(hits) + Len(reqBlocks[r])), 0) + NumEvictable(hits)

\* The check after which allocate_slots returns None or goes on.
CanAllocateSlots(r, n, hits) ==
  NumBlocksToAllocate(r, n, hits) <= GetNumFreeBlocks(pool)

\* allocate_new_computed_blocks: touch the hits before new blocks are taken.
TouchedPool(hits) == IF hits = << >> THEN pool ELSE Touch(pool, hits)

\* allocate_new_blocks: how many blocks are taken from the pool.
NumNewBlocks(r, n, hits) ==
  MaxOf(NumRequiredBlocks(r, n, hits) - Len(reqBlocks[r] \o hits), 0)

\* cache_blocks: the blocks that are full once the step has run, draft tokens
\* excluded.
NumFullBlocks(r, n, hits) ==
  MinOf(MinOf(numComputed[r] + Len(hits) * BlockSize, MaxModelLen) + n, numTokens[r])
    \div BlockSize

\* num_cached_block.get(request_id, 0) after the hits are added.
NumAlreadyCached(r, hits) ==
  IF hits # << >> THEN Len(hits)
  ELSE IF numCachedBlock[r] = Untracked THEN 0 ELSE numCachedBlock[r]

\* cache_full_blocks on blocks number first+1 .. last of r, which are blks.
CacheBlocks(p, r, blks, first, last) ==
  CacheFullBlocks(p, SubSeq(blks, first + 1, last),
                     [i \in 1 .. (last - first) |-> Hash(r, first + i)])

AllocateSlots(r, n, hits) ==
  LET touched == TouchedPool(hits)
      new     == NumNewBlocks(r, n, hits)
      blks    == reqBlocks[r] \o hits \o NewBlocks(touched, new)
      taken   == GetNewBlocks(touched, new)
      first   == NumAlreadyCached(r, hits)
      last    == NumFullBlocks(r, n, hits)
      caching == EnableCaching /\ first < last
  IN  /\ CanAllocateSlots(r, n, hits)
      /\ reqBlocks' = [reqBlocks EXCEPT ![r] = blks]
      /\ pool' = IF caching THEN CacheBlocks(taken, r, blks, first, last) ELSE taken
      /\ numCachedBlock' =
           [numCachedBlock EXCEPT ![r] = IF caching THEN last
                                         ELSE IF hits # << >> THEN Len(hits) ELSE @]

\* A fault: the blocks go back head first.
FreeHeadFirst(r) ==
  /\ pool' = FreeBlocks(pool, reqBlocks[r])
  /\ reqBlocks' = [reqBlocks EXCEPT ![r] = << >>]
  /\ numCachedBlock' = [numCachedBlock EXCEPT ![r] = Untracked]

\* SingleTypeKVCacheManager.free: the blocks go back tail first.
Free(r) ==
  /\ pool' = FreeBlocks(pool, Reversed(reqBlocks[r]))
  /\ reqBlocks' = [reqBlocks EXCEPT ![r] = << >>]
  /\ numCachedBlock' = [numCachedBlock EXCEPT ![r] = Untracked]

-----------------------------------------------------------------------------
(* The client                                                              *)

Init ==
  /\ pool = InitPool
  /\ reqBlocks = [r \in Requests |-> << >>]
  /\ numCachedBlock = [r \in Requests |-> Untracked]
  /\ status = [r \in Requests |-> "waiting"]
  /\ numTokens = PromptLen
  /\ numComputed = [r \in Requests |-> 0]
  /\ numScheduled = [r \in Requests |-> 0]
  /\ content = [b \in Blocks |-> [o \in Slots |-> Empty]]

\* check_stop: r has got its last token.
Stopped(r) == numTokens[r] = Len(Stream[r])

\* update_from_output has freed the requests that stopped, one after another,
\* before the next call of schedule().
Settled == \A r \in Requests : status[r] = "running" => ~Stopped(r)

\* The waiting loop of schedule(): a waiting or preempted request with its
\* cache hits and at least one token to compute.
ScheduleWaiting(r) ==
  LET hits == GetComputedBlocks(r) IN
  /\ Settled
  /\ status[r] = "waiting"
  /\ \E n \in 1 .. (numTokens[r] - Len(hits) * BlockSize) :
       /\ AllocateSlots(r, n, hits)
       /\ numScheduled' = [numScheduled EXCEPT ![r] = n]
  /\ numComputed' = [numComputed EXCEPT ![r] = Len(hits) * BlockSize]
  /\ status' = [status EXCEPT ![r] = "running"]
  /\ UNCHANGED <<numTokens, content>>

\* The running loop of schedule(): the next chunk, or the next decode token.
ScheduleRunning(r) ==
  /\ Settled
  /\ status[r] = "running"
  /\ numScheduled[r] = 0
  /\ \E n \in 1 .. (numTokens[r] - numComputed[r]) :
       /\ AllocateSlots(r, n, << >>)
       /\ numScheduled' = [numScheduled EXCEPT ![r] = n]
  /\ UNCHANGED <<status, numTokens, numComputed, content>>

\* _preempt_request of a request not yet scheduled in this step.
Preempt(r) ==
  /\ Settled
  /\ status[r] = "running"
  /\ numScheduled[r] = 0
  /\ Free(r)
  /\ status' = [status EXCEPT ![r] = "waiting"]
  /\ numComputed' = [numComputed EXCEPT ![r] = 0]
  /\ UNCHANGED <<numTokens, numScheduled, content>>

\* _free_request of a request that has stopped or that is aborted while it has
\* nothing in the step being built.
Finish(r) ==
  /\ status[r] # "finished"
  /\ numScheduled[r] = 0
  /\ Free(r)
  /\ status' = [status EXCEPT ![r] = "finished"]
  /\ UNCHANGED <<numTokens, numComputed, numScheduled, content>>

\* The slot of position pos (from 0) of request r.
SlotOf(r, pos) == <<reqBlocks[r][pos \div BlockSize + 1], pos % BlockSize>>

\* The positions a scheduled request computes in the step.
Positions(r) == numComputed[r] .. (numComputed[r] + numScheduled[r] - 1)

KVAt(r, pos) == SubSeq(Stream[r], 1, pos + 1)

\* The KV that some request of the step writes into slot o of block b.
Writes(b, o) ==
  UNION {{KVAt(r, pos) : pos \in {q \in Positions(r) : SlotOf(r, q) = <<b, o>>}} :
           r \in Requests}

\* The model runs the step: KV is written, the computed counts advance, and a
\* request whose last token was computed gets its next one.
Execute ==
  /\ \E r \in Requests : numScheduled[r] > 0
  /\ content' = [b \in Blocks |-> [o \in Slots |->
                   IF Writes(b, o) = {} THEN content[b][o]
                                        ELSE CHOOSE kv \in Writes(b, o) : TRUE]]
  /\ numComputed' = [r \in Requests |-> numComputed[r] + numScheduled[r]]
  /\ numTokens' = [r \in Requests |->
                     IF /\ numScheduled[r] > 0
                        /\ numComputed[r] + numScheduled[r] = numTokens[r]
                       THEN numTokens[r] + 1
                       ELSE numTokens[r]]
  /\ numScheduled' = [r \in Requests |-> 0]
  /\ UNCHANGED <<managerVars, status>>

\* reset_prefix_cache between two steps.
Reset ==
  /\ Settled
  /\ CanResetPrefixCache(pool)
  /\ pool' = ResetPrefixCache(pool)
  /\ UNCHANGED <<reqBlocks, numCachedBlock, requestVars, content>>

Next ==
  \/ \E r \in Requests : \/ ScheduleWaiting(r)
                         \/ ScheduleRunning(r)
                         \/ Preempt(r)
                         \/ Finish(r)
  \/ Execute
  \/ Reset

Spec == Init /\ [][Next]_vars

-----------------------------------------------------------------------------
(* Properties                                                              *)

\* Type invariant.  The counts of a request are related too: what is computed
\* and scheduled never exceeds the tokens there are.
TypeOK ==
  /\ pool \in PoolType
  /\ reqBlocks \in [Requests -> Seq(Blocks)]
  /\ numCachedBlock \in [Requests -> Nat \cup {Untracked}]
  /\ status \in [Requests -> {"waiting", "running", "finished"}]
  /\ numTokens \in [Requests -> Nat]
  /\ numComputed \in [Requests -> Nat]
  /\ numScheduled \in [Requests -> Nat]
  /\ \A r \in Requests : /\ numTokens[r] \in PromptLen[r] .. Len(Stream[r])
                         /\ numComputed[r] + numScheduled[r] <= numTokens[r]

\* The free queue holds exactly the blocks nobody references, each once, and
\* never the null block: a block can be neither leaked nor handed out twice.
FreeQueueExact == FreeExact(pool)

\* ref_cnt is the number of requests whose block list contains the block; this
\* is what lets free() of one sharer leave the block to the others.
Owners(b) == {r \in Requests : b \in Range(reqBlocks[r])}
RefCountsOwners ==
  /\ \A b \in Blocks : pool.ref[b] = Cardinality(Owners(b))
  /\ \A r \in Requests : IsInjective(reqBlocks[r])

\* The hash on a block and its entry in cached_block_hash_to_block never part:
\* a stale entry would be a hit on foreign content, a stale hash the failing
\* `assert blk.block_hash is None` of a later cache_full_blocks.
CacheMapExact == MapExact(pool)

\* What makes prefix caching correct: whatever was shared, evicted, preempted
\* and reallocated before, every computed position of a running request has
\* the KV of that request's own tokens in its slot.
KVContentsCorrect ==
  \A r \in Requests : status[r] = "running" =>
    \A pos \in 0 .. (numComputed[r] - 1) :
      LET s == SlotOf(r, pos) IN
      \/ content[s[1]][s[2]] = KVAt(r, pos)
      \* a hit on a block that another request computes in the same step
      \/ /\ numScheduled[r] > 0
         /\ KVAt(r, pos) \in Writes(s[1], s[2])

\* No two requests of a step write different KV to the same slot.
NoConflictingWrites ==
  \A b \in Blocks, o \in Slots : Cardinality(Writes(b, o)) <= 1

\* The comment in find_longest_cache_hit, "If a block hash is not in the
\* cached_block_hash_to_id, the following block hashes are not computed yet for
\* sure": tails are freed and so evicted before their heads, whatever blocks
\* are shared, so a cached block is never stranded behind a missing parent.
NoStrandedBlock ==
  \A r \in Requests : \A i \in 2 .. (Len(Stream[r]) \div BlockSize) :
    IsCached(pool, Hash(r, i)) => IsCached(pool, Hash(r, i - 1))

\* The capacity check of allocate_slots suffices: once it passes, get_new_blocks
\* does not raise after the hits have been touched, and the assertions of
\* get_new_blocks and cache_full_blocks hold.
AllocationNeverRaises ==
  \A r \in Requests :
    LET hits == IF status[r] = "waiting" THEN GetComputedBlocks(r) ELSE << >>
        done == numComputed[r] + Len(hits) * BlockSize
    IN  status[r] # "finished" /\ numScheduled[r] = 0 =>
        \A n \in 1 .. (numTokens[r] - done) :
          CanAllocateSlots(r, n, hits) =>
            LET touched == TouchedPool(hits)
                new     == NumNewBlocks(r, n, hits)
                taken   == GetNewBlocks(touched, new)
                blks    == reqBlocks[r] \o hits \o NewBlocks(touched, new)
            IN  /\ CanGetNewBlocks(touched, new)
                /\ \A b \in Range(NewBlocks(touched, new)) : touched.ref[b] = 0
                /\ NumFullBlocks(r, n, hits) <= Len(blks)
                /\ \A i \in (NumAlreadyCached(r, hits) + 1) .. NumFullBlocks(r, n, hits) :
                     taken.hash[blks[i]] = NoHash

\* A block that some request holds is never evicted from the prefix cache nor
\* taken away by another request's allocation: its hash and its holders' lists
\* survive every step but their own free().
InUseNotEvicted ==
  [][\A b \in Blocks : pool.ref[b] > 0 =>
       /\ pool.hash[b] \in Hashes => pool'.hash[b] = pool.hash[b]
       /\ \A r \in Owners(b) : reqBlocks'[r] # << >> => b \in Range(reqBlocks'[r])]_vars
=============================================================================
