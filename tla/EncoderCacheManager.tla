------------------------- MODULE EncoderCacheManager -------------------------
(***************************************************************************)
(* The cache of encoder outputs (image embeddings): EncoderCacheManager of *)
(* v1/core/encoder_cache_manager.py, with the part of schedule() that is   *)
(* its only client and the tensors that the model runner keeps.            *)
(*                                                                         *)
(* The manager counts and decides; the runner is told with every step what *)
(* to compute and what to drop, and asserts that it has the output of each *)
(* item whose placeholder tokens a step computes.  Outputs are shared by   *)
(* hash, kept after their last use and evicted oldest first.               *)
(*                                                                         *)
(* KV blocks are counted as tokens, and a prefix cache hit may have any    *)
(* length of PrefixHits.  Left out: the PRIORITY policy, masks inside a    *)
(* placeholder (is_embed), speculative decoding, encoder-decoder models,   *)
(* external encoder caches.                                                *)
(***************************************************************************)
EXTENDS Integers, Sequences, FiniteSets, SequencesExt, FiniteSetsExt

CONSTANTS Requests, Hashes,
          NumEmbeds,     \* [Hashes -> embeddings, the length of the placeholder]
          Features,      \* [Requests -> mm_features: hash and offset, in order]
          PromptLen, MaxTokens,
          MaxScheduledTokens, EncoderComputeBudget, CacheSize,
          KVTokens,      \* tokens the KV cache can hold
          PrefixHits,    \* lengths of a prefix cache hit
          MaxResets,
          DisableChunked \* values of disable_chunked_mm_input

\* What compute_mm_encoder_budget and the check of max_model_len make sure of.
ASSUME EncoderAssumption ==
  /\ \A h \in Hashes : /\ NumEmbeds[h] \in 1 .. EncoderComputeBudget
                       /\ NumEmbeds[h] <= CacheSize
                       /\ TRUE \in DisableChunked => NumEmbeds[h] <= MaxScheduledTokens
  /\ \A r \in Requests : PromptLen[r] + MaxTokens[r] <= KVTokens
  /\ DisableChunked \subseteq BOOLEAN /\ 0 \in PrefixHits

VARIABLES disableChunked,     \* the setting, fixed
          cache,              \* the manager
          waiting, running, status, numComputed, numOutput,
          held,               \* tokens of a request in the KV cache
          phase, reqIndex, tokenBudget, encoderBudget,
          scheduled,          \* num_scheduled_tokens
          inputs,             \* hashes of scheduled_encoder_inputs
          preempting,         \* preempted_reqs is not empty
          encoderCache,       \* the runner's outputs, by hash
          resets

requestVars == <<status, numComputed, numOutput, held>>
queueVars   == <<waiting, running>>
stepVars    == <<reqIndex, tokenBudget, encoderBudget, scheduled, inputs, preempting>>
vars == <<disableChunked, cache, queueVars, requestVars, phase, stepVars, encoderCache,
          resets>>

numTokens(r)  == PromptLen[r] + numOutput[r]
Without(q, S) == SelectSeq(q, LAMBDA x : x \notin S)
Smallest(a, b) == IF a <= b THEN a ELSE b
Embeds(S)     == MapThenSumSet(LAMBDA h : NumEmbeds[h], S)
End(f)        == f.offset + NumEmbeds[f.hash]

-----------------------------------------------------------------------------
(* EncoderCacheManager                                                     *)

NewCache ==
  [cached |-> {}, refs |-> [h \in Hashes |-> {}], freeable |-> << >>, freed |-> {},
   numFreeSlots |-> CacheSize, numFreeableSlots |-> CacheSize]

\* check_and_update_cache of a hash that is cached
Reference(c, r, h) ==
  LET unused == c.refs[h] = {} IN
  [c EXCEPT !.refs[h] = @ \cup {r},
            !.freeable = IF unused THEN Without(@, {h}) ELSE @,
            !.numFreeableSlots = IF unused THEN @ - NumEmbeds[h] ELSE @]

\* can_allocate: its answer
CanAllocate(c, h, budget, toSchedule) ==
  /\ NumEmbeds[h] <= budget
  /\ NumEmbeds[h] + toSchedule <= c.numFreeSlots
       \/ NumEmbeds[h] + toSchedule <= c.numFreeableSlots

\* can_allocate: the oldest entries are evicted until the need is met
Evict(c, need) ==
  LET Oldest(k) == ToSet(SubSeq(c.freeable, 1, k))
      n    == Len(c.freeable)
      k    == Min({i \in 0 .. n : c.numFreeSlots + Embeds(Oldest(i)) >= need} \cup {n})
  IN  [c EXCEPT !.cached = @ \ Oldest(k),
                !.freeable = SubSeq(@, k + 1, n),
                !.freed = @ \cup Oldest(k),
                !.numFreeSlots = @ + Embeds(Oldest(k))]

\* allocate
Allocate(c, r, h) ==
  [c EXCEPT !.cached = @ \cup {h}, !.refs[h] = @ \cup {r},
            !.numFreeSlots = @ - NumEmbeds[h], !.numFreeableSlots = @ - NumEmbeds[h]]

\* A fault: an entry that nobody uses is freed again.
FreeEncoderInputAgain(c, r, h) ==
  LET left == c.refs[h] \ {r} IN
  IF h \notin c.cached \/ left # {} THEN [c EXCEPT !.refs[h] = left]
  ELSE [c EXCEPT !.refs[h] = {},
                 !.freeable = Append(Without(@, {h}), h),
                 !.numFreeableSlots = @ + NumEmbeds[h]]

\* free_encoder_input
FreeEncoderInput(c, r, h) ==
  LET left == c.refs[h] \ {r} IN
  IF c.refs[h] = {} \/ left # {} THEN [c EXCEPT !.refs[h] = left]
  ELSE [c EXCEPT !.refs[h] = {},
                 !.freeable = Append(@, h),
                 !.numFreeableSlots = @ + NumEmbeds[h]]

FreeInputs(c, r, fs) == FoldLeft(LAMBDA acc, f : FreeEncoderInput(acc, r, f.hash), c, fs)

\* free
Free(c, r) == FreeInputs(c, r, Features[r])

-----------------------------------------------------------------------------
(* _try_schedule_encoder_inputs                                            *)

\* The range would cover a part of an item that it does not begin with.
Splits(f, computed, new) ==
  disableChunked /\ computed < f.offset /\ computed + new < End(f)

\* One item, in the order of the prompt.  try.new is num_new_tokens, which an
\* item that cannot be had cuts short; no item after it is looked at.
VisitItem(r, computed, try, f) ==
  LET h == f.hash IN
  IF try.over \/ f.offset >= computed + try.new THEN [try EXCEPT !.over = TRUE]
  ELSE IF End(f) <= computed \/ h \in try.hashes THEN try
  ELSE IF h \in try.cache.cached
    THEN [try EXCEPT !.cache = Reference(@, r, h)]
  ELSE IF Splits(f, computed, try.new)
    THEN [try EXCEPT !.over = TRUE, !.new = f.offset - computed]
  ELSE IF CanAllocate(try.cache, h, try.budget, Embeds(try.hashes))
    THEN [try EXCEPT !.cache = Evict(@, NumEmbeds[h] + Embeds(try.hashes)),
                     !.hashes = @ \cup {h}, !.budget = @ - NumEmbeds[h]]
  ELSE [try EXCEPT !.over = TRUE, !.new = IF computed < f.offset THEN f.offset - computed ELSE 0]

TrySchedule(r, computed, new) ==
  FoldLeft(LAMBDA try, f : VisitItem(r, computed, try, f),
           [cache |-> cache, new |-> new, budget |-> encoderBudget, hashes |-> {},
            over |-> FALSE],
           Features[r])

AllocateAll(c, r, hashes) ==
  FoldLeft(LAMBDA acc, h : Allocate(acc, r, h), c, SetToSeq(hashes))

-----------------------------------------------------------------------------
\* Between two steps: the local variables of schedule().
NoStep(sched, ins, index, budget, encBudget, preempted) ==
  /\ sched = [r \in Requests |-> 0] /\ ins = {} /\ index = 1
  /\ budget = 0 /\ encBudget = 0 /\ preempted = FALSE

Init ==
  /\ disableChunked \in DisableChunked
  /\ cache = NewCache
  /\ waiting = << >> /\ running = << >>
  /\ status = [r \in Requests |-> "new"]
  /\ numComputed = [r \in Requests |-> 0] /\ numOutput = [r \in Requests |-> 0]
  /\ held = [r \in Requests |-> 0]
  /\ phase = "idle"
  /\ NoStep(scheduled, inputs, reqIndex, tokenBudget, encoderBudget, preempting)
  /\ encoderCache = {} /\ resets = 0

AddRequest(r) ==
  /\ phase = "idle" /\ status[r] = "new"
  /\ status' = [status EXCEPT ![r] = "waiting"]
  /\ waiting' = Append(waiting, r)
  /\ UNCHANGED <<disableChunked, cache, running, numComputed, numOutput, held, phase,
                 stepVars, encoderCache, resets>>

\* finish_requests, between two steps or before an output is looked at
Abort(r) ==
  /\ phase \in {"idle", "update"} /\ status[r] \in {"waiting", "running"}
  /\ status' = [status EXCEPT ![r] = "finished"]
  /\ held' = [held EXCEPT ![r] = 0]
  /\ waiting' = Without(waiting, {r}) /\ running' = Without(running, {r})
  /\ cache' = Free(cache, r)
  /\ UNCHANGED <<disableChunked, numComputed, numOutput, phase, stepVars, encoderCache,
                 resets>>

\* reset_encoder_cache of the engine: manager and runner
ResetEncoderCache ==
  /\ phase = "idle" /\ resets < MaxResets
  /\ resets' = resets + 1
  /\ cache' = NewCache /\ encoderCache' = {}
  /\ UNCHANGED <<disableChunked, queueVars, requestVars, phase, stepVars>>

-----------------------------------------------------------------------------
(* schedule()                                                              *)

StartSchedule ==
  /\ phase = "idle" /\ waiting \o running # << >>
  /\ phase' = "running"
  /\ reqIndex' = 1 /\ tokenBudget' = MaxScheduledTokens
  /\ encoderBudget' = EncoderComputeBudget
  /\ UNCHANGED <<disableChunked, cache, queueVars, requestVars, scheduled, inputs,
                 preempting, encoderCache, resets>>

\* The request is part of the step, with what _try_schedule_encoder_inputs gave it.
Schedule(r, computed, try, c) ==
  /\ cache' = AllocateAll(c, r, try.hashes)
  /\ held' = [q \in Requests |-> IF q = r THEN computed + try.new
                                 ELSE IF q \in ToSet(running') THEN held[q] ELSE 0]
  /\ scheduled' = [scheduled EXCEPT ![r] = try.new]
  /\ inputs' = inputs \cup try.hashes
  /\ tokenBudget' = tokenBudget - try.new /\ encoderBudget' = try.budget

KVUsed(S) == MapThenSumSet(LAMBDA r : held[r], S)

InRunningLoop == phase = "running" /\ reqIndex <= Len(running) /\ tokenBudget > 0

\* How many of the last running requests must go for r to have room; r itself is
\* the last that may.
NumVictims(r, n) ==
  LET Kept(k) == ToSet(SubSeq(running, 1, Len(running) - k)) \ {r}
      last    == Len(running) - reqIndex
  IN  Min({k \in 0 .. last : KVUsed(Kept(k)) + numComputed[r] + n <= KVTokens} \cup {last + 1})

\* An iteration of the first loop.  The victims are preempted from the last one on
\* (_preempt_request); a request that goes itself ends the loop.
ScheduleRunning ==
  LET r       == running[reqIndex]
      try     == TrySchedule(r, numComputed[r],
                             Smallest(numTokens(r) - numComputed[r], tokenBudget))
      kept    == Len(running) - NumVictims(r, try.new)
      victims == SubSeq(running, kept + 1, Len(running))
      after   == FoldLeft(LAMBDA c, v : Free(c, v), try.cache, Reverse(victims))
      Gone(q) == q \in ToSet(victims)
  IN
  /\ InRunningLoop
  /\ reqIndex' = reqIndex + 1
  /\ running' = SubSeq(running, 1, kept) /\ waiting' = victims \o waiting
  /\ status' = [q \in Requests |-> IF Gone(q) THEN "waiting" ELSE status[q]]
  /\ numComputed' = [q \in Requests |-> IF Gone(q) THEN 0 ELSE numComputed[q]]
  /\ preempting' = (preempting \/ victims # << >>)
  /\ IF try.new > 0 /\ ~Gone(r)
       THEN Schedule(r, numComputed[r], try, after)
       ELSE /\ cache' = after
            /\ held' = [q \in Requests |-> IF Gone(q) THEN 0 ELSE held[q]]
            /\ UNCHANGED <<scheduled, inputs, tokenBudget, encoderBudget>>
  /\ UNCHANGED <<disableChunked, numOutput, phase, encoderCache, resets>>

EndRunning ==
  /\ phase = "running" /\ ~InRunningLoop
  /\ phase' = IF preempting THEN "output" ELSE "waiting"
  /\ UNCHANGED <<disableChunked, cache, queueVars, requestVars, stepVars, encoderCache,
                 resets>>

\* A fault: the references of a request that does not get its blocks stay.
NotStartedKept(c, r) == c

\* "we need to untouch the request from the encode cache manager"
NotStarted(c, r) == Free(c, r)

\* An iteration of the second loop, for a request with a prefix hit of that length.
\* A request that cannot be scheduled ends it.
ScheduleWaiting(hit) ==
  LET r    == Head(waiting)
      try  == TrySchedule(r, hit, Smallest(numTokens(r) - hit, tokenBudget))
      room == KVUsed(Requests) + hit + try.new <= KVTokens
  IN
  /\ phase = "waiting" /\ waiting # << >> /\ tokenBudget > 0 /\ hit < numTokens(r)
  /\ IF try.new > 0 /\ room
       THEN /\ waiting' = Tail(waiting) /\ running' = Append(running, r)
            /\ status' = [status EXCEPT ![r] = "running"]
            /\ numComputed' = [numComputed EXCEPT ![r] = hit]
            /\ Schedule(r, hit, try, try.cache)
            /\ UNCHANGED phase
       ELSE /\ cache' = IF try.new > 0 THEN NotStarted(try.cache, r) ELSE try.cache
            /\ phase' = "output"
            /\ UNCHANGED <<queueVars, status, numComputed, held, scheduled, inputs,
                           tokenBudget, encoderBudget>>
  /\ UNCHANGED <<disableChunked, numOutput, reqIndex, preempting, encoderCache, resets>>

EndWaiting ==
  /\ phase = "waiting" /\ (waiting = << >> \/ tokenBudget = 0)
  /\ phase' = "output"
  /\ UNCHANGED <<disableChunked, cache, queueVars, requestVars, stepVars, encoderCache,
                 resets>>

-----------------------------------------------------------------------------
(* The step                                                                *)

\* The placeholder of the item is in the KV cache.
Passed(f, computed) == End(f) <= computed

\* _free_encoder_inputs
FreeEncoderInputs(c, r, computed) ==
  FreeInputs(c, r, SelectSeq(Features[r], LAMBDA f : Passed(f, computed)))

\* A fault: what is computed in the step is dropped with what was evicted.
NewOutputsFirst == (encoderCache \cup inputs) \ cache.freed

\* A fault: a step without encoder inputs drops nothing.
NewOutputsIfAny == IF inputs = {} THEN encoderCache ELSE (encoderCache \ cache.freed) \cup inputs

\* _update_states drops what was evicted, _execute_mm_encoder computes the inputs.
NewOutputs == (encoderCache \ cache.freed) \cup inputs

\* The scheduler output is made and the requests are advanced; the runner gets it.
Execute ==
  LET done == [r \in Requests |-> numComputed[r] + scheduled[r]]
      reqs == SelectSeq(running, LAMBDA r : scheduled[r] > 0)
  IN
  /\ phase = "output"
  /\ phase' = "update"
  /\ encoderCache' = NewOutputs
  /\ numComputed' = done
  /\ cache' = FoldLeft(LAMBDA c, r : FreeEncoderInputs(c, r, done[r]),
                       [cache EXCEPT !.freed = {}], reqs)
  /\ UNCHANGED <<disableChunked, queueVars, status, numOutput, held, stepVars, resets>>

\* update_from_output: a request whose tokens are all computed has a new one.
Update ==
  LET sampled == {r \in ToSet(running) : scheduled[r] > 0 /\ numComputed[r] = numTokens(r)}
      stopped == {r \in sampled : numOutput[r] + 1 >= MaxTokens[r]}
  IN
  /\ phase = "update"
  /\ phase' = "idle"
  /\ numOutput' = [r \in Requests |-> IF r \in sampled THEN numOutput[r] + 1 ELSE numOutput[r]]
  /\ status' = [r \in Requests |-> IF r \in stopped THEN "finished" ELSE status[r]]
  /\ held' = [r \in Requests |-> IF r \in stopped THEN 0 ELSE held[r]]
  /\ running' = Without(running, stopped)
  /\ cache' = FoldLeft(LAMBDA c, r : Free(c, r), cache,
                       SelectSeq(running, LAMBDA r : r \in stopped))
  /\ NoStep(scheduled', inputs', reqIndex', tokenBudget', encoderBudget', preempting')
  /\ UNCHANGED <<disableChunked, waiting, numComputed, encoderCache, resets>>

-----------------------------------------------------------------------------
EngineLoop ==
  \/ StartSchedule \/ ScheduleRunning \/ EndRunning
  \/ \E hit \in PrefixHits : ScheduleWaiting(hit)
  \/ EndWaiting \/ Execute \/ Update

\* _process_input_queue blocks while there is nothing to do.
WaitForWork == phase = "idle" /\ waiting \o running = << >> /\ UNCHANGED vars

Next == \/ EngineLoop
        \/ \E r \in Requests : AddRequest(r) \/ Abort(r)
        \/ ResetEncoderCache
        \/ WaitForWork

Busy == phase # "idle" \/ waiting # << >> \/ running # << >>

\* run_busy_loop never stops: weak fairness of EngineLoop with its enabling
\* condition spelled out, which TLC would evaluate slowly.
Fairness == []<>~Busy \/ []<><<EngineLoop>>_vars

Spec == Init /\ [][Next]_vars /\ Fairness

-----------------------------------------------------------------------------
(* Properties                                                              *)

TypeOK ==
  /\ cache \in [cached : SUBSET Hashes, refs : [Hashes -> SUBSET Requests],
                freeable : Seq(Hashes), freed : SUBSET Hashes,
                numFreeSlots : 0 .. CacheSize, numFreeableSlots : 0 .. CacheSize]
  /\ phase \in {"idle", "running", "waiting", "output", "update"}
  /\ status \in [Requests -> {"new", "waiting", "running", "finished"}]
  /\ ToSet(running) = {r \in Requests : status[r] = "running"}
  /\ ToSet(waiting) = {r \in Requests : status[r] = "waiting"}
  /\ tokenBudget \in 0 .. MaxScheduledTokens
  /\ encoderBudget \in 0 .. EncoderComputeBudget
  /\ encoderCache \subseteq Hashes

\* num_free_slots and num_freeable_slots are what is left when all entries, and
\* when the entries in use, are counted; freeable holds the others, each once.
\* (With a slot too many the assertions of allocate fail or the evictions run out
\* of entries; with one too few images are never scheduled.)
SlotsExact ==
  LET used == {h \in cache.cached : cache.refs[h] # {}} IN
  /\ TypeOK
  /\ cache.numFreeSlots = CacheSize - Embeds(cache.cached)
  /\ cache.numFreeableSlots = CacheSize - Embeds(used)
  /\ ToSet(cache.freeable) = cache.cached \ used /\ IsInjective(cache.freeable)

\* "Encoder cache miss" of _gather_mm_embeddings is never raised: when a step
\* computes tokens of an item, its output is at the runner, whatever was shared,
\* evicted, preempted or reset before.
EncoderOutputsThere ==
  phase = "update" =>
    \A r \in Requests : \A f \in ToSet(Features[r]) :
      /\ scheduled[r] > 0
      /\ f.offset < numComputed[r]
      /\ ~Passed(f, numComputed[r] - scheduled[r])
      => f.hash \in encoderCache

\* The runner keeps what the manager counts, so that cache_size bounds its memory.
RunnerKeepsCached ==
  phase \in {"idle", "update"} => encoderCache = cache.cached

\* Every request finishes: no one waits for room that others hold for ever.
EventuallyFinished ==
  \A r \in Requests : status[r] = "waiting" ~> status[r] = "finished"
=============================================================================
