---------------------------- MODULE AsyncScheduler ----------------------------
(***************************************************************************)
(* Steps in flight: EngineCore.step_with_batch_queue keeps up to           *)
(* BatchQueueSize steps in a queue and schedules the next ones before the  *)
(* output of the first is known, either by pipeline parallelism with the   *)
(* Scheduler of scheduler.py or by async scheduling with the subclass of   *)
(* async_scheduler.py, which counts the tokens on their way in             *)
(* num_output_placeholders.  BatchQueueSize = 1 is EngineCore.step.        *)
(*                                                                         *)
(* A token is the position it has in the text of its request, so that the  *)
(* output of a request must be the positions after its prompt in turn.     *)
(* Blocks are counted (module KVCacheManager has their identities); prefix *)
(* caching is off, the policy FCFS.                                        *)
(***************************************************************************)
EXTENDS Integers, Sequences, FiniteSets, Functions, FiniteSetsExt, SequencesExt

CONSTANTS Requests,
          PromptLen, MaxTokens,  \* [Requests -> Nat \ {0}]
          EosAt,                 \* [Requests -> Nat], the position of the EOS token
          ArrivalTime,           \* [Requests -> Nat], distinct
          NumBlocks, BlockSize, MaxModelLen,
          MaxScheduledTokens, MaxRunningReqs,
          Configs                \* the configurations the engine may be started with

\* NumBlocks is without the null block.
ASSUME AsyncAssumption ==
  /\ PromptLen \in [Requests -> Nat \ {0}] /\ MaxTokens \in [Requests -> Nat \ {0}]
  /\ EosAt \in [Requests -> Nat] /\ ArrivalTime \in [Requests -> Nat]
  /\ Configs \subseteq [asyncScheduling : BOOLEAN, batchQueueSize : Nat \ {0},
                         maxResets : Nat]
  /\ \A c \in Configs : c.asyncScheduling => c.batchQueueSize = 2
  /\ IsFiniteSet(Requests)
  /\ BlockSize \in Nat \ {0} /\ NumBlocks \in Nat /\ MaxModelLen \in Nat
  /\ MaxModelLen <= NumBlocks * BlockSize
  /\ MaxScheduledTokens \in Nat /\ MaxRunningReqs \in Nat \ {0}
  /\ MaxScheduledTokens >= MaxRunningReqs
  /\ \A r \in Requests : PromptLen[r] < MaxModelLen

VARIABLES config,          \* one of Configs
          phase,           \* where step_with_batch_queue is
          status,          \* "new", "waiting", "preempted", "running", "finished"
          waiting, running,
          numComputed,     \* num_computed_tokens
          output,          \* output_token_ids
          placeholders,    \* num_output_placeholders
          discard,         \* discard_latest_async_tokens
          held,            \* number of blocks of every request
          scheduled,       \* num_scheduled_tokens of the step being built
          reqIndex, tokenBudget, preempting,
          batchQueue,      \* the steps in flight, oldest first
          toldFinished,    \* finished_req_ids is empty
          resets

AsyncScheduling == config.asyncScheduling
BatchQueueSize  == config.batchQueueSize
MaxResets       == config.maxResets  \* bound on the calls of reset_prefix_cache

requestVars == <<status, numComputed, output, placeholders, discard, held>>
queueVars   == <<waiting, running>>
stepVars    == <<scheduled, reqIndex, tokenBudget, preempting>>
vars        == <<config, phase, requestVars, queueVars, stepVars, batchQueue, toldFinished, resets>>

Smaller(a, b) == IF a <= b THEN a ELSE b

\* The elements of q that are not in S, in their order: the i-th one comes to the
\* place given by its rank among the remaining ones.
Rank(I, i)    == Cardinality({j \in I : j <= i})
Without(q, S) ==
  LET I == {i \in DOMAIN q : q[i] \notin S}
  IN  [k \in 1 .. Cardinality(I) |-> q[CHOOSE i \in I : Rank(I, i) = k]]

numTokens(r)  == PromptLen[r] + Len(output[r])

\* What a step holds for a request: nothing, tokens without a sample, or the
\* position of the sampled token.
Absent == -1
NoToken == 0

-----------------------------------------------------------------------------
Init ==
  /\ config \in Configs
  /\ phase = "idle" /\ waiting = << >> /\ running = << >>
  /\ status = [r \in Requests |-> "new"]
  /\ numComputed = [r \in Requests |-> 0]
  /\ output = [r \in Requests |-> << >>]
  /\ placeholders = [r \in Requests |-> 0]
  /\ discard = [r \in Requests |-> FALSE]
  /\ held = [r \in Requests |-> 0]
  /\ scheduled = [r \in Requests |-> 0]
  /\ reqIndex = 1 /\ tokenBudget = 0 /\ preempting = FALSE
  /\ batchQueue = << >> /\ toldFinished = TRUE /\ resets = 0

\* add_request
AddRequest(r) ==
  /\ phase = "idle" /\ status[r] = "new"
  /\ \A s \in Requests : status[s] # "new" => ArrivalTime[s] < ArrivalTime[r]
  /\ status' = [status EXCEPT ![r] = "waiting"]
  /\ waiting' = Append(waiting, r)
  /\ UNCHANGED <<phase, numComputed, output, placeholders, discard, held, running,
                 stepVars, batchQueue, toldFinished, resets, config>>

\* finish_requests for an abort, between two steps or, by _process_aborts_queue,
\* before an output is looked at.
Abort(r) ==
  /\ phase \in {"idle", "collect"} /\ status[r] \notin {"new", "finished"}
  /\ status' = [status EXCEPT ![r] = "finished"]
  /\ held' = [held EXCEPT ![r] = 0]
  /\ waiting' = Without(waiting, {r}) /\ running' = Without(running, {r})
  /\ toldFinished' = FALSE
  /\ UNCHANGED <<phase, numComputed, output, placeholders, discard, stepVars,
                 batchQueue, resets, config>>

\* A fault: a preempted request keeps its blocks.
PreemptRequestNotFreed(r) ==
  /\ UNCHANGED held
  /\ status' = [status EXCEPT ![r] = "preempted"]
  /\ numComputed' = [numComputed EXCEPT ![r] = 0]
  /\ waiting' = <<r>> \o waiting

\* _preempt_request: what is in flight stays in flight.
PreemptRequest(r) ==
  /\ held' = [held EXCEPT ![r] = 0]
  /\ status' = [status EXCEPT ![r] = "preempted"]
  /\ numComputed' = [numComputed EXCEPT ![r] = 0]
  /\ waiting' = <<r>> \o waiting

-----------------------------------------------------------------------------
(* schedule()                                                              *)

StartSchedule ==
  /\ phase = "idle"
  /\ waiting # << >> \/ running # << >> \/ ~toldFinished
  /\ phase' = "running"
  /\ scheduled' = [r \in Requests |-> 0]
  /\ reqIndex' = 1 /\ tokenBudget' = MaxScheduledTokens /\ preempting' = FALSE
  /\ UNCHANGED <<requestVars, queueVars, batchQueue, toldFinished, resets, config>>

InRunningLoop == phase = "running" /\ reqIndex <= Len(running) /\ tokenBudget > 0

\* The step in flight is the last one the request may have.
SureToStop(r) ==
  /\ placeholders[r] > 0
  /\ numComputed[r] + 2 - placeholders[r] >= PromptLen[r] + MaxTokens[r]

NumNewTokens(r) ==
  Smaller(Smaller(numTokens(r) + placeholders[r] - numComputed[r], tokenBudget),
          MaxModelLen - 1 - numComputed[r])

\* allocate_slots in numbers of blocks.
BlocksFor(tokens)     == (tokens + BlockSize - 1) \div BlockSize
FreeBlocks            == NumBlocks - MapThenSumSet(LAMBDA r : held[r], Requests)
CanAllocateSlots(r, n) == BlocksFor(numComputed[r] + n) - held[r] <= FreeBlocks

\* A running request that gets nothing in this step.
SkipRunning ==
  /\ InRunningLoop
  /\ SureToStop(running[reqIndex]) \/ NumNewTokens(running[reqIndex]) = 0
  /\ reqIndex' = reqIndex + 1
  /\ UNCHANGED <<phase, requestVars, queueVars, scheduled, tokenBudget, preempting,
                 batchQueue, toldFinished, resets, config>>

ScheduleRunning ==
  LET r == running[reqIndex]
      n == NumNewTokens(r)
  IN  /\ InRunningLoop
      /\ ~SureToStop(r) /\ n > 0
      /\ CanAllocateSlots(r, n)
      /\ held' = [held EXCEPT ![r] = BlocksFor(numComputed[r] + n)]
      /\ scheduled' = [scheduled EXCEPT ![r] = n]
      /\ tokenBudget' = tokenBudget - n
      /\ reqIndex' = reqIndex + 1
      /\ UNCHANGED <<phase, status, numComputed, output, placeholders, discard,
                     queueVars, preempting, batchQueue, toldFinished, resets, config>>

\* The request that started last is preempted; if it is the request itself, the
\* schedule is done.
PreemptVictim ==
  LET r == running[reqIndex]
      n == NumNewTokens(r)
      v == Last(running)
  IN  /\ InRunningLoop
      /\ ~SureToStop(r) /\ n > 0
      /\ ~CanAllocateSlots(r, n)
      /\ running' = Front(running)
      /\ PreemptRequest(v)
      /\ preempting' = TRUE
      /\ phase' = IF v = r THEN "dispatch" ELSE "running"
      /\ UNCHANGED <<output, placeholders, discard, scheduled, reqIndex, tokenBudget,
                     batchQueue, toldFinished, resets, config>>

EndRunning ==
  /\ phase = "running" /\ ~(reqIndex <= Len(running) /\ tokenBudget > 0)
  /\ phase' = IF preempting THEN "dispatch" ELSE "waiting"
  /\ UNCHANGED <<requestVars, queueVars, stepVars, batchQueue, toldFinished, resets, config>>

CanStart ==
  /\ waiting # << >> /\ tokenBudget > 0 /\ Len(running) < MaxRunningReqs
  /\ CanAllocateSlots(Head(waiting), Smaller(numTokens(Head(waiting)), tokenBudget))

\* A waiting or preempted request is computed from its first token on; the
\* tokens of it in flight are not in numTokens.
ScheduleWaiting ==
  LET r == Head(waiting)
      n == Smaller(numTokens(r), tokenBudget)
  IN  /\ phase = "waiting" /\ CanStart
      /\ held' = [held EXCEPT ![r] = BlocksFor(n)]
      /\ scheduled' = [scheduled EXCEPT ![r] = n]
      /\ status' = [status EXCEPT ![r] = "running"]
      /\ waiting' = Tail(waiting) /\ running' = Append(running, r)
      /\ tokenBudget' = tokenBudget - n
      /\ UNCHANGED <<phase, numComputed, output, placeholders, discard, reqIndex,
                     preempting, batchQueue, toldFinished, resets, config>>

EndWaiting ==
  /\ phase = "waiting" /\ ~CanStart
  /\ phase' = "dispatch"
  /\ UNCHANGED <<requestVars, queueVars, stepVars, batchQueue, toldFinished, resets, config>>

-----------------------------------------------------------------------------
(* The rest of step_with_batch_queue                                       *)

ScheduledReqs == {r \in Requests : scheduled[r] > 0}

\* The step reaches the last token there is or will be, so one is sampled
\* (is_prefill_chunk of the scheduler, discard_request_mask of the runner).
Samples(r) == numComputed[r] + scheduled[r] >= numTokens(r) + placeholders[r]

\* The step as its output will come back from the workers.
Batch ==
  [r \in Requests |-> IF r \notin ScheduledReqs THEN Absent
                      ELSE IF Samples(r) THEN numComputed[r] + scheduled[r] + 1
                      ELSE NoToken]

\* With the new step the queue is not full, so that another one may follow.
MayReturn == ScheduledReqs # {} /\ Len(batchQueue) + 1 < BatchQueueSize

\* _update_after_schedule, the step goes to the workers and into the queue.
\* The loop returns for more if it may and the oldest step is not done yet.
Dispatch ==
  /\ phase = "dispatch"
  /\ numComputed' = [r \in Requests |-> numComputed[r] + scheduled[r]]
  /\ placeholders' = [r \in Requests |->
       IF AsyncScheduling /\ r \in ScheduledReqs /\ Samples(r)
         THEN placeholders[r] + 1 ELSE placeholders[r]]
  /\ batchQueue' = Append(batchQueue, Batch)
  /\ toldFinished' = TRUE
  /\ \/ phase' = "collect"
     \/ MayReturn /\ phase' = "idle"
  /\ UNCHANGED <<status, output, discard, held, queueVars, stepVars, resets, config>>

\* There is nothing to schedule but a step in flight.
OnlyCollect ==
  /\ phase = "idle" /\ batchQueue # << >>
  /\ waiting = << >> /\ running = << >> /\ toldFinished
  /\ phase' = "collect"
  /\ UNCHANGED <<requestVars, queueVars, stepVars, batchQueue, toldFinished, resets, config>>

\* The requests of a step whose token is looked at.
Sampled(batch) == {r \in Requests : batch[r] > 0 /\ status[r] # "finished"}

\* A fault: the token of a request preempted meanwhile is dropped.
AcceptedRunning(batch) ==
  {r \in Sampled(batch) : ~(AsyncScheduling /\ discard[r]) /\ status[r] = "running"}

\* The tokens that are not discarded after a reset.
Accepted(batch) == {r \in Sampled(batch) : ~(AsyncScheduling /\ discard[r])}

\* A fault: the length of the model is forgotten.
StopsNoLength(r, token) == token = EosAt[r] \/ Len(output[r]) + 1 >= MaxTokens[r]

\* check_stop
Stops(r, token) ==
  \/ token = EosAt[r]
  \/ numTokens(r) + 1 >= MaxModelLen
  \/ Len(output[r]) + 1 >= MaxTokens[r]

\* A fault: the newest step is taken from the queue.
PopNewest(queue) == [batch |-> Last(queue), rest |-> Front(queue)]

\* batch_queue.pop() after appendleft()
PopOldest(queue) == [batch |-> Head(queue), rest |-> Tail(queue)]

\* update_from_output on the oldest step; a preempted request may stop too.
Collect ==
  LET batch    == PopOldest(batchQueue).batch
      accepted == Accepted(batch)
      stopped  == {r \in accepted : Stops(r, batch[r])}
  IN  /\ phase = "collect"
      /\ batchQueue' = PopOldest(batchQueue).rest
      /\ output' = [r \in Requests |-> IF r \in accepted THEN Append(output[r], batch[r])
                                       ELSE output[r]]
      /\ placeholders' = [r \in Requests |->
           IF AsyncScheduling /\ r \in accepted THEN placeholders[r] - 1 ELSE placeholders[r]]
      /\ discard' = [r \in Requests |-> discard[r] /\ ~(AsyncScheduling /\ r \in Sampled(batch))]
      /\ status' = [r \in Requests |-> IF r \in stopped THEN "finished" ELSE status[r]]
      /\ held' = [r \in Requests |-> IF r \in stopped THEN 0 ELSE held[r]]
      /\ running' = Without(running, stopped) /\ waiting' = Without(waiting, stopped)
      /\ toldFinished' = (toldFinished /\ stopped = {})
      /\ phase' = "idle"
      /\ UNCHANGED <<numComputed, stepVars, resets, config>>

\* reset_prefix_cache(reset_running_requests=True) between two steps.
Reset ==
  LET S == Range(running) IN
  /\ phase = "idle" /\ resets < MaxResets
  /\ resets' = resets + 1
  /\ running' = << >> /\ waiting' = running \o waiting
  /\ status' = [r \in Requests |-> IF r \in S THEN "preempted" ELSE status[r]]
  /\ held' = [r \in Requests |-> IF r \in S THEN 0 ELSE held[r]]
  /\ numComputed' = [r \in Requests |-> IF r \in S THEN 0 ELSE numComputed[r]]
  /\ placeholders' = [r \in Requests |-> IF r \in S THEN 0 ELSE placeholders[r]]
  /\ discard' = [r \in Requests |-> discard[r] \/ r \in S]
  /\ UNCHANGED <<phase, output, stepVars, batchQueue, toldFinished, config>>

EngineLoop == \/ StartSchedule \/ SkipRunning \/ ScheduleRunning \/ PreemptVictim
              \/ EndRunning \/ ScheduleWaiting \/ EndWaiting
              \/ Dispatch \/ OnlyCollect \/ Collect

\* _process_input_queue waits when there is no work.
WaitForWork ==
  /\ phase = "idle" /\ batchQueue = << >> /\ toldFinished
  /\ waiting = << >> /\ running = << >>
  /\ UNCHANGED vars

Next == \/ EngineLoop
        \/ \E r \in Requests : AddRequest(r) \/ Abort(r)
        \/ Reset
        \/ WaitForWork

\* run_busy_loop never stops; clients owe nothing.
Spec == Init /\ [][Next]_vars /\ WF_vars(EngineLoop)

-----------------------------------------------------------------------------
(* Properties                                                              *)

\* Type invariant.
TypeOK ==
  /\ phase \in {"idle", "running", "waiting", "dispatch", "collect"}
  /\ status \in [Requests -> {"new", "waiting", "preempted", "running", "finished"}]
  /\ placeholders \in [Requests -> 0 .. BatchQueueSize]
  /\ numComputed \in [Requests -> 0 .. MaxModelLen]
  /\ held \in [Requests -> 0 .. NumBlocks]
  /\ Len(batchQueue) \in 0 .. BatchQueueSize
  /\ phase = "idle" => Len(batchQueue) < BatchQueueSize

\* The client gets the text of its request: every position after the prompt
\* once and in order, whatever was in flight when the request was preempted,
\* resumed or reset ("to avoid a redundant repetitive output token").
OutputExact ==
  \A r \in Requests : \A i \in DOMAIN output[r] : output[r][i] = PromptLen[r] + i

\* The steps in flight that will deliver a token to r.
InFlight(r) == {i \in DOMAIN batchQueue : batchQueue[i][r] > 0}

\* `assert request.num_output_placeholders >= 0`, made exact: a placeholder
\* stands for a token in flight, also across preemptions.  And "avoid scheduling
\* an extra step when we are sure that the previous step has reached
\* request.max_tokens": no token in flight is past the last one of its request.
PlaceholdersExact ==
  \A r \in Requests :
    /\ AsyncScheduling /\ status[r] # "finished" =>
         placeholders[r] = Cardinality(InFlight(r))
    /\ \A i \in InFlight(r) :
         batchQueue[i][r] <= Smaller(PromptLen[r] + MaxTokens[r], MaxModelLen)

\* A running request has the blocks of all it has computed or in flight, and a
\* request outside the running list has none, also when it stops while it is
\* preempted.
BlocksHeld ==
  /\ TypeOK
  /\ FreeBlocks >= 0
  /\ \A r \in Requests :
       /\ status[r] = "running" => held[r] >= BlocksFor(numComputed[r])
       /\ status[r] # "running" => held[r] = 0
       /\ status[r] = "running" <=> r \in Range(running)
       /\ status[r] \in {"waiting", "preempted"} <=> r \in Range(waiting)

\* Every request that arrives finishes.
EventuallyFinished ==
  \A r \in Requests : status[r] # "new" ~> status[r] = "finished"
=============================================================================
