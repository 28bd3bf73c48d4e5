------------------------------ MODULE Scheduler ------------------------------
(***************************************************************************)
(* The scheduler of one engine (vllm/v1/core/sched/scheduler.py) in the    *)
(* engine loop of EngineCore.step: schedule() with its two loops, queues   *)
(* and budget, the model's step, the aborts that came in meanwhile, and    *)
(* update_from_output.  It drives the KV cache manager of module           *)
(* KVCacheManager, instantiated as KV, whose variables it shares.          *)
(*                                                                         *)
(* The loop is one thread: phase says where it is, an iteration of a loop  *)
(* of schedule() is an action, and requests are added and caches reset     *)
(* only between two steps.  Encoder inputs, LoRA, speculative tokens,      *)
(* structured output, streaming sessions and connectors are left out.      *)
(***************************************************************************)
EXTENDS Integers, Sequences, FiniteSets, Functions, FiniteSetsExt

CONSTANTS NumGpuBlocks, Hashes, NoHash,
          Requests, Stream, PromptLen, BlockSize, MaxModelLen, EnableCaching,
          Priority,            \* [Requests -> Int], smaller is more urgent
          ArrivalTime,         \* [Requests -> Nat]
          Configs,             \* the configurations the engine may be started with
          MaxResets            \* bound on the calls of reset_prefix_cache

VARIABLES pool, reqBlocks, numCachedBlock, status, numTokens, numComputed,
          numScheduled, content

KV == INSTANCE KVCacheManager

VARIABLES config,          \* one of Configs
          phase,           \* where the engine loop is
          waiting,         \* the waiting queue, next request first
          running,         \* the list of running requests
          reqIndex,        \* index into running during the first loop, from 1
          tokenBudget,
          numNewTokens,    \* num_new_tokens while the first loop preempts for a request, or 0
          preempting,      \* preempted_reqs of the step is not empty
          preempted,       \* requests whose status is PREEMPTED, not WAITING
          newReqs,         \* scheduled_new_reqs of the step
          prevScheduled,   \* prev_step_scheduled_req_ids
          finishedReqIds,  \* finished_req_ids
          added,           \* the requests that have arrived
          runnerReqs,      \* the requests the model runner has a state for
          resets

Policy               == config.policy
MaxScheduledTokens   == config.maxScheduledTokens     \* max_num_batched_tokens
MaxRunningReqs       == config.maxRunningReqs         \* max_num_seqs
LongPrefillThreshold == config.longPrefillThreshold   \* 0 for none
EnableChunkedPrefill == config.chunkedPrefill

managerVars == <<pool, reqBlocks, numCachedBlock>>
requestVars == <<status, numTokens, numComputed, numScheduled>>
kvVars    == <<managerVars, requestVars, content>>
stepVars  == <<reqIndex, tokenBudget, numNewTokens, preempting, newReqs>>
schedVars == <<phase, waiting, running, stepVars, preempted, prevScheduled,
               finishedReqIds, added, runnerReqs, resets>>
vars      == <<config, kvVars, schedVars>>

\* What SchedulerConfig.verify_max_model_len and the start-up check of the
\* cache size (_check_enough_kv_cache_memory) guarantee.
ASSUME SchedulerAssumption ==
  /\ Priority \in [Requests -> Int] /\ ArrivalTime \in [Requests -> Nat]
  /\ \A r, s \in Requests : ArrivalTime[r] = ArrivalTime[s] => r = s
  /\ MaxResets \in Nat
  /\ NumGpuBlocks >= KV!cdiv(MaxModelLen, BlockSize)
  /\ \A c \in Configs :
       /\ c.policy \in {"fcfs", "priority"} /\ c.longPrefillThreshold \in Nat
       /\ c.skipReading \subseteq Requests
       /\ c.maxRunningReqs \in Nat \ {0}
       /\ c.maxScheduledTokens \in Nat /\ c.maxScheduledTokens >= c.maxRunningReqs
       /\ c.chunkedPrefill \/ c.maxScheduledTokens >= MaxModelLen

\* What the manager assumes of its constants.
ASSUME KVAssumption == KV!PoolAssumption /\ KV!ManagerAssumption

Scheduled == {r \in Requests : numScheduled[r] > 0}

-----------------------------------------------------------------------------
(* The queues of request_queue.py                                          *)

\* Request.__lt__
Less(r, s) == \/ Priority[r] < Priority[s]
              \/ Priority[r] = Priority[s] /\ ArrivalTime[r] < ArrivalTime[s]

\* The heap of PriorityRequestQueue, as the sequence it would be popped in.
Insert(q, r) == KV!Keep(q, {s \in Requests : Less(s, r)}) \o <<r>> \o
                KV!Keep(q, {s \in Requests : Less(r, s)})

AddToQueue(q, r)     == IF Policy = "fcfs" THEN Append(q, r) ELSE Insert(q, r)
PrependToQueue(q, r) == IF Policy = "fcfs" THEN <<r>> \o q ELSE Insert(q, r)
Remove(q, r)         == KV!Keep(q, Requests \ {r})

-----------------------------------------------------------------------------
Init ==
  /\ config \in Configs
  /\ KV!Init
  /\ phase = "idle" /\ waiting = << >> /\ running = << >>
  /\ reqIndex = 1 /\ tokenBudget = 0 /\ numNewTokens = 0 /\ preempting = FALSE
  /\ preempted = {} /\ newReqs = {} /\ prevScheduled = {}
  /\ finishedReqIds = {} /\ added = {} /\ runnerReqs = {} /\ resets = 0

\* add_request, from the input queue between two steps.
AddRequest(r) ==
  /\ phase = "idle"
  /\ r \notin added
  /\ \A s \in added : ArrivalTime[s] < ArrivalTime[r]
  /\ added' = added \cup {r}
  /\ waiting' = AddToQueue(waiting, r)
  /\ UNCHANGED <<kvVars, phase, running, stepVars, preempted, prevScheduled,
                 finishedReqIds, runnerReqs, resets, config>>

\* _free_request: the workers will be told with the next step.
FreeRequest(r) ==
  /\ KV!Free(r)
  /\ status' = [status EXCEPT ![r] = "finished"]
  /\ finishedReqIds' = finishedReqIds \cup {r}
  /\ UNCHANGED <<numTokens, numComputed, numScheduled, content>>

\* A fault: an aborted request that waits is left in the queue.
AbortRunning(r) ==
  /\ phase \in {"idle", "update"}
  /\ r \in added /\ status[r] # "finished"
  /\ running' = Remove(running, r)
  /\ FreeRequest(r)
  /\ UNCHANGED <<waiting, phase, stepVars, preempted, prevScheduled, added, runnerReqs, resets, config>>

\* finish_requests for an abort, between two steps or, by _process_aborts_queue,
\* after the model has run and before its output is looked at.
Abort(r) ==
  /\ phase \in {"idle", "update"}
  /\ r \in added /\ status[r] # "finished"
  /\ running' = Remove(running, r)
  /\ waiting' = Remove(waiting, r)
  /\ FreeRequest(r)
  /\ UNCHANGED <<phase, stepVars, preempted, prevScheduled, added, runnerReqs, resets, config>>

\* A fault: a preempted request is not put back into the queue.
PreemptRequestLost(r) ==
  /\ KV!Free(r)
  /\ status' = [status EXCEPT ![r] = "waiting"]
  /\ numComputed' = [numComputed EXCEPT ![r] = 0]
  /\ preempted' = preempted \cup {r}
  /\ waiting' = waiting

\* _preempt_request
PreemptRequest(r) ==
  /\ KV!Free(r)
  /\ status' = [status EXCEPT ![r] = "waiting"]
  /\ numComputed' = [numComputed EXCEPT ![r] = 0]
  /\ preempted' = preempted \cup {r}
  /\ waiting' = PrependToQueue(waiting, r)

-----------------------------------------------------------------------------
(* schedule()                                                              *)

\* has_requests, and the locals of schedule().
StartSchedule ==
  /\ phase = "idle"
  /\ waiting # << >> \/ running # << >> \/ finishedReqIds # {}
  /\ phase' = "running"
  /\ reqIndex' = 1 /\ tokenBudget' = MaxScheduledTokens /\ numNewTokens' = 0
  /\ preempting' = FALSE /\ newReqs' = {}
  /\ UNCHANGED <<kvVars, waiting, running, preempted, prevScheduled,
                 finishedReqIds, added, runnerReqs, resets, config>>

InRunningLoop == phase = "running" /\ reqIndex <= Len(running) /\ tokenBudget > 0

\* long_prefill_token_threshold
Capped(n) == IF 0 < LongPrefillThreshold /\ LongPrefillThreshold < n
               THEN LongPrefillThreshold ELSE n

\* num_new_tokens of a running request, at the start of its iteration.
NewTokens(r) ==
  KV!MinOf(KV!MinOf(Capped(numTokens[r] - numComputed[r]), tokenBudget),
           MaxModelLen - 1 - numComputed[r])

\* The number is chosen once: while others are preempted for the request it stays,
\* although a victim taken back from the step returns its tokens to the budget.
NumNewTokens(r) == IF numNewTokens > 0 THEN numNewTokens ELSE NewTokens(r)

\* An iteration of the first loop that finds the slots it needs.
ScheduleRunning ==
  LET r == running[reqIndex]
      n == NumNewTokens(r)
  IN  /\ InRunningLoop
      /\ n > 0
      /\ KV!AllocateSlots(r, n, << >>)
      /\ numScheduled' = [numScheduled EXCEPT ![r] = n]
      /\ tokenBudget' = tokenBudget - n /\ numNewTokens' = 0
      /\ reqIndex' = reqIndex + 1
      /\ UNCHANGED <<status, numTokens, numComputed, content, phase, waiting, running,
                     preempting, preempted, newReqs, prevScheduled, finishedReqIds,
                     added, runnerReqs, resets, config>>

\* The request to preempt: the one that started last, or the least urgent.
Victim ==
  IF Policy = "fcfs" THEN running[Len(running)]
  ELSE CHOOSE r \in Range(running) : \A s \in Range(running) : r = s \/ Less(s, r)

\* A fault: the tokens of a victim already scheduled are not given back.
TakeBackNoRefund(v) ==
  /\ numScheduled' = [numScheduled EXCEPT ![v] = 0]
  /\ tokenBudget' = tokenBudget
  /\ reqIndex' = IF v \in Scheduled THEN reqIndex - 1 ELSE reqIndex

\* The victim leaves the step if it was scheduled in it already.
TakeBack(v) ==
  /\ numScheduled' = [numScheduled EXCEPT ![v] = 0]
  /\ tokenBudget' = tokenBudget + numScheduled[v]
  /\ reqIndex' = IF v \in Scheduled THEN reqIndex - 1 ELSE reqIndex

\* The inner loop of such an iteration: without slots a request is preempted, and
\* the next try is for the same number of tokens.  The first loop ends if it was
\* the request itself.
PreemptVictim ==
  LET r == running[reqIndex]
      n == NumNewTokens(r)
  IN
  /\ InRunningLoop
  /\ n > 0 /\ ~KV!CanAllocateSlots(r, n, << >>)
  /\ numNewTokens' = IF Victim = r THEN 0 ELSE n
  /\ running' = Remove(running, Victim)
  /\ TakeBack(Victim)
  /\ PreemptRequest(Victim)
  /\ preempting' = TRUE
  /\ phase' = IF Victim = r THEN "execute" ELSE "running"
  /\ prevScheduled' = IF Victim = r THEN Scheduled ELSE prevScheduled
  /\ UNCHANGED <<numTokens, content, newReqs, finishedReqIds, added, runnerReqs, resets, config>>

\* A fault: the waiting loop is entered although the step has preempted.
EndRunningAlways ==
  /\ phase = "running" /\ ~(reqIndex <= Len(running) /\ tokenBudget > 0)
  /\ phase' = "waiting"
  /\ prevScheduled' = prevScheduled
  /\ UNCHANGED <<kvVars, waiting, running, stepVars, preempted, finishedReqIds,
                 added, runnerReqs, resets, config>>

\* After the first loop the waiting loop is entered unless the step preempted.
EndRunning ==
  /\ phase = "running" /\ ~(reqIndex <= Len(running) /\ tokenBudget > 0)
  /\ phase' = IF preempting THEN "execute" ELSE "waiting"
  /\ prevScheduled' = IF preempting THEN Scheduled ELSE prevScheduled
  /\ UNCHANGED <<kvVars, waiting, running, stepVars, preempted, finishedReqIds,
                 added, runnerReqs, resets, config>>

\* get_computed_blocks, which some requests (those with prompt_logprobs) skip.
ComputedBlocks(r) == IF r \in config.skipReading THEN << >> ELSE KV!GetComputedBlocks(r)

\* num_new_tokens of a waiting request, of which hits are cached.
NumNewTokensWaiting(r, hits) == Capped(numTokens[r] - Len(hits) * BlockSize)

\* The conditions under which an iteration of the waiting loop goes through.
CanStart(r, hits) ==
  LET n == NumNewTokensWaiting(r, hits) IN
  /\ EnableChunkedPrefill \/ n <= tokenBudget
  /\ KV!CanAllocateSlots(r, KV!MinOf(n, tokenBudget), hits)

InWaitingLoop ==
  /\ phase = "waiting" /\ waiting # << >>
  /\ tokenBudget > 0 /\ Len(running) < MaxRunningReqs

\* An iteration of the second loop.
ScheduleWaiting ==
  LET r    == Head(waiting)
      hits == ComputedBlocks(r)
      n    == KV!MinOf(NumNewTokensWaiting(r, hits), tokenBudget)
  IN  /\ InWaitingLoop
      /\ CanStart(r, hits)
      /\ KV!AllocateSlots(r, n, hits)
      /\ numScheduled' = [numScheduled EXCEPT ![r] = n]
      /\ numComputed' = [numComputed EXCEPT ![r] = Len(hits) * BlockSize]
      /\ status' = [status EXCEPT ![r] = "running"]
      /\ waiting' = Tail(waiting)
      /\ running' = Append(running, r)
      /\ tokenBudget' = tokenBudget - n
      /\ newReqs' = IF r \in preempted THEN newReqs ELSE newReqs \cup {r}
      /\ preempted' = preempted \ {r}
      /\ UNCHANGED <<numTokens, content, phase, reqIndex, numNewTokens, preempting,
                     prevScheduled, finishedReqIds, added, runnerReqs, resets, config>>

\* The second loop ends; prev_step_scheduled_req_ids is replaced.
EndWaiting ==
  /\ phase = "waiting"
  /\ InWaitingLoop => ~CanStart(Head(waiting), ComputedBlocks(Head(waiting)))
  /\ phase' = "execute"
  /\ prevScheduled' = Scheduled
  /\ UNCHANGED <<kvVars, waiting, running, stepVars, preempted, finishedReqIds,
                 added, runnerReqs, resets, config>>

-----------------------------------------------------------------------------
(* The model's step and update_from_output                                 *)

\* A fault: the runner keeps what it knows of finished requests.
RunnerStateKept == runnerReqs \cup newReqs

\* _update_states of the runner.
RunnerState == (runnerReqs \ finishedReqIds) \cup newReqs

\* execute_model: KV written, counts advanced, tokens sampled.  A step may be
\* empty, and then only tells the runner what has finished.
Execute ==
  /\ phase = "execute"
  /\ \/ KV!Execute
     \/ Scheduled = {} /\ UNCHANGED kvVars
  /\ phase' = "update"
  /\ runnerReqs' = RunnerState
  /\ finishedReqIds' = {}
  /\ UNCHANGED <<waiting, running, stepVars, preempted, prevScheduled, added, resets, config>>

StoppedReqs == {r \in Range(running) : KV!Stopped(r)}

\* update_from_output frees the requests that have stopped, in their order.
FinishStopped ==
  /\ phase = "update"
  /\ \E i \in DOMAIN running :
       /\ running[i] \in StoppedReqs
       /\ \A j \in 1 .. (i - 1) : running[j] \notin StoppedReqs
       /\ FreeRequest(running[i])
       /\ running' = Remove(running, running[i])
  /\ UNCHANGED <<phase, waiting, stepVars, preempted, prevScheduled, added,
                 runnerReqs, resets, config>>

\* A fault: a stopped request may be left in the running list.
EndUpdateEarly ==
  /\ phase = "update"
  /\ phase' = "idle"
  /\ UNCHANGED <<kvVars, waiting, running, stepVars, preempted, prevScheduled,
                 finishedReqIds, added, runnerReqs, resets, config>>

\* The step is over when all that stopped are freed.
EndUpdate ==
  /\ phase = "update" /\ StoppedReqs = {}
  /\ phase' = "idle"
  /\ UNCHANGED <<kvVars, waiting, running, stepVars, preempted, prevScheduled,
                 finishedReqIds, added, runnerReqs, resets, config>>

-----------------------------------------------------------------------------
(* reset_prefix_cache                                                      *)

StartReset ==
  /\ phase = "idle" /\ resets < MaxResets
  /\ resets' = resets + 1
  /\ phase' = "reset"
  /\ prevScheduled' = {}
  /\ UNCHANGED <<kvVars, waiting, running, stepVars, preempted, finishedReqIds,
                 added, runnerReqs, config>>

\* A fault: the running requests are preempted in their order.
PreemptForResetInOrder ==
  LET r == Head(running) IN
  /\ phase = "reset" /\ running # << >>
  /\ running' = Tail(running)
  /\ PreemptRequest(r)
  /\ UNCHANGED <<numTokens, numScheduled, content, phase, stepVars, prevScheduled,
                 finishedReqIds, added, runnerReqs, resets, config>>

\* With reset_running_requests, all running requests are preempted first.
PreemptForReset ==
  LET r == running[Len(running)] IN
  /\ phase = "reset" /\ running # << >>
  /\ running' = SubSeq(running, 1, Len(running) - 1)
  /\ PreemptRequest(r)
  /\ UNCHANGED <<numTokens, numScheduled, content, phase, stepVars, prevScheduled,
                 finishedReqIds, added, runnerReqs, resets, config>>

Reset ==
  /\ phase = "reset" /\ running = << >>
  /\ KV!CanResetPrefixCache(pool)
  /\ pool' = KV!ResetPrefixCache(pool)
  /\ phase' = "idle"
  /\ UNCHANGED <<reqBlocks, numCachedBlock, requestVars, content, waiting, running,
                 stepVars, preempted, prevScheduled, finishedReqIds, added,
                 runnerReqs, resets, config>>

\* Without reset_running_requests the cache is reset if no request holds a block.
ResetUnused ==
  /\ phase = "idle" /\ resets < MaxResets
  /\ resets' = resets + 1
  /\ pool' = IF KV!CanResetPrefixCache(pool) THEN KV!ResetPrefixCache(pool) ELSE pool
  /\ UNCHANGED <<reqBlocks, numCachedBlock, requestVars, content, phase, waiting, running,
                 stepVars, preempted, prevScheduled, finishedReqIds, added, runnerReqs, config>>

\* What the engine loop does by itself.
EngineLoop ==
  \/ StartSchedule \/ ScheduleRunning \/ PreemptVictim \/ EndRunning
  \/ ScheduleWaiting \/ EndWaiting
  \/ Execute \/ FinishStopped \/ EndUpdate
  \/ PreemptForReset \/ Reset

\* _process_input_queue waits when there is no work.
WaitForWork ==
  /\ phase = "idle" /\ finishedReqIds = {} /\ waiting = << >> /\ running = << >>
  /\ UNCHANGED vars

Next == \/ EngineLoop
        \/ \E r \in Requests : AddRequest(r) \/ Abort(r)
        \/ StartReset \/ ResetUnused
        \/ WaitForWork

\* The loop can go on: within a step it always can, or TLC would find a deadlock.
Busy == phase # "idle" \/ waiting # << >> \/ running # << >> \/ finishedReqIds # {}

\* run_busy_loop never stops, clients owe nothing: weak fairness of EngineLoop
\* with its enabling condition spelled out, which TLC would evaluate slowly.
Fairness == []<>~Busy \/ []<><<EngineLoop>>_vars

Spec == Init /\ [][Next]_vars /\ Fairness

-----------------------------------------------------------------------------
(* Properties                                                              *)

Occurrences(q, r) == Cardinality({i \in DOMAIN q : q[i] = r})

\* Type invariant; the locals of schedule() stay in their ranges.
TypeOK ==
  /\ phase \in {"idle", "running", "waiting", "execute", "update", "reset"}
  /\ Range(waiting) \subseteq Requests /\ Range(running) \subseteq Requests
  /\ reqIndex \in 1 .. (Len(running) + 1) \/ phase # "running"
  /\ tokenBudget \in 0 .. MaxScheduledTokens /\ numNewTokens \in 0 .. tokenBudget
  /\ preempted \subseteq added /\ newReqs \subseteq added
  /\ finishedReqIds \subseteq added /\ runnerReqs \subseteq added

\* No request is lost or queued twice, whatever is preempted, aborted, stopped
\* and reset: a request that has arrived and not finished is once in the queue
\* its status names, and a finished one in none; only those that run hold blocks
\* (so that reset_prefix_cache, once all are preempted, cannot fail).
QueuesExact ==
  \A r \in Requests :
    /\ Occurrences(running, r) = (IF status[r] = "running" THEN 1 ELSE 0)
    /\ Occurrences(waiting, r) =
         (IF status[r] = "waiting" /\ r \in added THEN 1 ELSE 0)
    /\ status[r] # "running" => reqBlocks[r] = << >>

\* First come, first served: the running requests followed by the waiting ones
\* are always in the order of arrival, since preemption takes from the end of
\* the one and puts at the front of the other ("Preempt in reverse order so the
\* requests will be added back to the running queue in FIFO order").
ArrivalOrder ==
  Policy = "fcfs" =>
    LET q == running \o waiting
    IN  \A i, j \in DOMAIN q : i < j => ArrivalTime[q[i]] < ArrivalTime[q[j]]

\* The assertions at the end of schedule(): the tokens scheduled and the budget
\* left add up, also when a victim that was scheduled is taken back, no more
\* requests run than may, and those scheduled are running.
BudgetExact ==
  /\ TypeOK
  /\ Len(running) <= MaxRunningReqs
  /\ phase \in {"running", "waiting", "execute"} =>
       /\ tokenBudget + MapThenSumSet(LAMBDA r : numScheduled[r], Requests) = MaxScheduledTokens
       /\ Scheduled \subseteq Range(running)

\* `assert not scheduled_in_prev_step` of _make_cached_request_data: a request
\* that is resumed was not scheduled in the step before.
ResumedAfterPause ==
  phase = "waiting" =>
    \A i \in reqIndex .. Len(running) :
      running[i] \in Scheduled \ newReqs => running[i] \notin prevScheduled

\* The runner's cached states follow the scheduler's messages: it has a state
\* for every request the step continues or resumes, none for those it is told
\* are new, and of finished requests only those it is about to be told of.
RunnerInSync ==
  /\ phase = "execute" => /\ Scheduled \ newReqs \subseteq runnerReqs \ finishedReqIds
                          /\ newReqs \cap (runnerReqs \ finishedReqIds) = {}
  /\ \A r \in runnerReqs : status[r] = "finished" => r \in finishedReqIds

\* Every request that arrives finishes: no preemption, reset or abort of others
\* starves it.
EventuallyFinished == \A r \in Requests : r \in added ~> status[r] = "finished"

\* What the manager relies on: the scheduler's steps are steps of the client
\* that KVCacheManager assumes, so that its theorems hold of this scheduler; the
\* PRIORITY policy, which preempts requests already scheduled, is no such client.
ManagerSpec ==
  KV!Init /\ [][Policy = "fcfs" /\ config.skipReading = {} => [KV!Next]_(KV!vars)]_vars

\* The KV that the running requests have computed is their own.
KVContentsCorrect == KV!KVContentsCorrect
=============================================================================
