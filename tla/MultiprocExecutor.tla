-------------------------- MODULE MultiprocExecutor --------------------------
(***************************************************************************)
(* Remote calls of the engine on its workers: MultiprocExecutor of         *)
(* v1/executor/multiproc_executor.py.  collective_rpc broadcasts a call    *)
(* and takes the answers from one response queue per worker; nothing in an *)
(* answer says which call it is for.  Steps of the model (execute_model,   *)
(* sample_tokens) are answered by the output rank only and return futures; *)
(* utility calls of a client are answered by all ranks and wait.           *)
(*                                                                         *)
(* The message queues are the broadcast queues of module BroadcastQueue    *)
(* (implemented by ShmBroadcast) with RingSize slots.  A call is its       *)
(* number, an answer the number of the call it was computed for.           *)
(***************************************************************************)
EXTENDS Integers, Sequences, FiniteSets

CONSTANTS NumWorkers, OutputRank,
          FailingCalls, TimeoutCalls,  \* the kinds that may fail or time out
          Configs,         \* the configurations the engine may be started with
          MaxCalls         \* bound on the calls

Kinds   == {"step", "utility"}
Workers == 0 .. (NumWorkers - 1)

ASSUME ExecutorAssumption ==
  /\ NumWorkers \in Nat \ {0} /\ OutputRank \in Workers
  /\ Configs \subseteq [ringSize : Nat \ {0}, maxOutstanding : Nat \ {0},
                         asyncOutput : BOOLEAN, maxDeaths : Nat]
  /\ FailingCalls \subseteq Kinds /\ TimeoutCalls \subseteq Kinds /\ MaxCalls \in Nat

VARIABLES config,     \* one of Configs
          pc,         \* engine thread: "idle", "enqueue", "answer", "dead"
          call,       \* kind of the call being made
          sent,       \* kinds of the calls broadcast; its index is its number
          taken,      \* taken[w]: calls worker w has dequeued
          output,     \* output[w]: answers on their way to the response queue
          response,   \* response[w]: the response queue of w
          futures,    \* futures_queue, oldest first
          batches,    \* calls of the steps in the engine's batch queue
          answering,  \* calls to be answered now, in turn
          got,        \* answers taken for the first of them
          result,     \* result[c]: << >> or the answers of call c, or an error
          alive, isFailed, shutdownEvent

RingSize       == config.ringSize        \* max_chunks of a message queue
MaxOutstanding == config.maxOutstanding  \* futures the engine lets pend
AsyncOutput    == config.asyncOutput     \* use_async_scheduling
MaxDeaths      == config.maxDeaths       \* bound on workers that die by themselves

callVars   == <<pc, call, futures, batches, answering, got, result>>
workerVars == <<taken, output, response>>
failVars   == <<alive, isFailed, shutdownEvent>>
vars       == <<config, callVars, sent, workerVars, failVars>>

NoResult == << >>
Error    == <<0>>     \* no call has number 0

Init ==
  /\ config \in Configs
  /\ pc = "idle" /\ call = "step" /\ sent = << >>
  /\ taken = [w \in Workers |-> 0]
  /\ output = [w \in Workers |-> << >>]
  /\ response = [w \in Workers |-> << >>]
  /\ futures = << >> /\ batches = << >> /\ answering = << >> /\ got = << >>
  /\ result = [c \in 1 .. MaxCalls |-> NoResult]
  /\ alive = Workers /\ isFailed = FALSE /\ shutdownEvent = FALSE

\* The ranks that answer a call, in the order they are asked.
Ranks(kind) == IF kind = "step" THEN <<OutputRank>>
               ELSE [i \in 1 .. NumWorkers |-> i - 1]

-----------------------------------------------------------------------------
(* The engine thread                                                       *)

\* A fault: the batch queue takes one step too many.
MayCallOneMore(kind) == kind = "step" => Len(batches) <= MaxOutstanding

\* A utility call may come at any time, a step only when the batch queue has room.
MayCall(kind) == kind = "step" => Len(batches) < MaxOutstanding

\* collective_rpc up to the broadcast; a failed executor makes it raise, which
\* ends the engine in a step and is reported to the client of a utility call.
CollectiveRpc(kind) ==
  /\ pc = "idle" /\ Len(sent) < MaxCalls
  /\ MayCall(kind)
  /\ call' = kind
  /\ pc' = IF ~isFailed THEN "enqueue" ELSE IF kind = "step" THEN "dead" ELSE "idle"
  /\ UNCHANGED <<sent, futures, batches, answering, got, result, workerVars, failVars, config>>

\* A fault: the answers to a waiting call are taken before those of the futures.
DrainLater(c) == <<c>> \o futures

\* The futures that pend are drained before the answers of a waiting call.
DrainFirst(c) == futures \o <<c>>

\* The ring has a slot that all workers have read.
HasSlot == \A w \in Workers : Len(sent) - taken[w] < RingSize

\* rpc_broadcast_mq.enqueue waits for a slot, without a timeout and without
\* looking at the shutdown event; a step is done with it, a waiting call not.
Enqueue ==
  LET c == Len(sent) + 1 IN
  /\ pc = "enqueue"
  /\ HasSlot
  /\ sent' = Append(sent, call)
  /\ IF call = "step"
       THEN /\ pc' = "idle"
            /\ futures' = Append(futures, c) /\ batches' = Append(batches, c)
            /\ UNCHANGED answering
       ELSE /\ pc' = "answer"
            /\ answering' = DrainFirst(c) /\ futures' = << >>
            /\ UNCHANGED batches
  /\ UNCHANGED <<call, got, result, workerVars, failVars, config>>

\* batch_queue.pop() and future.result(): the futures up to it are drained.  It
\* may have been drained by a utility call, and then it is looked at as it is.
FutureResult ==
  LET c == Head(batches) IN
  /\ pc = "idle" /\ batches # << >>
  /\ batches' = Tail(batches)
  /\ IF result[c] = NoResult
       THEN /\ pc' = "answer" /\ call' = "step"
            /\ answering' = <<c>> /\ futures' = Tail(futures)
       ELSE /\ pc' = IF result[c] = Error THEN "dead" ELSE "idle"
            /\ UNCHANGED <<call, answering, futures>>
  /\ UNCHANGED <<sent, got, result, workerVars, failVars, config>>

\* The first call of answering is settled; after the last one the caller goes
\* on, and a step that has failed ends the engine.
Settle(value) ==
  /\ result' = [result EXCEPT ![Head(answering)] = value]
  /\ got' = << >>
  /\ answering' = Tail(answering)
  /\ pc' = IF Tail(answering) # << >> THEN "answer"
           ELSE IF call = "step" /\ value = Error THEN "dead" ELSE "idle"
  /\ UNCHANGED <<call, sent, futures, batches, taken, output, failVars, config>>

\* The response queue get_response is waiting on.
AskedRank == Ranks(sent[Head(answering)])[Len(got) + 1]

\* mq.dequeue returns an answer; an answer that is an error ends the call.
TakeResponse ==
  LET w == AskedRank
      a == Head(response[w])
  IN  /\ pc = "answer" /\ response[w] # << >>
      /\ response' = [response EXCEPT ![w] = Tail(@)]
      /\ IF ~a.ok THEN Settle(Error)
         ELSE IF Len(got) + 1 = Len(Ranks(sent[Head(answering)]))
           THEN Settle(Append(got, a.call))
           ELSE /\ got' = Append(got, a.call)
                /\ UNCHANGED <<pc, call, sent, futures, batches, answering, result,
                               taken, output, failVars, config>>

\* A fault: the shutdown event is not looked at.
GivesUpAtTimeout(c) == sent[c] \in TimeoutCalls

\* The deadline has passed, or the executor is shut down.
GivesUp(c) == shutdownEvent \/ sent[c] \in TimeoutCalls

\* mq.dequeue raises TimeoutError or "cancelled".
DequeueRaises ==
  /\ pc = "answer" /\ response[AskedRank] = << >>
  /\ GivesUp(Head(answering))
  /\ Settle(Error)
  /\ UNCHANGED response

\* EXECUTOR_FAILED from the input queue.
ExecutorFailed ==
  /\ pc = "idle" /\ shutdownEvent
  /\ pc' = "dead"
  /\ UNCHANGED <<call, futures, batches, answering, got, result, sent, workerVars, failVars, config>>

-----------------------------------------------------------------------------
(* Workers                                                                 *)

\* output_rank is None or the worker's rank.
Replies(w, kind) == kind = "utility" \/ w = OutputRank

\* The ranks meet in the collectives of a step, so that its output needs all.
CollectivesDone(w, c) ==
  sent[c] = "step" /\ w = OutputRank => \A v \in Workers \ {w} : taken[v] >= c

\* Without the output thread the worker is in the response queue's enqueue until
\* that has a slot.
OutputTaken(w) == AsyncOutput \/ output[w] = << >>

\* An iteration of worker_busy_loop: the call is dequeued and run, it may raise,
\* and its output is handed on.
WorkerBusyLoop(w) ==
  LET c == taken[w] + 1 IN
  /\ w \in alive /\ taken[w] < Len(sent)
  /\ OutputTaken(w)
  /\ CollectivesDone(w, c)
  /\ taken' = [taken EXCEPT ![w] = c]
  /\ \E ok \in {TRUE} \cup {sent[c] \notin FailingCalls} :
       output' = IF Replies(w, sent[c])
                   THEN [output EXCEPT ![w] = Append(@, [call |-> c, ok |-> ok])]
                   ELSE output
  /\ UNCHANGED <<callVars, sent, response, failVars, config>>

\* enqueue_output, by the worker or by its output thread.
EnqueueOutput(w) ==
  /\ w \in alive /\ output[w] # << >>
  /\ Len(response[w]) < RingSize
  /\ response' = [response EXCEPT ![w] = Append(@, Head(output[w]))]
  /\ output' = [output EXCEPT ![w] = Tail(@)]
  /\ UNCHANGED <<callVars, sent, taken, failVars, config>>

WorkerDies(w) ==
  /\ w \in alive /\ Cardinality(Workers \ alive) < MaxDeaths /\ ~isFailed
  /\ alive' = alive \ {w}
  /\ UNCHANGED <<callVars, sent, workerVars, isFailed, shutdownEvent, config>>

\* monitor_workers notices,
MonitorWorkers ==
  /\ alive # Workers /\ ~isFailed
  /\ isFailed' = TRUE
  /\ UNCHANGED <<callVars, sent, workerVars, alive, shutdownEvent, config>>

\* ends the other workers, sets the event and calls the failure callback.
Shutdown ==
  /\ isFailed /\ ~shutdownEvent
  /\ alive' = {} /\ shutdownEvent' = TRUE
  /\ UNCHANGED <<callVars, sent, workerVars, isFailed, config>>

-----------------------------------------------------------------------------
EngineStep == Enqueue \/ FutureResult \/ TakeResponse \/ DequeueRaises \/ ExecutorFailed
WorkerStep(w) == WorkerBusyLoop(w) \/ EnqueueOutput(w)

\* Whoever waits for a queue spins, and between calls the engine waits.
Spin == UNCHANGED vars

Next == \/ \E kind \in Kinds : CollectiveRpc(kind)
        \/ EngineStep
        \/ \E w \in Workers : WorkerStep(w) \/ WorkerDies(w)
        \/ MonitorWorkers \/ Shutdown
        \/ Spin

\* Threads and processes run as long as they live; a call of a worker returns.
Fairness ==
  /\ WF_vars(EngineStep)
  /\ \A w \in Workers : WF_vars(WorkerBusyLoop(w)) /\ WF_vars(EnqueueOutput(w))
  /\ WF_vars(MonitorWorkers) /\ WF_vars(Shutdown)

Spec == Init /\ [][Next]_vars /\ Fairness

-----------------------------------------------------------------------------
(* Properties                                                              *)

\* Type invariant; the rings and the batch queue keep to their sizes.
TypeOK ==
  /\ pc \in {"idle", "enqueue", "answer", "dead"} /\ call \in Kinds
  /\ \A w \in Workers : /\ taken[w] \in 0 .. Len(sent)
                        /\ Len(sent) - taken[w] <= RingSize
                        /\ Len(response[w]) <= RingSize
  /\ Len(batches) <= MaxOutstanding

\* "A list containing the results from each worker": the answers a call returns
\* were computed for that call, whatever was called, failed or gave up before.
AnswersOwnCall ==
  /\ TypeOK
  /\ \A c \in DOMAIN result :
       result[c] \notin {NoResult, Error} =>
         result[c] = [i \in DOMAIN Ranks(sent[c]) |-> c]

\* Every call comes back, with a result or an error: engine and workers never
\* wait for each other's queues, and no death of a worker leaves a call waiting.
CallsReturn == pc \in {"enqueue", "answer"} ~> pc \in {"idle", "dead"}

\* "If any die unexpectedly, logs an error, shuts down the executor and invokes
\* the failure callback to inform the engine": it ends.
EngineInformed == alive # Workers ~> pc = "dead"
=============================================================================
