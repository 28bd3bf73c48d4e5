---------------------------- MODULE DPCoordinator ----------------------------
(***************************************************************************)
(* The request waves of data parallel engines: DPEngineCoreProc of         *)
(* v1/engine/core.py, DPCoordinatorProc of v1/engine/coordinator.py and    *)
(* DPAsyncMPClient of v1/engine/core_client.py.                            *)
(*                                                                         *)
(* The experts of a mixture-of-experts model are spread over the engines,  *)
(* so that a forward pass is a collective of all engines: one that has     *)
(* requests needs the others to run dummy passes.  Engines run until an    *)
(* all-reduce every SyncEvery passes finds that none has requests left,    *)
(* and then pause; the coordinator wakes them when a request comes.        *)
(* Messages travel over sockets of their own, each in order, the sockets   *)
(* in any order.  Elastic scaling and the load statistics are left out.    *)
(***************************************************************************)
EXTENDS Integers, Sequences, FiniteSets, SequencesExt

CONSTANTS NumEngines, Frontends, Requests,
          Frontend,    \* [Requests -> Frontends], where a request comes in
          Passes,      \* forward passes a request needs
          SyncEvery    \* 32 in _has_global_unfinished_reqs

ASSUME DPAssumption ==
  /\ Frontend \in [Requests -> Frontends]
  /\ NumEngines \in Nat \ {0, 1} /\ Passes \in Nat \ {0} /\ SyncEvery \in Nat \ {0}

Engines == 0 .. (NumEngines - 1)
NoOne   == -1

\* Where a request is that no engine has.
AtClient == -3
OnItsWay == -2
Finished == -1

VARIABLES feWave, feRunning, \* a front end's current_wave and engines_running
          firstReq,          \* FIRST_REQ messages on their way to its stats task
          left,              \* passes a request still needs
          place,             \* AtClient, OnItsWay, the engine that has it, Finished
          wave, running,     \* current_wave and engines_running of an engine
          stepCounter, pc,
          unfinished,        \* local_unfinished_reqs, FALSE when it is not in use
          coord,             \* the coordinator's wave and engines_running
          addQueue,          \* addQueue[f][e]: requests on their way
          wakeQueue,         \* wakeQueue[e]: START_DP_WAVE messages
          frontQueue,        \* frontQueue[f]: messages of f to the coordinator
          backQueue,         \* backQueue[e]: messages of e to the coordinator
          stateQueue,        \* stateQueue[f]: published wave and running state
          pauses             \* history: how often the engines have paused

feVars     == <<feWave, feRunning, firstReq>>
engineVars == <<wave, running, stepCounter, pc, unfinished>>
vars == <<feVars, left, place, engineVars, coord, addQueue, wakeQueue, frontQueue,
          backQueue, stateQueue, pauses>>

Local(e) == {r \in Requests : place[r] = e}

Init ==
  /\ feWave = [f \in Frontends |-> 0] /\ feRunning = [f \in Frontends |-> FALSE]
  /\ firstReq = [f \in Frontends |-> 0]
  /\ left = [r \in Requests |-> Passes] /\ place = [r \in Requests |-> AtClient]
  /\ wave = [e \in Engines |-> 0] /\ running = [e \in Engines |-> FALSE]
  /\ stepCounter = [e \in Engines |-> 0] /\ pc = [e \in Engines |-> "input"]
  /\ unfinished = [e \in Engines |-> FALSE]
  /\ coord = [wave |-> 0, running |-> FALSE]
  /\ addQueue = [f \in Frontends |-> [e \in Engines |-> << >>]]
  /\ wakeQueue = [e \in Engines |-> << >>]
  /\ frontQueue = [f \in Frontends |-> << >>]
  /\ backQueue = [e \in Engines |-> << >>]
  /\ stateQueue = [f \in Frontends |-> << >>]
  /\ pauses = 0

-----------------------------------------------------------------------------
(* Front ends                                                              *)

\* add_request_async
AddRequestAsync(f, e, r) ==
  /\ f = Frontend[r] /\ place[r] = AtClient
  /\ place' = [place EXCEPT ![r] = OnItsWay]
  /\ addQueue' = [addQueue EXCEPT ![f][e] = Append(@, [req |-> r, wave |-> feWave[f]])]
  /\ firstReq' = [firstReq EXCEPT ![f] = IF feRunning[f] THEN @ ELSE @ + 1]
  /\ UNCHANGED <<feWave, feRunning, left, engineVars, coord, wakeQueue, frontQueue,
                 backQueue, stateQueue, pauses>>

\* The published states are drained, the last one counts.
TakeState(f, otherwise) ==
  LET s == stateQueue[f] IN
  /\ stateQueue' = [stateQueue EXCEPT ![f] = << >>]
  /\ feWave' = IF s = << >> THEN feWave ELSE [feWave EXCEPT ![f] = Last(s).wave]
  /\ feRunning' = [feRunning EXCEPT ![f] = IF s = << >> THEN otherwise ELSE Last(s).running]

HandlesFirstReq(f) == firstReq[f] > 0 /\ (stateQueue[f] = << >> \/ ~feRunning[f])

\* An iteration of run_engine_stats_update_task with a FIRST_REQ message: the
\* coordinator is told with the wave known now, then the states are drained.
FirstRequest(f) ==
  /\ HandlesFirstReq(f)
  /\ firstReq' = [firstReq EXCEPT ![f] = @ - 1]
  /\ frontQueue' = [frontQueue EXCEPT ![f] = Append(@, feWave[f])]
  /\ TakeState(f, TRUE)
  /\ UNCHANGED <<left, place, engineVars, coord, addQueue, wakeQueue, backQueue, pauses>>

\* An iteration without one.
UpdateState(f) ==
  /\ stateQueue[f] # << >> /\ ~HandlesFirstReq(f)
  /\ TakeState(f, feRunning[f])
  /\ UNCHANGED <<firstReq, left, place, engineVars, coord, addQueue, wakeQueue,
                 frontQueue, backQueue, pauses>>

-----------------------------------------------------------------------------
(* The coordinator                                                         *)

Publish(w, r) ==
  /\ coord' = [wave |-> w, running |-> r]
  /\ stateQueue' = [f \in Frontends |->
                      Append(stateQueue[f], [wave |-> w, running |-> r])]

\* _send_start_wave
SendStartWave(w, exclude) ==
  wakeQueue' = [e \in Engines |-> IF e = exclude THEN wakeQueue[e] ELSE Append(wakeQueue[e], w)]

\* A front end sends a request while it takes the engines for paused.  The
\* engine to exclude comes as the identity of its socket, which is the index of
\* no engine: all of them are woken.
FrontMessage(f) ==
  /\ frontQueue[f] # << >>
  /\ frontQueue' = [frontQueue EXCEPT ![f] = Tail(@)]
  /\ IF coord.running THEN UNCHANGED <<coord, stateQueue, wakeQueue>>
     ELSE Publish(coord.wave, TRUE) /\ SendStartWave(coord.wave, NoOne)
  /\ UNCHANGED <<feVars, left, place, engineVars, addQueue, backQueue, pauses>>

\* A fault: a wave that is over is not taken notice of while engines run.
CompletesPaused(w) == coord.wave <= w /\ ~coord.running

\* A wave that is not known to be over.
Completes(w) == coord.wave <= w

\* A wave ahead, or the current one, for which the engines pause.
Starts(w) == w > coord.wave \/ (w = coord.wave /\ ~coord.running)

\* wave_complete of engine 0, start_wave of the engine that got a stale request.
BackMessage(e) ==
  LET m == Head(backQueue[e]) IN
  /\ backQueue[e] # << >>
  /\ backQueue' = [backQueue EXCEPT ![e] = Tail(@)]
  /\ CASE m.complete /\ Completes(m.wave) ->
            Publish(m.wave + 1, FALSE) /\ UNCHANGED wakeQueue
       [] ~m.complete /\ Starts(m.wave) ->
            Publish(m.wave, TRUE) /\ SendStartWave(m.wave, e)
       [] OTHER -> UNCHANGED <<coord, stateQueue, wakeQueue>>
  /\ UNCHANGED <<feVars, left, place, engineVars, addQueue, frontQueue, pauses>>

-----------------------------------------------------------------------------
(* Engines                                                                 *)

Tell(e, complete, w) == backQueue' = [backQueue EXCEPT ![e] =
                                        Append(@, [complete |-> complete, wave |-> w])]

\* A fault: stale requests are taken without a word.
IsStaleNever(e, w) == FALSE

\* The request is for a wave that is over, and the engines pause.
IsStale(e, w) == w < wave[e] /\ ~running[e]

\* add_request
AddRequest(f, e) ==
  LET m == Head(addQueue[f][e]) IN
  /\ pc[e] = "input" /\ addQueue[f][e] # << >>
  /\ addQueue' = [addQueue EXCEPT ![f][e] = Tail(@)]
  /\ place' = [place EXCEPT ![m.req] = e]
  /\ wave' = [wave EXCEPT ![e] = IF m.wave > @ THEN m.wave ELSE @]
  /\ IF IsStale(e, m.wave) THEN Tell(e, FALSE, wave[e]) ELSE UNCHANGED backQueue
  /\ UNCHANGED <<feVars, left, running, stepCounter, pc, unfinished, coord, wakeQueue,
                 frontQueue, stateQueue, pauses>>

\* A fault: a message for a wave that is over starts the engine too.
WakesAlways(e, w) == TRUE

\* START_DP_WAVE counts if it is not for a wave that is over.
Wakes(e, w) == w >= wave[e]

StartDPWave(e) ==
  LET w == Head(wakeQueue[e]) IN
  /\ pc[e] = "input" /\ wakeQueue[e] # << >>
  /\ wakeQueue' = [wakeQueue EXCEPT ![e] = Tail(@)]
  /\ wave' = [wave EXCEPT ![e] = IF Wakes(e, w) THEN w ELSE @]
  /\ running' = [running EXCEPT ![e] = @ \/ Wakes(e, w)]
  /\ UNCHANGED <<feVars, left, place, stepCounter, pc, unfinished, coord, addQueue,
                 frontQueue, backQueue, stateQueue, pauses>>

\* _process_input_queue is left for a step of the scheduler or a dummy batch.
StartStep(e) ==
  /\ pc[e] = "input"
  /\ running[e] \/ Local(e) # {}
  /\ pc' = [pc EXCEPT ![e] = "forward"]
  /\ UNCHANGED <<feVars, left, place, wave, running, stepCounter, unfinished, coord,
                 addQueue, wakeQueue, frontQueue, backQueue, stateQueue, pauses>>

\* The pass is done when all engines are in it.
Forward ==
  /\ \A e \in Engines : pc[e] = "forward"
  /\ left' = [r \in Requests |-> IF place[r] \in Engines THEN left[r] - 1 ELSE left[r]]
  /\ place' = [r \in Requests |-> IF left'[r] = 0 THEN Finished ELSE place[r]]
  /\ pc' = [e \in Engines |-> "sync"]
  /\ unfinished' = [e \in Engines |-> \E r \in Requests : place'[r] = e]
  /\ UNCHANGED <<feVars, wave, running, stepCounter, coord, addQueue,
                 wakeQueue, frontQueue, backQueue, stateQueue, pauses>>

\* A fault: an engine that has requests left skips the all-reduce.
SyncsIfIdle(e, n) == n % SyncEvery = 0 /\ ~unfinished[e]

\* "only perform finish-sync all-reduce every 32 steps"
Syncs(e, n) == n % SyncEvery = 0

\* _has_global_unfinished_reqs without the all-reduce.
CountStep(e) ==
  LET n == stepCounter[e] + 1 IN
  /\ pc[e] = "sync"
  /\ stepCounter' = [stepCounter EXCEPT ![e] = n]
  /\ IF Syncs(e, n)
       THEN /\ pc' = [pc EXCEPT ![e] = "reduce"]
            /\ UNCHANGED <<running, unfinished>>
       ELSE /\ pc' = [pc EXCEPT ![e] = "input"]
            /\ running' = [running EXCEPT ![e] = TRUE]
            /\ unfinished' = [unfinished EXCEPT ![e] = FALSE]
  /\ UNCHANGED <<feVars, left, place, wave, coord, addQueue, wakeQueue,
                 frontQueue, backQueue, stateQueue, pauses>>

\* has_unfinished_dp when all engines are in it; without requests they pause, and
\* engine 0 tells the coordinator.
AllReduce ==
  LET any == \E e \in Engines : unfinished[e] IN
  /\ \A e \in Engines : pc[e] = "reduce"
  /\ running' = [e \in Engines |-> any]
  /\ pc' = [e \in Engines |-> "input"]
  /\ unfinished' = [e \in Engines |-> FALSE]
  /\ IF any THEN UNCHANGED <<wave, stepCounter, backQueue, pauses>>
     ELSE /\ Tell(0, TRUE, wave[0])
          /\ wave' = [e \in Engines |-> wave[e] + 1]
          /\ stepCounter' = [e \in Engines |-> 0]
          /\ pauses' = pauses + 1
  /\ UNCHANGED <<feVars, left, place, coord, addQueue, wakeQueue, frontQueue,
                 stateQueue>>

-----------------------------------------------------------------------------
\* What the tasks and processes do next, whichever message it is about.
StatsTask(f)      == FirstRequest(f) \/ UpdateState(f)
CoordinatorStep   == (\E f \in Frontends : FrontMessage(f)) \/ (\E e \in Engines : BackMessage(e))
ProcessInput(e)   == StartDPWave(e) \/ (\E f \in Frontends : AddRequest(f, e))
EngineStep(e)     == StartStep(e) \/ CountStep(e)
Collective        == Forward \/ AllReduce

\* Everyone waits for messages.
Wait == UNCHANGED vars

Next == \/ \E f \in Frontends, e \in Engines, r \in Requests : AddRequestAsync(f, e, r)
        \/ \E f \in Frontends : StatsTask(f)
        \/ CoordinatorStep
        \/ \E e \in Engines : ProcessInput(e) \/ EngineStep(e)
        \/ Collective
        \/ Wait

\* Every task and process goes on; an engine that has input again and again takes
\* it, since it empties its input queue before every step.
Fairness ==
  /\ \A f \in Frontends : WF_vars(StatsTask(f))
  /\ WF_vars(CoordinatorStep)
  /\ \A e \in Engines : WF_vars(EngineStep(e)) /\ SF_vars(ProcessInput(e))
  /\ WF_vars(Collective)

Spec == Init /\ [][Next]_vars /\ Fairness

-----------------------------------------------------------------------------
(* Properties                                                              *)

\* The engines take part in the same collective: none is in a forward pass while
\* another is in the all-reduce, which would leave both waiting for ever.
SameCollective ==
  \A d, e \in Engines : ~(pc[d] = "forward" /\ pc[e] = "reduce")

InFlight ==
  \/ \E f \in Frontends : firstReq[f] > 0 \/ frontQueue[f] # << >> \/ stateQueue[f] # << >>
  \/ \E e \in Engines : wakeQueue[e] # << >> \/ backQueue[e] # << >>
  \/ \E f \in Frontends, e \in Engines : addQueue[f][e] # << >>

\* "The global request wave number is a count of the number of times that the
\* workers collectively move from a running state to a paused state": at every
\* engine always, and when nothing is on its way and all engines pause,
\* coordinator and front ends know it, so that the next request wakes them.
PauseIsKnown ==
  /\ \A e \in Engines : wave[e] = pauses
  /\ ~InFlight /\ (\A e \in Engines : pc[e] = "input" /\ ~running[e] /\ Local(e) = {}) =>
       /\ coord = [wave |-> pauses, running |-> FALSE]
       /\ \A f \in Frontends : feWave[f] = pauses /\ ~feRunning[f]

\* Every request that is sent is served (there are finitely many): no
\* interleaving of requests, pauses and wake-ups leaves an engine alone in a
\* forward pass, or a request at an engine that is not woken.
RequestsServed == <>[](\A r \in Requests : place[r] \in {AtClient, Finished})

\* The engines do not run dummy batches for ever: when the requests are served
\* they pause, and no message on its way starts a wave for nothing.
EventuallyPaused == <>[](\A e \in Engines : ~running[e])
=============================================================================
