------------------------ MODULE DPCoordinatorProofs ------------------------
(***************************************************************************)
(* For every number of engines, front ends and requests: engines always    *)
(* meet in the same collective (SameCollective), and their waves count the *)
(* pauses, which coordinator and front ends get to know (PauseIsKnown).    *)
(*                                                                         *)
(* SameCollective rests on the step counters, which advance in lockstep    *)
(* although every engine counts for itself (InLockstep).  PauseIsKnown     *)
(* rests on what the messages on their way still have to say: no message   *)
(* is ahead of the pauses (NoWaveAhead), a pause that the coordinator does *)
(* not know is reported to it (PauseReported), it takes the engines for    *)
(* running only if one is or is being woken (RunningForAReason), and a     *)
(* front end has its view or is being sent it (ViewsFollow).               *)
(***************************************************************************)
EXTENDS DPCoordinator, SequenceTheorems, TLAPS

AddMessage  == [req : Requests, wave : Nat]
BackMsg     == [complete : BOOLEAN, wave : Nat]
State       == [wave : Nat, running : BOOLEAN]

TypeInv ==
  /\ feWave \in [Frontends -> Nat] /\ feRunning \in [Frontends -> BOOLEAN]
  /\ place \in [Requests -> Int]
  /\ wave \in [Engines -> Nat] /\ running \in [Engines -> BOOLEAN]
  /\ stepCounter \in [Engines -> Nat]
  /\ pc \in [Engines -> {"input", "forward", "sync", "reduce"}]
  /\ coord \in State
  /\ addQueue \in [Frontends -> [Engines -> Seq(AddMessage)]]
  /\ wakeQueue \in [Engines -> Seq(Nat)]
  /\ frontQueue \in [Frontends -> Seq(Nat)]
  /\ backQueue \in [Engines -> Seq(BackMsg)]
  /\ stateQueue \in [Frontends -> Seq(State)]
  /\ pauses \in Nat

\* The steps an engine has counted, with the one it is about to count.
Counted(e) == IF pc[e] = "sync" THEN stepCounter[e] + 1 ELSE stepCounter[e]

\* All engines have counted the same steps; an engine is in the all-reduce only
\* when they are a multiple of SyncEvery, and beyond it only when they are not,
\* unless the others are there too.
InLockstep ==
  \A d, e \in Engines :
    /\ Counted(d) = Counted(e)
    /\ pc[e] = "reduce" => Counted(e) % SyncEvery = 0
    /\ pc[d] \in {"sync", "reduce"} /\ pc[e] \in {"input", "forward"} =>
         Counted(e) % SyncEvery # 0

\* Engines count the pauses, and nobody and no message is ahead of them.
NoWaveAhead ==
  /\ \A e \in Engines : wave[e] = pauses
  /\ coord.wave \in 0 .. pauses
  /\ \A f \in Frontends : feWave[f] \in 0 .. pauses
  /\ \A f \in Frontends, e \in Engines : \A m \in Range(addQueue[f][e]) : m.wave \in 0 .. pauses
  /\ \A e \in Engines : \A w \in Range(wakeQueue[e]) : w \in 0 .. pauses
  /\ \A f \in Frontends : \A s \in Range(stateQueue[f]) : s.wave \in 0 .. pauses
  /\ \A e \in Engines : \A m \in Range(backQueue[e]) :
       m.wave \in 0 .. pauses /\ (m.complete => m.wave < pauses)

\* A request is on its way in one message only, and has passes left until it is
\* finished.
Reqs(s)  == {m.req : m \in Range(s)}
NoDup(s) == \A i, j \in DOMAIN s : s[i].req = s[j].req => i = j
SentOnce ==
  /\ \A f \in Frontends, e \in Engines :
       /\ NoDup(addQueue[f][e])
       /\ \A r \in Reqs(addQueue[f][e]) : place[r] = OnItsWay
       /\ \A g \in Frontends, d \in Engines :
            \A r \in Reqs(addQueue[f][e]) \cap Reqs(addQueue[g][d]) : f = g /\ e = d
  /\ left \in [Requests -> Nat]
  /\ \A r \in Requests : place[r] # Finished => left[r] > 0

\* The coordinator knows the last pause, or engine 0's message about it is on its way.
PauseReported ==
  \/ coord.wave = pauses
  \/ \E m \in Range(backQueue[0]) : m.complete /\ m.wave = pauses - 1

\* The engine is in a wave, or will not get out of its loop without one.
Active(e) == running[e] \/ pc[e] # "input" \/ Local(e) # {}

\* If the coordinator takes the engines for running in this wave, one is in it or
\* being woken for it; and an engine that asked for the wave is still in it.
RunningForAReason ==
  /\ coord.running /\ coord.wave = pauses =>
       \E e \in Engines : Active(e) \/ pauses \in Range(wakeQueue[e])
  /\ \A e \in Engines : \A m \in Range(backQueue[e]) :
       ~m.complete /\ m.wave = pauses => Active(e)

\* A front end's view is the coordinator's, or will be by the last message; that
\* it takes the engines for running may also be its own doing.
ViewsFollow ==
  \A f \in Frontends :
    IF stateQueue[f] = << >>
      THEN /\ feWave[f] = coord.wave
           /\ feRunning[f] => coord.running \/ frontQueue[f] # << >>
      ELSE Last(stateQueue[f]) = coord

IInv ==
  /\ TypeInv /\ InLockstep /\ NoWaveAhead /\ SentOnce /\ PauseReported
  /\ RunningForAReason /\ ViewsFollow

-----------------------------------------------------------------------------
(* Queues                                                                  *)

\* What sending does to a queue.
LEMMA AppendQueue ==
  ASSUME NEW S, NEW s \in Seq(S), NEW x \in S
  PROVE  /\ Append(s, x) \in Seq(S) /\ Append(s, x) # << >>
         /\ Range(Append(s, x)) = Range(s) \cup {x}
         /\ Last(Append(s, x)) = x
<1>1. /\ Append(s, x) \in Seq(S) /\ Append(s, x) # << >>
      /\ Len(Append(s, x)) = Len(s) + 1
      /\ \A i \in 1 .. Len(s) : Append(s, x)[i] = s[i]
      /\ Append(s, x)[Len(s) + 1] = x
  BY AppendProperties
<1>2. /\ Len(s) \in Nat /\ DOMAIN s = 1 .. Len(s)
      /\ DOMAIN Append(s, x) = 1 .. (Len(s) + 1)
  BY <1>1, LenProperties
<1> QED BY <1>1, <1>2 DEF Range, Last

\* What receiving does to it.
LEMMA TailQueue ==
  ASSUME NEW S, NEW s \in Seq(S), s # << >>
  PROVE  /\ Tail(s) \in Seq(S) /\ Head(s) \in S
         /\ Range(s) = Range(Tail(s)) \cup {Head(s)}
         /\ Last(s) \in S /\ Last(s) \in Range(s)
<1>1. /\ Tail(s) \in Seq(S) /\ Head(s) \in S
      /\ Len(Tail(s)) = Len(s) - 1
      /\ \A i \in 1 .. Len(Tail(s)) : Tail(s)[i] = s[i + 1]
  BY HeadTailProperties
<1>2. /\ Len(s) \in Nat /\ Len(s) # 0 /\ DOMAIN s = 1 .. Len(s) /\ Head(s) = s[1]
      /\ DOMAIN Tail(s) = 1 .. (Len(s) - 1)
  BY <1>1, EmptySeq, LenProperties
<1>3. \A i \in 1 .. Len(s) : i = 1 \/ (i - 1 \in 1 .. (Len(s) - 1) /\ Tail(s)[i - 1] = s[i])
  BY <1>1, <1>2
<1>4. \A i \in 1 .. (Len(s) - 1) : i + 1 \in 1 .. Len(s) /\ Tail(s)[i] = s[i + 1]
  BY <1>1, <1>2
<1>5. Range(s) = Range(Tail(s)) \cup {Head(s)}
  <2>1. ASSUME NEW x \in Range(s) PROVE x \in Range(Tail(s)) \cup {Head(s)}
    <3>1. PICK i \in 1 .. Len(s) : x = s[i]
      BY <1>2 DEF Range
    <3> QED BY <3>1, <1>2, <1>3 DEF Range
  <2>2. Range(Tail(s)) \subseteq Range(s)
    BY <1>2, <1>4 DEF Range
  <2>3. Head(s) \in Range(s)
    BY <1>2 DEF Range
  <2> QED BY <2>1, <2>2, <2>3
<1>6. Len(s) \in DOMAIN s /\ s[Len(s)] \in S
  BY <1>2, ElementOfSeq
<1> QED BY <1>1, <1>5, <1>6 DEF Range, Last

\* There is an engine 0, and the constants are numbers.
LEMMA ConstantFacts ==
  /\ 0 \in Engines /\ Engines \subseteq Nat /\ NoOne \notin Engines
  /\ SyncEvery \in Nat \ {0} /\ Frontend \in [Requests -> Frontends]
BY DPAssumption DEF Engines, NoOne

-----------------------------------------------------------------------------
(* Types                                                                   *)

\* Every step keeps the types.
LEMMA TypeNext ==
  ASSUME TypeInv, Next
  PROVE  TypeInv'
<1> USE DEF TypeInv
<1>1. ASSUME NEW f \in Frontends, NEW e \in Engines, NEW r \in Requests, AddRequestAsync(f, e, r)
      PROVE  TypeInv'
  <2>1. [req |-> r, wave |-> feWave[f]] \in AddMessage
    BY DEF AddMessage
  <2>2. Append(addQueue[f][e], [req |-> r, wave |-> feWave[f]]) \in Seq(AddMessage)
    BY <2>1, AppendQueue
  <2>3. addQueue' \in [Frontends -> [Engines -> Seq(AddMessage)]]
    BY <1>1, <2>2 DEF AddRequestAsync
  <2>4. place' \in [Requests -> Int]
    BY <1>1 DEF AddRequestAsync, OnItsWay
  <2> QED BY <1>1, <2>3, <2>4 DEF AddRequestAsync, engineVars
<1>2. ASSUME NEW f \in Frontends, FirstRequest(f)
      PROVE  TypeInv'
  <2>1. Append(frontQueue[f], feWave[f]) \in Seq(Nat)
    BY AppendQueue
  <2>2. stateQueue[f] # << >> => Last(stateQueue[f]) \in State
    BY TailQueue
  <2>3. << >> \in Seq(State)
    BY EmptySeq
  <2> QED BY <1>2, <2>1, <2>2, <2>3 DEF FirstRequest, TakeState, engineVars, State
<1>3. ASSUME NEW f \in Frontends, UpdateState(f)
      PROVE  TypeInv'
  <2>2. stateQueue[f] # << >> => Last(stateQueue[f]) \in State
    BY TailQueue
  <2>3. << >> \in Seq(State)
    BY EmptySeq
  <2> QED BY <1>3, <2>2, <2>3 DEF UpdateState, TakeState, engineVars, State
<1>4. ASSUME NEW w \in Nat, NEW x \in BOOLEAN, Publish(w, x)
      PROVE  coord' \in State /\ stateQueue' \in [Frontends -> Seq(State)]
  <2>1. [wave |-> w, running |-> x] \in State
    BY DEF State
  <2>2. \A g \in Frontends : Append(stateQueue[g], [wave |-> w, running |-> x]) \in Seq(State)
    BY <2>1, AppendQueue
  <2> QED BY <1>4, <2>1, <2>2 DEF Publish
<1>5. ASSUME NEW w \in Nat, NEW x, SendStartWave(w, x)
      PROVE  wakeQueue' \in [Engines -> Seq(Nat)]
  <2>1. \A e \in Engines : Append(wakeQueue[e], w) \in Seq(Nat)
    BY AppendQueue
  <2> QED BY <1>5, <2>1 DEF SendStartWave
<1>6. coord.wave \in Nat /\ coord.running \in BOOLEAN
  BY DEF State
<1>7. ASSUME NEW f \in Frontends, FrontMessage(f)
      PROVE  TypeInv'
  <2>1. Tail(frontQueue[f]) \in Seq(Nat)
    BY <1>7, TailQueue DEF FrontMessage
  <2>2. coord' \in State /\ stateQueue' \in [Frontends -> Seq(State)] /\ wakeQueue' \in [Engines -> Seq(Nat)]
    BY <1>7, <1>4, <1>5, <1>6 DEF FrontMessage
  <2> QED BY <1>7, <2>1, <2>2 DEF FrontMessage, feVars, engineVars
<1>8. ASSUME NEW e \in Engines, BackMessage(e)
      PROVE  TypeInv'
  <2> DEFINE m == Head(backQueue[e])
  <2>1. Tail(backQueue[e]) \in Seq(BackMsg) /\ m \in BackMsg
    BY <1>8, TailQueue DEF BackMessage
  <2>2. m.wave \in Nat /\ m.wave + 1 \in Nat
    BY <2>1 DEF BackMsg
  <2>3. \/ Publish(m.wave + 1, FALSE) /\ UNCHANGED wakeQueue
        \/ Publish(m.wave, TRUE) /\ SendStartWave(m.wave, e)
        \/ UNCHANGED <<coord, stateQueue, wakeQueue>>
    BY <1>8 DEF BackMessage
  <2> HIDE DEF m
  <2>4. coord' \in State /\ stateQueue' \in [Frontends -> Seq(State)] /\ wakeQueue' \in [Engines -> Seq(Nat)]
    BY <2>2, <2>3, <1>4, <1>5
  <2> QED BY <1>8, <2>1, <2>4 DEF BackMessage, feVars, engineVars
<1>9. ASSUME NEW e \in Engines, NEW c \in BOOLEAN, NEW w \in Nat, Tell(e, c, w)
      PROVE  backQueue' \in [Engines -> Seq(BackMsg)]
  <2>1. [complete |-> c, wave |-> w] \in BackMsg
    BY DEF BackMsg
  <2>2. Append(backQueue[e], [complete |-> c, wave |-> w]) \in Seq(BackMsg)
    BY <2>1, AppendQueue
  <2> QED BY <1>9, <2>2 DEF Tell
<1>10. ASSUME NEW f \in Frontends, NEW e \in Engines, AddRequest(f, e)
       PROVE  TypeInv'
  <2> DEFINE m == Head(addQueue[f][e])
  <2>1. Tail(addQueue[f][e]) \in Seq(AddMessage) /\ m \in AddMessage
    BY <1>10, TailQueue DEF AddRequest
  <2>2. m.wave \in Nat /\ m.req \in Requests
    BY <2>1 DEF AddMessage
  <2>3. addQueue' \in [Frontends -> [Engines -> Seq(AddMessage)]]
    BY <1>10, <2>1 DEF AddRequest
  <2>4. place' \in [Requests -> Int]
    <3>1. e \in Int
      BY ConstantFacts
    <3> QED BY <1>10, <2>2, <3>1 DEF AddRequest
  <2>5. wave' \in [Engines -> Nat]
    BY <1>10, <2>2 DEF AddRequest
  <2>6. backQueue' \in [Engines -> Seq(BackMsg)]
    BY <1>10, <1>9 DEF AddRequest
  <2> QED BY <1>10, <2>3, <2>4, <2>5, <2>6 DEF AddRequest, feVars
<1>11. ASSUME NEW e \in Engines, StartDPWave(e)
       PROVE  TypeInv'
  <2>1. Tail(wakeQueue[e]) \in Seq(Nat) /\ Head(wakeQueue[e]) \in Nat
    BY <1>11, TailQueue DEF StartDPWave
  <2>2. running' \in [Engines -> BOOLEAN]
    <3>1. (running[e] \/ Wakes(e, Head(wakeQueue[e]))) \in BOOLEAN
      OBVIOUS
    <3> QED BY <1>11, <3>1, Zenon DEF StartDPWave
  <2> QED BY <1>11, <2>1, <2>2 DEF StartDPWave, feVars
<1>12. ASSUME NEW e \in Engines, StartStep(e)
       PROVE  TypeInv'
  BY <1>12 DEF StartStep, feVars
<1>13. ASSUME NEW e \in Engines, CountStep(e)
       PROVE  TypeInv'
  <2>1. /\ stepCounter' \in [Engines -> Nat] /\ running' \in [Engines -> BOOLEAN]
        /\ pc' \in [Engines -> {"input", "forward", "sync", "reduce"}]
    <3>1. stepCounter' \in [Engines -> Nat]
      BY <1>13 DEF CountStep
    <3>2. pc' \in [Engines -> {"input", "forward", "sync", "reduce"}]
      BY <1>13 DEF CountStep, Syncs
    <3>3. running' = running \/ running' = [running EXCEPT ![e] = TRUE]
      BY <1>13 DEF CountStep, Syncs
    <3> QED BY <3>1, <3>2, <3>3
  <2> QED BY <1>13, <2>1 DEF CountStep, feVars
<1>14. ASSUME Forward
       PROVE  TypeInv'
  <2>1. place' \in [Requests -> Int]
    BY <1>14 DEF Forward, Finished
  <2> QED BY <1>14, <2>1 DEF Forward, feVars
<1>15. ASSUME AllReduce
       PROVE  TypeInv'
  <2>1. running' \in [Engines -> BOOLEAN]
    <3>1. (\E e \in Engines : unfinished[e]) \in BOOLEAN
      OBVIOUS
    <3> QED BY <1>15, <3>1, Zenon DEF AllReduce
  <2>2. Tell(0, TRUE, wave[0]) => backQueue' \in [Engines -> Seq(BackMsg)]
    BY <1>9, ConstantFacts
  <2>3. /\ backQueue' \in [Engines -> Seq(BackMsg)] /\ wave' \in [Engines -> Nat]
        /\ stepCounter' \in [Engines -> Nat] /\ pauses' \in Nat
    <3>1. CASE \E e \in Engines : unfinished[e]
      BY <1>15, <3>1 DEF AllReduce
    <3>2. CASE ~\E e \in Engines : unfinished[e]
      BY <1>15, <2>2, <3>2 DEF AllReduce
    <3> QED BY <3>1, <3>2
  <2>4. pc' \in [Engines -> {"input", "forward", "sync", "reduce"}]
    BY <1>15 DEF AllReduce
  <2> QED BY <1>15, <2>1, <2>3, <2>4 DEF AllReduce, feVars
<1>16. CASE Wait
  BY <1>16 DEF Wait, vars, feVars, engineVars
<1> QED
  BY <1>1, <1>2, <1>3, <1>7, <1>8, <1>10, <1>11, <1>12, <1>13, <1>14, <1>15, <1>16
  DEF Next, StatsTask, CoordinatorStep, ProcessInput, EngineStep, Collective

-----------------------------------------------------------------------------
(* Collectives                                                             *)

\* Engines stay in lockstep.
LEMMA LockstepNext ==
  ASSUME TypeInv, InLockstep, Next
  PROVE  InLockstep'
<1> USE DEF InLockstep, Counted, TypeInv
<1>1. ASSUME NEW e \in Engines, StartStep(e)
      PROVE  InLockstep'
  BY <1>1 DEF StartStep
<1>2. ASSUME NEW e \in Engines, CountStep(e)
      PROVE  InLockstep'
  <2> DEFINE n == stepCounter[e] + 1
  <2>1. /\ pc[e] = "sync" /\ stepCounter' = [stepCounter EXCEPT ![e] = n]
        /\ pc' = [pc EXCEPT ![e] = IF n % SyncEvery = 0 THEN "reduce" ELSE "input"]
    BY <1>2 DEF CountStep, Syncs
  <2>2. \A d \in Engines : Counted(d)' = Counted(d)
    BY <2>1
  <2>3. Counted(e) = n
    BY <2>1
  <2>4. \A d \in Engines : Counted(d) = n
    BY <2>3
  <2> HIDE DEF Counted, n
  <2> QED BY <2>1, <2>2, <2>4
<1>3. ASSUME Forward
      PROVE  InLockstep'
  BY <1>3 DEF Forward
<1>4. ASSUME AllReduce
      PROVE  InLockstep'
  <2>1. CASE \E e \in Engines : unfinished[e]
    BY <1>4, <2>1 DEF AllReduce
  <2>2. CASE ~\E e \in Engines : unfinished[e]
    BY <1>4, <2>2 DEF AllReduce
  <2> QED BY <2>1, <2>2
<1>5. CASE UNCHANGED <<pc, stepCounter>>
  BY <1>5
<1>6. ASSUME NEW f \in Frontends,
             \/ FirstRequest(f) \/ UpdateState(f) \/ FrontMessage(f)
             \/ \E e \in Engines : AddRequest(f, e) \/ \E r \in Requests : AddRequestAsync(f, e, r)
      PROVE  UNCHANGED <<pc, stepCounter>>
  BY <1>6 DEF AddRequestAsync, FirstRequest, UpdateState, FrontMessage, AddRequest, engineVars
<1>7. ASSUME NEW e \in Engines, BackMessage(e) \/ StartDPWave(e)
      PROVE  UNCHANGED <<pc, stepCounter>>
  BY <1>7 DEF BackMessage, StartDPWave, engineVars
<1>8. Wait => UNCHANGED <<pc, stepCounter>>
  BY DEF Wait, vars, engineVars
<1> QED
  BY <1>1, <1>2, <1>3, <1>4, <1>5, <1>6, <1>7, <1>8
  DEF Next, StatsTask, CoordinatorStep, ProcessInput, EngineStep, Collective

-----------------------------------------------------------------------------
(* Waves                                                                   *)

\* What the coordinator's messages put into the queues.
LEMMA PublishQueues ==
  ASSUME TypeInv, NEW w \in Nat, NEW x \in BOOLEAN, Publish(w, x)
  PROVE  /\ coord' = [wave |-> w, running |-> x] /\ coord'.wave = w /\ coord'.running = x
         /\ \A f \in Frontends : /\ stateQueue'[f] # << >>
                                  /\ Last(stateQueue'[f]) = coord'
                                  /\ Range(stateQueue'[f]) = Range(stateQueue[f]) \cup {coord'}
<1> DEFINE c == [wave |-> w, running |-> x]
<1>1. c \in State
  BY DEF State
<1>2. coord' = c /\ \A f \in Frontends : stateQueue'[f] = Append(stateQueue[f], c)
  BY DEF Publish
<1>3. \A f \in Frontends : stateQueue[f] \in Seq(State)
  BY DEF TypeInv
<1>4. \A f \in Frontends : /\ Append(stateQueue[f], c) # << >>
                            /\ Last(Append(stateQueue[f], c)) = c
                            /\ Range(Append(stateQueue[f], c)) = Range(stateQueue[f]) \cup {c}
  BY <1>1, <1>3, AppendQueue
<1> QED BY <1>2, <1>4

\* _send_start_wave: every engine but the excluded one gets the wave.
LEMMA StartWaveQueues ==
  ASSUME TypeInv, NEW w \in Nat, NEW x, SendStartWave(w, x)
  PROVE  \A e \in Engines : Range(wakeQueue'[e]) =
           IF e = x THEN Range(wakeQueue[e]) ELSE Range(wakeQueue[e]) \cup {w}
<1>1. \A e \in Engines : wakeQueue[e] \in Seq(Nat)
  BY DEF TypeInv
<1>2. \A e \in Engines : Range(Append(wakeQueue[e], w)) = Range(wakeQueue[e]) \cup {w}
  BY <1>1, AppendQueue
<1> QED BY <1>2 DEF SendStartWave

\* An engine tells the coordinator: one message more on its own socket.
LEMMA TellQueue ==
  ASSUME TypeInv, NEW e \in Engines, NEW c \in BOOLEAN, NEW w \in Nat, Tell(e, c, w)
  PROVE  \A d \in Engines : Range(backQueue'[d]) =
           IF d = e THEN Range(backQueue[d]) \cup {[complete |-> c, wave |-> w]}
                    ELSE Range(backQueue[d])
<1>1. [complete |-> c, wave |-> w] \in BackMsg
  BY DEF BackMsg
<1>2. backQueue \in [Engines -> Seq(BackMsg)] /\ backQueue[e] \in Seq(BackMsg)
  BY DEF TypeInv
<1>3. Range(Append(backQueue[e], [complete |-> c, wave |-> w]))
        = Range(backQueue[e]) \cup {[complete |-> c, wave |-> w]}
  BY <1>1, <1>2, AppendQueue
<1> QED BY <1>2, <1>3 DEF Tell

\* No step puts a wave into a message or a view that is ahead of the pauses:
\* a wave number is only ever passed on, or counted up by the coordinator when it
\* hears of the pause.
LEMMA WavesNext ==
  ASSUME TypeInv, NoWaveAhead, Next
  PROVE  NoWaveAhead'
<1> USE DEF NoWaveAhead
<1>0. pauses \in Nat /\ coord.wave \in Nat
  BY DEF TypeInv, State
<1>1. ASSUME NEW f \in Frontends, NEW e \in Engines, NEW r \in Requests, AddRequestAsync(f, e, r)
      PROVE  NoWaveAhead'
  <2> DEFINE m == [req |-> r, wave |-> feWave[f]]
  <2>1. m \in AddMessage /\ addQueue[f][e] \in Seq(AddMessage)
    BY DEF AddMessage, TypeInv
  <2>2. Range(Append(addQueue[f][e], m)) = Range(addQueue[f][e]) \cup {m}
    BY <2>1, AppendQueue
  <2>3. \A g \in Frontends, d \in Engines :
          Range(addQueue'[g][d]) = IF g = f /\ d = e THEN Range(addQueue[g][d]) \cup {m}
                                                     ELSE Range(addQueue[g][d])
    BY <1>1, <2>2 DEF AddRequestAsync, TypeInv
  <2>4. \A g \in Frontends, d \in Engines : \A x \in Range(addQueue'[g][d]) : x.wave \in 0 .. pauses
    <3>1. m.wave \in 0 .. pauses
      OBVIOUS
    <3>2. \A g \in Frontends, d \in Engines : Range(addQueue'[g][d]) \subseteq Range(addQueue[g][d]) \cup {m}
      BY <2>3
    <3> HIDE DEF m
    <3> QED BY <3>1, <3>2
  <2> QED BY <1>1, <2>4 DEF AddRequestAsync, engineVars
<1>2. ASSUME NEW f \in Frontends, TakeState(f, TRUE) \/ TakeState(f, feRunning[f])
      PROVE  /\ \A g \in Frontends : feWave'[g] \in 0 .. pauses
             /\ \A g \in Frontends : Range(stateQueue'[g]) \subseteq Range(stateQueue[g])
  <2>1. stateQueue[f] # << >> => Last(stateQueue[f]) \in Range(stateQueue[f])
    BY TailQueue DEF TypeInv
  <2>2. Range(<< >>) = {}
    BY DEF Range
  <2>3. /\ stateQueue' = [stateQueue EXCEPT ![f] = << >>]
        /\ feWave' = IF stateQueue[f] = << >> THEN feWave
                     ELSE [feWave EXCEPT ![f] = Last(stateQueue[f]).wave]
    BY <1>2 DEF TakeState
  <2>4. \A g \in Frontends : stateQueue'[g] = IF g = f THEN << >> ELSE stateQueue[g]
    BY <2>3 DEF TypeInv
  <2>5. \A g \in Frontends : feWave'[g] = IF g = f /\ stateQueue[f] # << >>
                                           THEN Last(stateQueue[f]).wave ELSE feWave[g]
    BY <2>3 DEF TypeInv
  <2> QED BY <2>1, <2>2, <2>4, <2>5
<1>3. ASSUME NEW f \in Frontends, FirstRequest(f) \/ UpdateState(f)
      PROVE  NoWaveAhead'
  BY <1>2, <1>3 DEF FirstRequest, UpdateState, engineVars
<1>4. ASSUME NEW f \in Frontends, FrontMessage(f)
      PROVE  NoWaveAhead'
  <2>1. CASE coord.running
    BY <1>4, <2>1 DEF FrontMessage, feVars, engineVars
  <2>2. CASE ~coord.running
    <3>1. Publish(coord.wave, TRUE) /\ SendStartWave(coord.wave, NoOne)
      BY <1>4, <2>2 DEF FrontMessage
    <3>2. /\ coord'.wave = coord.wave
          /\ \A g \in Frontends : Range(stateQueue'[g]) = Range(stateQueue[g]) \cup {coord'}
      BY <3>1, <1>0, PublishQueues
    <3>3. \A e \in Engines : Range(wakeQueue'[e]) \subseteq Range(wakeQueue[e]) \cup {coord.wave}
      BY <3>1, <1>0, StartWaveQueues
    <3>4. UNCHANGED <<wave, pauses, feWave, addQueue, backQueue>>
      BY <1>4 DEF FrontMessage, feVars, engineVars
    <3>5. \A g \in Frontends : \A s \in Range(stateQueue'[g]) : s.wave \in 0 .. pauses
      BY <3>2
    <3>6. \A e \in Engines : \A w \in Range(wakeQueue'[e]) : w \in 0 .. pauses
      BY <3>3
    <3> QED BY <3>2, <3>4, <3>5, <3>6
  <2> QED BY <2>1, <2>2
<1>5. ASSUME NEW e \in Engines, BackMessage(e)
      PROVE  NoWaveAhead'
  <2> DEFINE m == Head(backQueue[e])
  <2>1. m \in BackMsg /\ Range(backQueue[e]) = Range(Tail(backQueue[e])) \cup {m}
    BY <1>5, TailQueue DEF BackMessage, TypeInv
  <2>2. /\ m.wave \in Nat /\ m.wave + 1 \in Nat /\ m.wave \in 0 .. pauses
        /\ m.complete => m.wave + 1 \in 0 .. pauses
    BY <2>1, <1>0 DEF BackMsg
  <2>3. \A d \in Engines : Range(backQueue'[d]) \subseteq Range(backQueue[d])
    BY <1>5, <2>1 DEF BackMessage, TypeInv
  <2>4. \/ m.complete /\ Publish(m.wave + 1, FALSE) /\ UNCHANGED wakeQueue
        \/ Publish(m.wave, TRUE) /\ SendStartWave(m.wave, e)
        \/ UNCHANGED <<coord, stateQueue, wakeQueue>>
    BY <1>5 DEF BackMessage
  <2> HIDE DEF m
  <2>5. /\ coord'.wave \in 0 .. pauses
        /\ \A g \in Frontends : \A s \in Range(stateQueue'[g]) : s.wave \in 0 .. pauses
        /\ \A d \in Engines : \A w \in Range(wakeQueue'[d]) : w \in 0 .. pauses
    <3>1. CASE m.complete /\ Publish(m.wave + 1, FALSE) /\ UNCHANGED wakeQueue
      <4>1. /\ coord'.wave = m.wave + 1
            /\ \A g \in Frontends : Range(stateQueue'[g]) = Range(stateQueue[g]) \cup {coord'}
        BY <3>1, <2>2, PublishQueues
      <4> QED BY <3>1, <4>1, <2>2
    <3>2. CASE Publish(m.wave, TRUE) /\ SendStartWave(m.wave, e)
      <4>1. /\ coord'.wave = m.wave
            /\ \A g \in Frontends : Range(stateQueue'[g]) = Range(stateQueue[g]) \cup {coord'}
        BY <3>2, <2>2, PublishQueues
      <4>2. \A d \in Engines : Range(wakeQueue'[d]) \subseteq Range(wakeQueue[d]) \cup {m.wave}
        BY <3>2, <2>2, StartWaveQueues
      <4>3. \A g \in Frontends : \A s \in Range(stateQueue'[g]) : s.wave \in 0 .. pauses
        BY <4>1, <2>2
      <4>4. \A d \in Engines : \A w \in Range(wakeQueue'[d]) : w \in 0 .. pauses
        BY <4>2, <2>2
      <4> QED BY <4>1, <4>3, <4>4, <2>2
    <3> QED BY <2>4, <3>1, <3>2
  <2>6. UNCHANGED <<wave, pauses, feWave, addQueue>>
    BY <1>5 DEF BackMessage, feVars, engineVars
  <2> QED BY <2>3, <2>5, <2>6
<1>6. ASSUME NEW f \in Frontends, NEW e \in Engines, AddRequest(f, e)
      PROVE  NoWaveAhead'
  <2> DEFINE m == Head(addQueue[f][e])
  <2>1. Range(addQueue[f][e]) = Range(Tail(addQueue[f][e])) \cup {m}
    BY <1>6, TailQueue DEF AddRequest, TypeInv
  <2>2. m.wave \in 0 .. pauses
    BY <2>1
  <2>3. wave' = wave
    BY <1>6, <1>0, <2>2 DEF AddRequest, TypeInv
  <2>4. \A g \in Frontends, d \in Engines : Range(addQueue'[g][d]) \subseteq Range(addQueue[g][d])
    BY <1>6, <2>1 DEF AddRequest, TypeInv
  <2>5. \A d \in Engines : Range(backQueue'[d]) \subseteq
            Range(backQueue[d]) \cup {[complete |-> FALSE, wave |-> pauses]}
    <3>1. CASE Tell(e, FALSE, wave[e])
      <4>1. wave[e] = pauses
        OBVIOUS
      <4>2. Tell(e, FALSE, pauses)
        BY <3>1, <4>1
      <4> QED BY <4>2, <1>0, TellQueue
    <3> QED BY <1>6, <3>1 DEF AddRequest
  <2>6. \A d \in Engines : \A x \in Range(backQueue'[d]) :
          x.wave \in 0 .. pauses /\ (x.complete => x.wave < pauses)
    <3> DEFINE t == [complete |-> FALSE, wave |-> pauses]
    <3>1. t.wave \in 0 .. pauses /\ ~t.complete
      BY <1>0
    <3>2. \A d \in Engines : Range(backQueue'[d]) \subseteq Range(backQueue[d]) \cup {t}
      BY <2>5
    <3> HIDE DEF t
    <3> QED BY <3>1, <3>2
  <2> QED BY <1>6, <2>3, <2>4, <2>6 DEF AddRequest, feVars
<1>7. ASSUME NEW e \in Engines, StartDPWave(e)
      PROVE  NoWaveAhead'
  <2>1. Range(wakeQueue[e]) = Range(Tail(wakeQueue[e])) \cup {Head(wakeQueue[e])}
    BY <1>7, TailQueue DEF StartDPWave, TypeInv
  <2>2. Head(wakeQueue[e]) \in 0 .. pauses
    BY <2>1
  <2>3. wave' = wave
    BY <1>0, <1>7, <2>2 DEF StartDPWave, TypeInv, Wakes
  <2>4. \A d \in Engines : Range(wakeQueue'[d]) \subseteq Range(wakeQueue[d])
    BY <1>7, <2>1 DEF StartDPWave, TypeInv
  <2> QED BY <1>7, <2>3, <2>4 DEF StartDPWave, feVars
<1>8. ASSUME NEW e \in Engines, StartStep(e) \/ CountStep(e)
      PROVE  NoWaveAhead'
  BY <1>8 DEF StartStep, CountStep, feVars
<1>9. ASSUME Forward
      PROVE  NoWaveAhead'
  BY <1>9 DEF Forward, feVars
<1>10. ASSUME AllReduce
       PROVE  NoWaveAhead'
  <2>1. CASE \E e \in Engines : unfinished[e]
    BY <1>10, <2>1 DEF AllReduce, feVars
  <2>2. CASE ~\E e \in Engines : unfinished[e]
    <3>1. Tell(0, TRUE, wave[0]) /\ wave' = [e \in Engines |-> wave[e] + 1] /\ pauses' = pauses + 1
      BY <1>10, <2>2 DEF AllReduce
    <3>2. 0 \in Engines /\ wave[0] = pauses
      BY ConstantFacts
    <3>3. \A d \in Engines : Range(backQueue'[d]) \subseteq
            Range(backQueue[d]) \cup {[complete |-> TRUE, wave |-> pauses]}
      BY <3>1, <3>2, <1>0, TellQueue
    <3> QED BY <1>0, <1>10, <3>1, <3>3 DEF AllReduce, feVars
  <2> QED BY <2>1, <2>2
<1>11. CASE Wait
  BY <1>11 DEF Wait, vars, feVars, engineVars
<1> QED
  BY <1>1, <1>3, <1>4, <1>5, <1>6, <1>7, <1>8, <1>9, <1>10, <1>11
  DEF Next, StatsTask, CoordinatorStep, ProcessInput, EngineStep, Collective

-----------------------------------------------------------------------------
(* Requests                                                                *)

\* A request that is new to a queue is in it once.
LEMMA NoDupAppend ==
  ASSUME NEW s \in Seq(AddMessage), NEW x \in AddMessage, NoDup(s), x.req \notin Reqs(s)
  PROVE  NoDup(Append(s, x)) /\ Reqs(Append(s, x)) = Reqs(s) \cup {x.req}
<1>1. /\ Len(Append(s, x)) = Len(s) + 1 /\ Append(s, x) \in Seq(AddMessage)
      /\ \A i \in 1 .. Len(s) : Append(s, x)[i] = s[i]
      /\ Append(s, x)[Len(s) + 1] = x
  BY AppendProperties
<1>2. /\ Len(s) \in Nat /\ DOMAIN s = 1 .. Len(s)
      /\ DOMAIN Append(s, x) = 1 .. (Len(s) + 1)
  BY <1>1, LenProperties
<1>3. Range(Append(s, x)) = Range(s) \cup {x}
  BY AppendQueue
<1>4. \A i \in 1 .. Len(s) : s[i].req # x.req
  BY <1>2 DEF Reqs, Range
<1>5. NoDup(Append(s, x))
  <2> SUFFICES ASSUME NEW i \in 1 .. (Len(s) + 1), NEW j \in 1 .. (Len(s) + 1),
                      Append(s, x)[i].req = Append(s, x)[j].req
               PROVE  i = j
    BY <1>2 DEF NoDup
  <2>1. CASE i = Len(s) + 1 \/ j = Len(s) + 1
    BY <2>1, <1>1, <1>2, <1>4
  <2>2. CASE i \in 1 .. Len(s) /\ j \in 1 .. Len(s)
    BY <2>2, <1>1, <1>2 DEF NoDup
  <2> QED BY <2>1, <2>2, <1>2
<1> QED BY <1>3, <1>5 DEF Reqs

\* The requests in a queue are requests.
LEMMA ReqsType ==
  ASSUME TypeInv, NEW f \in Frontends, NEW e \in Engines
  PROVE  Reqs(addQueue[f][e]) \subseteq Requests
<1>1. addQueue[f][e] \in Seq(AddMessage)
  BY DEF TypeInv
<1>2. \A m \in Range(addQueue[f][e]) : m \in AddMessage
  BY <1>1, LenProperties, ElementOfSeq DEF Range
<1> QED BY <1>2 DEF Reqs, AddMessage

\* Taking the first message off a queue takes its request out of it.
LEMMA NoDupTail ==
  ASSUME NEW s \in Seq(AddMessage), NoDup(s), s # << >>
  PROVE  NoDup(Tail(s)) /\ Head(s).req \notin Reqs(Tail(s))
<1>1. /\ Tail(s) \in Seq(AddMessage)
      /\ Len(Tail(s)) = Len(s) - 1
      /\ \A i \in 1 .. Len(Tail(s)) : Tail(s)[i] = s[i + 1]
  BY HeadTailProperties
<1>2. /\ Len(s) \in Nat /\ Len(s) # 0 /\ DOMAIN s = 1 .. Len(s) /\ Head(s) = s[1]
      /\ DOMAIN Tail(s) = 1 .. (Len(s) - 1)
  BY <1>1, EmptySeq, LenProperties
<1>3. \A i \in 1 .. (Len(s) - 1) : i + 1 \in DOMAIN s /\ Tail(s)[i] = s[i + 1] /\ i + 1 # 1 /\ i \in Int
  BY <1>1, <1>2
<1>4. NoDup(Tail(s))
  <2> SUFFICES ASSUME NEW i \in 1 .. (Len(s) - 1), NEW j \in 1 .. (Len(s) - 1),
                      Tail(s)[i].req = Tail(s)[j].req
               PROVE  i = j
    BY <1>2 DEF NoDup
  <2>1. i + 1 = j + 1
    BY <1>3 DEF NoDup
  <2> QED BY <2>1, <1>3
<1>5. ASSUME NEW x \in Range(Tail(s)) PROVE x.req # Head(s).req
  <2>1. PICK i \in 1 .. (Len(s) - 1) : x = Tail(s)[i]
    BY <1>2 DEF Range
  <2> QED BY <2>1, <1>2, <1>3 DEF NoDup
<1> QED BY <1>4, <1>5 DEF Reqs

\* No step duplicates a request.
LEMMA SentOnceNext ==
  ASSUME TypeInv, SentOnce, Next
  PROVE  SentOnce'
<1> USE DEF SentOnce
<1>1. ASSUME NEW f \in Frontends, NEW e \in Engines, NEW r \in Requests, AddRequestAsync(f, e, r)
      PROVE  SentOnce'
  <2> DEFINE m == [req |-> r, wave |-> feWave[f]]
             q == addQueue[f][e]
  <2>1. m \in AddMessage /\ m.req = r /\ q \in Seq(AddMessage)
    <3>1. q \in Seq(AddMessage) /\ feWave[f] \in Nat
      BY DEF TypeInv
    <3> QED BY <3>1 DEF AddMessage
  <2>2. \A g \in Frontends, d \in Engines : r \notin Reqs(addQueue[g][d])
    BY <1>1 DEF AddRequestAsync, AtClient, OnItsWay
  <2>3. NoDup(Append(q, m)) /\ Reqs(Append(q, m)) = Reqs(q) \cup {r}
    BY <2>1, <2>2, NoDupAppend
  <2>4. \A g \in Frontends, d \in Engines :
          addQueue'[g][d] = IF g = f /\ d = e THEN Append(q, m) ELSE addQueue[g][d]
    BY <1>1 DEF AddRequestAsync, TypeInv
  <2> HIDE DEF m, q
  <2>5. \A g \in Frontends, d \in Engines :
          /\ NoDup(addQueue'[g][d])
          /\ Reqs(addQueue'[g][d]) \subseteq Reqs(addQueue[g][d]) \cup {r}
          /\ r \in Reqs(addQueue'[g][d]) => g = f /\ d = e
    BY <2>2, <2>3, <2>4 DEF q
  <2>6. /\ \A s \in Requests : place'[s] = IF s = r THEN OnItsWay ELSE place[s]
        /\ place[r] = AtClient /\ left' = left
    BY <1>1 DEF AddRequestAsync, TypeInv
  <2>7. \A g \in Frontends, d \in Engines : \A s \in Reqs(addQueue'[g][d]) : place'[s] = OnItsWay
    <3>1. \A g \in Frontends, d \in Engines : \A s \in Reqs(addQueue[g][d]) : s \in Requests
      BY ReqsType
    <3>2. \A g \in Frontends, d \in Engines : \A s \in Reqs(addQueue'[g][d]) :
            s = r \/ s \in Reqs(addQueue[g][d])
      BY <2>5
    <3> QED BY <3>1, <3>2, <2>6
  <2>8. \A s \in Requests : place'[s] # Finished => left'[s] > 0
    BY <2>6 DEF AtClient, Finished
  <2>9. ASSUME NEW g \in Frontends, NEW d \in Engines, NEW h \in Frontends, NEW c \in Engines,
               NEW s \in Reqs(addQueue'[g][d]) \cap Reqs(addQueue'[h][c])
        PROVE  g = h /\ d = c
    <3>1. CASE s = r
      <4>1. \A a \in Frontends, b \in Engines : s \in Reqs(addQueue'[a][b]) => a = f /\ b = e
        BY <2>2, <2>5, <3>1
      <4> QED BY <4>1
    <3>2. CASE s # r
      <4>1. s \in Reqs(addQueue[g][d]) \cap Reqs(addQueue[h][c])
        BY <2>5, <3>2
      <4> QED BY <4>1
    <3> QED BY <3>1, <3>2
  <2>10. left' \in [Requests -> Nat]
    BY <2>6
  <2>11. \A g \in Frontends, d \in Engines : NoDup(addQueue'[g][d])
    BY <2>5
  <2> HIDE DEF SentOnce
  <2> QED BY <2>7, <2>8, <2>9, <2>10, <2>11, Zenon DEF SentOnce
<1>2. ASSUME NEW f \in Frontends, NEW e \in Engines, AddRequest(f, e)
      PROVE  SentOnce'
  <2> DEFINE q == addQueue[f][e]
             r == Head(q).req
  <2>1. q \in Seq(AddMessage) /\ q # << >>
    BY <1>2 DEF AddRequest, TypeInv
  <2>2. Head(q) \in AddMessage /\ Range(q) = Range(Tail(q)) \cup {Head(q)}
    BY <2>1, TailQueue
  <2>3. NoDup(Tail(q)) /\ r \notin Reqs(Tail(q)) /\ Reqs(q) = Reqs(Tail(q)) \cup {r} /\ r \in Requests
    <3>1. NoDup(Tail(q)) /\ r \notin Reqs(Tail(q))
      BY <2>1, NoDupTail
    <3>2. Reqs(q) = Reqs(Tail(q)) \cup {r}
      BY <2>2 DEF Reqs
    <3>3. r \in Requests
      BY <2>2 DEF AddMessage
    <3> QED BY <3>1, <3>2, <3>3
  <2>4. \A g \in Frontends, d \in Engines :
          addQueue'[g][d] = IF g = f /\ d = e THEN Tail(q) ELSE addQueue[g][d]
    BY <1>2 DEF AddRequest, TypeInv
  <2>5. /\ \A s \in Requests : place'[s] = IF s = r THEN e ELSE place[s]
        /\ left' = left
    BY <1>2, <2>3 DEF AddRequest, TypeInv
  <2>6. place[r] = OnItsWay
    BY <2>3
  <2> HIDE DEF q, r
  <2>7. \A g \in Frontends, d \in Engines :
          /\ NoDup(addQueue'[g][d])
          /\ Reqs(addQueue'[g][d]) \subseteq Reqs(addQueue[g][d]) /\ r \notin Reqs(addQueue'[g][d])
    <3>1. r \in Reqs(addQueue[f][e])
      BY <2>3 DEF q
    <3> QED BY <2>3, <2>4, <3>1 DEF q
  <2>8. \A g \in Frontends, d \in Engines : \A s \in Reqs(addQueue'[g][d]) : place'[s] = OnItsWay
    <3>1. \A g \in Frontends, d \in Engines : \A s \in Reqs(addQueue[g][d]) : s \in Requests
      BY ReqsType
    <3> QED BY <3>1, <2>5, <2>7
  <2>9. \A s \in Requests : place'[s] # Finished => left'[s] > 0
    BY <2>3, <2>5, <2>6 DEF OnItsWay, Finished
  <2>10. ASSUME NEW g \in Frontends, NEW d \in Engines, NEW h \in Frontends, NEW c \in Engines,
                NEW s \in Reqs(addQueue'[g][d]) \cap Reqs(addQueue'[h][c])
         PROVE  g = h /\ d = c
    <3>1. s \in Reqs(addQueue[g][d]) \cap Reqs(addQueue[h][c])
      BY <2>7
    <3> QED BY <3>1
  <2>11. left' \in [Requests -> Nat]
    BY <2>5
  <2>12. \A g \in Frontends, d \in Engines : NoDup(addQueue'[g][d])
    BY <2>7
  <2> HIDE DEF SentOnce
  <2> QED BY <2>8, <2>9, <2>10, <2>11, <2>12, Zenon DEF SentOnce
<1>3. ASSUME Forward
      PROVE  SentOnce'
  <2>1. /\ left' = [r \in Requests |-> IF place[r] \in Engines THEN left[r] - 1 ELSE left[r]]
        /\ place' = [r \in Requests |-> IF left'[r] = 0 THEN Finished ELSE place[r]]
        /\ addQueue' = addQueue
    BY <1>3 DEF Forward
  <2>2. \A r \in Requests : place[r] \in Engines => place[r] # Finished /\ place[r] # OnItsWay
    BY ConstantFacts DEF Finished, OnItsWay
  <2>3. left' \in [Requests -> Nat] /\ \A r \in Requests : place'[r] # Finished => left'[r] > 0
    BY <2>1, <2>2
  <2>4. \A r \in Requests : place[r] = OnItsWay => place'[r] = OnItsWay
    BY <2>1, <2>2 DEF OnItsWay, Finished
  <2>5. \A g \in Frontends, d \in Engines : \A s \in Reqs(addQueue[g][d]) : s \in Requests
    BY ReqsType
  <2>6. \A g \in Frontends, d \in Engines : \A s \in Reqs(addQueue'[g][d]) : place'[s] = OnItsWay
    BY <2>1, <2>4, <2>5
  <2>7. \A g \in Frontends, d \in Engines :
          /\ NoDup(addQueue'[g][d])
          /\ \A h \in Frontends, c \in Engines :
               \A s \in Reqs(addQueue'[g][d]) \cap Reqs(addQueue'[h][c]) : g = h /\ d = c
    BY <2>1
  <2> HIDE DEF SentOnce
  <2> QED BY <2>3, <2>6, <2>7, Zenon DEF SentOnce
<1>4. CASE UNCHANGED <<addQueue, place, left>>
  BY <1>4
<1>5. ASSUME NEW f \in Frontends, FirstRequest(f) \/ UpdateState(f) \/ FrontMessage(f)
      PROVE  UNCHANGED <<addQueue, place, left>>
  BY <1>5 DEF FirstRequest, UpdateState, FrontMessage
<1>6. ASSUME NEW e \in Engines, BackMessage(e) \/ StartDPWave(e) \/ StartStep(e) \/ CountStep(e)
      PROVE  UNCHANGED <<addQueue, place, left>>
  BY <1>6 DEF BackMessage, StartDPWave, StartStep, CountStep
<1>7. AllReduce \/ Wait => UNCHANGED <<addQueue, place, left>>
  BY DEF AllReduce, Wait, vars
<1> QED
  BY <1>1, <1>2, <1>3, <1>4, <1>5, <1>6, <1>7
  DEF Next, StatsTask, CoordinatorStep, ProcessInput, EngineStep, Collective

-----------------------------------------------------------------------------
(* What the coordinator knows                                              *)

\* A pause is reported until the coordinator knows it.
LEMMA PauseReportedNext ==
  ASSUME TypeInv, NoWaveAhead, PauseReported, Next
  PROVE  PauseReported'
<1> USE DEF PauseReported
<1>0. /\ pauses \in Nat /\ coord.wave \in 0 .. pauses /\ 0 \in Engines
  BY ConstantFacts DEF TypeInv, NoWaveAhead
<1>1. ASSUME NEW f \in Frontends, FrontMessage(f)
      PROVE  PauseReported'
  <2>1. coord'.wave = coord.wave
    <3>1. CASE coord.running
      BY <1>1, <3>1 DEF FrontMessage
    <3>2. CASE ~coord.running
      <4>1. Publish(coord.wave, TRUE)
        BY <1>1, <3>2 DEF FrontMessage
      <4>2. coord.wave \in Nat
        BY <1>0
      <4> QED BY <4>1, <4>2, PublishQueues
    <3> QED BY <3>1, <3>2
  <2> QED BY <1>1, <2>1 DEF FrontMessage
<1>2. ASSUME NEW e \in Engines, BackMessage(e)
      PROVE  PauseReported'
  <2> DEFINE m == Head(backQueue[e])
  <2>1. m \in BackMsg /\ Range(backQueue[e]) = Range(Tail(backQueue[e])) \cup {m}
    BY <1>2, TailQueue DEF BackMessage, TypeInv
  <2>2. /\ m.wave \in 0 .. pauses /\ m.wave \in Nat /\ m.wave + 1 \in Nat
        /\ m.complete => m.wave < pauses
    BY <2>1, <1>0 DEF NoWaveAhead
  <2>3. Range(backQueue[0]) \subseteq Range(backQueue'[0]) \cup {m}
    BY <1>0, <1>2, <2>1 DEF BackMessage, TypeInv
  <2>4. pauses' = pauses
    BY <1>2 DEF BackMessage
  <2>5. \/ m.complete /\ coord.wave <= m.wave /\ Publish(m.wave + 1, FALSE)
        \/ ~m.complete /\ m.wave >= coord.wave /\ Publish(m.wave, TRUE)
        \/ ~(m.complete /\ coord.wave <= m.wave) /\ coord' = coord
    <3>1. CASE m.complete /\ Completes(m.wave)
      BY <1>2, <3>1 DEF BackMessage, Completes
    <3>2. CASE ~m.complete /\ Starts(m.wave)
      <4>1. Publish(m.wave, TRUE)
        BY <1>2, <3>2 DEF BackMessage
      <4>2. m.wave >= coord.wave
        BY <1>0, <2>2, <3>2 DEF Starts
      <4> QED BY <3>2, <4>1, <4>2
    <3>3. CASE ~(m.complete /\ Completes(m.wave)) /\ ~(~m.complete /\ Starts(m.wave))
      BY <1>2, <3>3 DEF BackMessage, Completes
    <3> QED BY <3>1, <3>2, <3>3
  <2> HIDE DEF m
  <2>6. CASE m.complete /\ coord.wave <= m.wave /\ Publish(m.wave + 1, FALSE)
    <3>1. coord'.wave = m.wave + 1
      BY <2>2, <2>6, PublishQueues
    <3> QED BY <3>1, <2>2, <2>3, <2>4, <2>6, <1>0
  <2>7. CASE ~m.complete /\ m.wave >= coord.wave /\ Publish(m.wave, TRUE)
    <3>1. coord'.wave = m.wave
      BY <2>2, <2>7, PublishQueues
    <3> QED BY <3>1, <2>2, <2>3, <2>4, <2>7, <1>0
  <2>8. CASE ~(m.complete /\ coord.wave <= m.wave) /\ coord' = coord
    BY <2>2, <2>3, <2>4, <2>8, <1>0
  <2> QED BY <2>5, <2>6, <2>7, <2>8
<1>3. ASSUME NEW f \in Frontends, NEW e \in Engines, AddRequest(f, e)
      PROVE  PauseReported'
  <2>1. Range(backQueue[0]) \subseteq Range(backQueue'[0])
    <3>1. CASE Tell(e, FALSE, wave[e])
      <4>1. wave[e] \in Nat
        BY DEF TypeInv
      <4> QED BY <3>1, <4>1, <1>0, TellQueue
    <3> QED BY <1>3, <3>1 DEF AddRequest
  <2> QED BY <1>3, <2>1 DEF AddRequest
<1>4. ASSUME AllReduce
      PROVE  PauseReported'
  <2>1. CASE \E e \in Engines : unfinished[e]
    BY <1>4, <2>1 DEF AllReduce
  <2>2. CASE ~\E e \in Engines : unfinished[e]
    <3> DEFINE m == [complete |-> TRUE, wave |-> pauses]
    <3>1. Tell(0, TRUE, pauses) /\ pauses' = pauses + 1
      <4>1. wave[0] = pauses
        BY <1>0 DEF NoWaveAhead
      <4> QED BY <1>4, <2>2, <4>1 DEF AllReduce
    <3>2. m \in Range(backQueue'[0])
      <4>1. Range(backQueue'[0]) = Range(backQueue[0]) \cup {m}
        BY <3>1, <1>0, TellQueue
      <4> QED BY <4>1
    <3>3. m.complete /\ m.wave = pauses' - 1
      BY <3>1, <1>0
    <3> QED BY <3>2, <3>3
  <2> QED BY <2>1, <2>2
<1>5. CASE UNCHANGED <<coord, backQueue, pauses>>
  BY <1>5
<1>6. ASSUME NEW f \in Frontends,
             \/ FirstRequest(f) \/ UpdateState(f)
             \/ \E e \in Engines, r \in Requests : AddRequestAsync(f, e, r)
      PROVE  UNCHANGED <<coord, backQueue, pauses>>
  BY <1>6 DEF FirstRequest, UpdateState, AddRequestAsync
<1>7. ASSUME NEW e \in Engines, StartDPWave(e) \/ StartStep(e) \/ CountStep(e)
      PROVE  UNCHANGED <<coord, backQueue, pauses>>
  BY <1>7 DEF StartDPWave, StartStep, CountStep
<1>8. Forward \/ Wait => UNCHANGED <<coord, backQueue, pauses>>
  BY DEF Forward, Wait, vars
<1> QED
  BY <1>1, <1>2, <1>3, <1>4, <1>5, <1>6, <1>7, <1>8
  DEF Next, StatsTask, CoordinatorStep, ProcessInput, EngineStep, Collective

\* An engine leaves a wave only by a pause.
LEMMA ActiveNext ==
  ASSUME TypeInv, SentOnce, Next, pauses' = pauses, NEW e \in Engines, Active(e)
  PROVE  Active(e)'
<1> USE DEF Active, Local
<1>0. \A r \in Requests : place[r] = e => place[r] # OnItsWay /\ place[r] # AtClient
  BY ConstantFacts DEF OnItsWay, AtClient
<1>1. ASSUME NEW f \in Frontends, NEW d \in Engines, NEW r \in Requests, AddRequestAsync(f, d, r)
      PROVE  Active(e)'
  BY <1>0, <1>1 DEF AddRequestAsync, engineVars, TypeInv
<1>2. ASSUME NEW f \in Frontends, NEW d \in Engines, AddRequest(f, d)
      PROVE  Active(e)'
  <2> DEFINE r == Head(addQueue[f][d]).req
  <2>1. place[r] = OnItsWay
    <3>1. Head(addQueue[f][d]) \in Range(addQueue[f][d])
      BY <1>2, TailQueue DEF AddRequest, TypeInv
    <3> QED BY <3>1 DEF SentOnce, Reqs
  <2>2. place' = [place EXCEPT ![r] = d] /\ running' = running /\ pc' = pc
    BY <1>2 DEF AddRequest
  <2> HIDE DEF r
  <2> QED BY <1>0, <2>1, <2>2 DEF TypeInv
<1>3. ASSUME NEW d \in Engines, StartDPWave(d)
      PROVE  Active(e)'
  BY <1>3 DEF StartDPWave, TypeInv
<1>4. ASSUME NEW d \in Engines, StartStep(d)
      PROVE  Active(e)'
  BY <1>4 DEF StartStep, TypeInv
<1>5. ASSUME NEW d \in Engines, CountStep(d)
      PROVE  Active(e)'
  BY <1>5 DEF CountStep, Syncs, TypeInv
<1>6. ASSUME Forward
      PROVE  Active(e)'
  BY <1>6 DEF Forward
<1>7. ASSUME AllReduce
      PROVE  Active(e)'
  <2>1. CASE \E d \in Engines : unfinished[d]
    BY <1>7, <2>1 DEF AllReduce
  <2>2. CASE ~\E d \in Engines : unfinished[d]
    BY <1>7, <2>2 DEF AllReduce, TypeInv
  <2> QED BY <2>1, <2>2
<1>8. CASE UNCHANGED <<running, pc, place>>
  BY <1>8
<1>9. ASSUME NEW f \in Frontends, FirstRequest(f) \/ UpdateState(f) \/ FrontMessage(f)
      PROVE  UNCHANGED <<running, pc, place>>
  BY <1>9 DEF FirstRequest, UpdateState, FrontMessage, engineVars
<1>10. ASSUME NEW d \in Engines, BackMessage(d)
       PROVE  UNCHANGED <<running, pc, place>>
  BY <1>10 DEF BackMessage, engineVars
<1>11. Wait => UNCHANGED <<running, pc, place>>
  BY DEF Wait, vars, engineVars
<1> HIDE DEF Active, Local
<1> QED
  BY <1>1, <1>2, <1>3, <1>4, <1>5, <1>6, <1>7, <1>8, <1>9, <1>10, <1>11
  DEF Next, StatsTask, CoordinatorStep, ProcessInput, EngineStep, Collective

\* The coordinator never takes the engines for running without a reason.
LEMMA ReasonNext ==
  ASSUME TypeInv, NoWaveAhead, SentOnce, RunningForAReason, Next
  PROVE  RunningForAReason'
<1> DEFINE Woken(e) == Active(e) \/ pauses \in Range(wakeQueue[e])
<1>0. /\ pauses \in Nat /\ coord.wave \in 0 .. pauses /\ coord.wave \in Nat /\ 0 \in Engines
      /\ NoOne \notin Engines /\ coord.running \in BOOLEAN
  BY ConstantFacts DEF TypeInv, NoWaveAhead, State
<1>1. pauses' = pauses => \A e \in Engines : Active(e) => Active(e)'
  BY ActiveNext
<1>2. ASSUME NEW f \in Frontends, FrontMessage(f)
      PROVE  RunningForAReason'
  <2>1. pauses' = pauses /\ backQueue' = backQueue
    BY <1>2 DEF FrontMessage
  <2>2. CASE coord.running
    BY <1>1, <1>2, <2>1, <2>2 DEF FrontMessage, RunningForAReason
  <2>3. CASE ~coord.running
    <3>1. Publish(coord.wave, TRUE) /\ SendStartWave(coord.wave, NoOne)
      BY <1>2, <2>3 DEF FrontMessage
    <3>2. coord'.wave = coord.wave
      BY <3>1, <1>0, PublishQueues
    <3>3. coord.wave \in Range(wakeQueue'[0])
      <4>1. 0 # NoOne
        BY <1>0
      <4>2. SendStartWave(coord.wave, NoOne)
        BY <3>1
      <4>3. Range(wakeQueue'[0]) = Range(wakeQueue[0]) \cup {coord.wave}
        BY <4>1, <4>2, <1>0, StartWaveQueues
      <4> QED BY <4>3
    <3> QED BY <1>0, <1>1, <2>1, <3>2, <3>3 DEF RunningForAReason
  <2> QED BY <2>2, <2>3
<1>3. ASSUME NEW e \in Engines, BackMessage(e)
      PROVE  RunningForAReason'
  <2> DEFINE m == Head(backQueue[e])
  <2>1. m \in BackMsg /\ Range(backQueue[e]) = Range(Tail(backQueue[e])) \cup {m}
    BY <1>3, TailQueue DEF BackMessage, TypeInv
  <2>2. m.wave \in Nat /\ m.wave + 1 \in Nat /\ m \in Range(backQueue[e])
    BY <2>1 DEF BackMsg
  <2>3. \A d \in Engines : Range(backQueue'[d]) \subseteq Range(backQueue[d])
    BY <1>3, <2>1 DEF BackMessage, TypeInv
  <2>4. pauses' = pauses
    BY <1>3 DEF BackMessage
  <2>5. \/ Publish(m.wave + 1, FALSE)
        \/ ~m.complete /\ Publish(m.wave, TRUE)
        \/ UNCHANGED <<coord, wakeQueue>>
    BY <1>3 DEF BackMessage
  <2> HIDE DEF m
  <2>6. coord'.running /\ coord'.wave = pauses => \E d \in Engines : Woken(d)'
    <3>1. CASE Publish(m.wave + 1, FALSE)
      BY <2>2, <3>1, PublishQueues
    <3>2. CASE ~m.complete /\ Publish(m.wave, TRUE)
      <4>1. coord'.wave = m.wave
        BY <2>2, <3>2, PublishQueues
      <4>2. m.wave = pauses => Active(e)
        BY <2>2, <3>2 DEF RunningForAReason
      <4> QED BY <1>1, <2>4, <4>1, <4>2
    <3>3. CASE UNCHANGED <<coord, wakeQueue>>
      BY <1>1, <2>4, <3>3 DEF RunningForAReason
    <3> QED BY <2>5, <3>1, <3>2, <3>3
  <2>7. \A d \in Engines : \A x \in Range(backQueue'[d]) : ~x.complete /\ x.wave = pauses => Active(d)'
    BY <1>1, <2>3, <2>4 DEF RunningForAReason
  <2> QED BY <2>4, <2>6, <2>7 DEF RunningForAReason
<1>4. ASSUME NEW f \in Frontends, NEW e \in Engines, AddRequest(f, e)
      PROVE  RunningForAReason'
  <2> DEFINE m == [complete |-> FALSE, wave |-> wave[e]]
             r == Head(addQueue[f][e]).req
  <2>1. pauses' = pauses /\ coord' = coord /\ wakeQueue' = wakeQueue
    BY <1>4 DEF AddRequest
  <2>2. \A d \in Engines : Range(backQueue'[d]) \subseteq IF d = e THEN Range(backQueue[d]) \cup {m}
                                                                  ELSE Range(backQueue[d])
    <3>1. CASE Tell(e, FALSE, wave[e])
      <4>1. wave[e] \in Nat
        BY DEF TypeInv
      <4> QED BY <3>1, <4>1, TellQueue
    <3> QED BY <1>4, <3>1 DEF AddRequest
  <2>3. Active(e)'
    <3>1. r \in Requests
      <4>1. Head(addQueue[f][e]) \in AddMessage
        BY <1>4, TailQueue DEF AddRequest, TypeInv
      <4> QED BY <4>1 DEF AddMessage
    <3>2. place'[r] = e
      BY <1>4, <3>1 DEF AddRequest, TypeInv
    <3> QED BY <3>1, <3>2 DEF Active, Local
  <2> HIDE DEF m, r
  <2>4. \A d \in Engines : \A x \in Range(backQueue'[d]) : ~x.complete /\ x.wave = pauses => Active(d)'
    BY <1>1, <2>1, <2>2, <2>3 DEF RunningForAReason
  <2> QED BY <1>1, <2>1, <2>4 DEF RunningForAReason
<1>5. ASSUME NEW e \in Engines, StartDPWave(e)
      PROVE  RunningForAReason'
  <2> DEFINE w == Head(wakeQueue[e])
  <2>1. pauses' = pauses /\ coord' = coord /\ backQueue' = backQueue
    BY <1>5 DEF StartDPWave
  <2>2. Range(wakeQueue[e]) = Range(Tail(wakeQueue[e])) \cup {w}
    BY <1>5, TailQueue DEF StartDPWave, TypeInv
  <2>3. w = pauses => Active(e)'
    <3>1. SUFFICES ASSUME w = pauses PROVE running'[e]
      BY DEF Active
    <3>2. Wakes(e, w)
      BY <1>0, <3>1 DEF Wakes, NoWaveAhead
    <3>3. running' = [running EXCEPT ![e] = @ \/ Wakes(e, w)]
      BY <1>5 DEF StartDPWave
    <3> QED BY <3>2, <3>3 DEF TypeInv
  <2>4. \A d \in Engines : Range(wakeQueue[d]) \subseteq
            IF d = e THEN Range(wakeQueue'[d]) \cup {w} ELSE Range(wakeQueue'[d])
    BY <1>5, <2>2 DEF StartDPWave, TypeInv
  <2> HIDE DEF w
  <2>5. \A d \in Engines : Woken(d) => Woken(d)'
    BY <1>1, <2>1, <2>3, <2>4
  <2> QED BY <1>1, <2>1, <2>5 DEF RunningForAReason
<1>6. ASSUME AllReduce
      PROVE  RunningForAReason'
  <2>1. CASE \E e \in Engines : unfinished[e]
    BY <1>1, <1>6, <2>1 DEF AllReduce, RunningForAReason
  <2>2. CASE ~\E e \in Engines : unfinished[e]
    <3> DEFINE m == [complete |-> TRUE, wave |-> wave[0]]
    <3>1. Tell(0, TRUE, wave[0]) /\ pauses' = pauses + 1 /\ coord' = coord
      BY <1>6, <2>2 DEF AllReduce
    <3>2. \A d \in Engines : Range(backQueue'[d]) \subseteq Range(backQueue[d]) \cup {m}
      <4>1. wave[0] \in Nat
        BY <1>0 DEF TypeInv
      <4>2. 0 \in Engines
        BY ConstantFacts
      <4>3. \A d \in Engines : Range(backQueue'[d]) =
              IF d = 0 THEN Range(backQueue[d]) \cup {m} ELSE Range(backQueue[d])
        BY <3>1, <4>1, <4>2, <1>0, TellQueue
      <4> HIDE DEF m
      <4> QED BY <4>3
    <3>3. m.complete
      OBVIOUS
    <3> HIDE DEF m
    <3>4. \A d \in Engines : \A x \in Range(backQueue'[d]) : x.complete \/ x.wave # pauses'
      BY <3>1, <3>2, <3>3, <1>0 DEF NoWaveAhead
    <3>5. coord'.wave # pauses'
      BY <3>1, <1>0
    <3> QED BY <3>4, <3>5 DEF RunningForAReason
  <2> QED BY <2>1, <2>2
<1>7. CASE UNCHANGED <<coord, backQueue, wakeQueue, pauses>>
  BY <1>1, <1>7 DEF RunningForAReason
<1>8. ASSUME NEW f \in Frontends,
             \/ FirstRequest(f) \/ UpdateState(f)
             \/ \E e \in Engines, r \in Requests : AddRequestAsync(f, e, r)
      PROVE  UNCHANGED <<coord, backQueue, wakeQueue, pauses>>
  BY <1>8 DEF FirstRequest, UpdateState, AddRequestAsync
<1>9. ASSUME NEW e \in Engines, StartStep(e) \/ CountStep(e)
      PROVE  UNCHANGED <<coord, backQueue, wakeQueue, pauses>>
  BY <1>9 DEF StartStep, CountStep
<1>10. Forward \/ Wait => UNCHANGED <<coord, backQueue, wakeQueue, pauses>>
  BY DEF Forward, Wait, vars
<1> QED
  BY <1>2, <1>3, <1>4, <1>5, <1>6, <1>7, <1>8, <1>9, <1>10
  DEF Next, StatsTask, CoordinatorStep, ProcessInput, EngineStep, Collective

-----------------------------------------------------------------------------
(* What the front ends know                                                *)

\* What a front end believes, or will when it has read all that is published,
\* is the coordinator's state, unless a message of its own is on its way.
LEMMA ViewsNext ==
  ASSUME TypeInv, ViewsFollow, Next
  PROVE  ViewsFollow'
<1> USE DEF ViewsFollow
<1>0. coord.wave \in Nat /\ coord.running \in BOOLEAN
  BY DEF TypeInv, State
<1>1. ASSUME NEW f \in Frontends, FirstRequest(f)
      PROVE  ViewsFollow'
  <2>1. Append(frontQueue[f], feWave[f]) # << >>
    <3>1. frontQueue[f] \in Seq(Nat) /\ feWave[f] \in Nat
      BY DEF TypeInv
    <3> QED BY <3>1, AppendQueue
  <2>2. coord' = coord /\ TakeState(f, TRUE)
        /\ frontQueue' = [frontQueue EXCEPT ![f] = Append(@, feWave[f])]
    BY <1>1 DEF FirstRequest
  <2> QED BY <2>1, <2>2 DEF TakeState, TypeInv
<1>2. ASSUME NEW f \in Frontends, UpdateState(f)
      PROVE  ViewsFollow'
  <2>1. coord' = coord /\ frontQueue' = frontQueue /\ TakeState(f, feRunning[f]) /\ stateQueue[f] # << >>
    BY <1>2 DEF UpdateState
  <2> QED BY <2>1 DEF TakeState, TypeInv
<1>3. ASSUME NEW w \in Nat, NEW x \in BOOLEAN, Publish(w, x)
      PROVE  ViewsFollow'
  BY <1>3, PublishQueues
<1>4. ASSUME NEW f \in Frontends, FrontMessage(f)
      PROVE  ViewsFollow'
  <2>1. CASE coord.running
    BY <1>4, <2>1 DEF FrontMessage, feVars
  <2>2. CASE ~coord.running
    BY <1>0, <1>3, <1>4, <2>2 DEF FrontMessage
  <2> QED BY <2>1, <2>2
<1>5. ASSUME NEW e \in Engines, BackMessage(e)
      PROVE  ViewsFollow'
  <2> DEFINE m == Head(backQueue[e])
  <2>1. m \in BackMsg
    BY <1>5, TailQueue DEF BackMessage, TypeInv
  <2>2. m.wave \in Nat /\ m.wave + 1 \in Nat
    BY <2>1 DEF BackMsg
  <2>3. \/ Publish(m.wave + 1, FALSE) \/ Publish(m.wave, TRUE)
        \/ UNCHANGED <<coord, stateQueue>>
    BY <1>5 DEF BackMessage
  <2>4. feWave' = feWave /\ feRunning' = feRunning /\ frontQueue' = frontQueue
    BY <1>5 DEF BackMessage, feVars
  <2> HIDE DEF m
  <2> QED BY <1>3, <2>2, <2>3, <2>4
<1>6. CASE UNCHANGED <<feWave, feRunning, frontQueue, stateQueue, coord>>
  BY <1>6
<1>7. ASSUME NEW e \in Engines,
             \/ StartDPWave(e) \/ StartStep(e) \/ CountStep(e)
             \/ \E f \in Frontends : AddRequest(f, e) \/ \E r \in Requests : AddRequestAsync(f, e, r)
      PROVE  UNCHANGED <<feWave, feRunning, frontQueue, stateQueue, coord>>
  BY <1>7 DEF StartDPWave, StartStep, CountStep, AddRequest, AddRequestAsync, feVars
<1>8. Forward \/ AllReduce \/ Wait => UNCHANGED <<feWave, feRunning, frontQueue, stateQueue, coord>>
  BY DEF Forward, AllReduce, Wait, vars, feVars
<1> QED
  BY <1>1, <1>2, <1>4, <1>5, <1>6, <1>7, <1>8
  DEF Next, StatsTask, CoordinatorStep, ProcessInput, EngineStep, Collective

-----------------------------------------------------------------------------
(* The theorems                                                            *)

\* The invariant holds at the start.
LEMMA InitIInv == Init => IInv
<1> SUFFICES ASSUME Init PROVE IInv
  OBVIOUS
<1> USE DEF Init
<1>0. \A S : << >> \in Seq(S) /\ Range(<< >>) = {}
  BY EmptySeq DEF Range
<1>1. TypeInv
  <2>1. coord \in State
    BY DEF State
  <2>2. place \in [Requests -> Int]
    BY DEF AtClient
  <2> QED BY <1>0, <2>1, <2>2 DEF TypeInv
<1>2. InLockstep
  BY DEF InLockstep, Counted
<1>3. NoWaveAhead
  BY <1>0 DEF NoWaveAhead
<1>4. SentOnce
  <2>1. NoDup(<< >>) /\ Reqs(<< >>) = {}
    BY <1>0 DEF NoDup, Reqs
  <2> QED BY <2>1, DPAssumption DEF SentOnce
<1>5. PauseReported /\ RunningForAReason /\ ViewsFollow
  BY <1>0 DEF PauseReported, RunningForAReason, ViewsFollow
<1> QED BY <1>1, <1>2, <1>3, <1>4, <1>5 DEF IInv

\* Every step keeps it.
LEMMA NextIInv == IInv /\ [Next]_vars => IInv'
<1>1. CASE IInv /\ Next
  BY <1>1, TypeNext, LockstepNext, WavesNext, SentOnceNext, PauseReportedNext, ReasonNext,
     ViewsNext DEF IInv
<1>2. CASE IInv /\ UNCHANGED vars
  <2>1. Next
    BY <1>2 DEF Next, Wait
  <2> QED BY <1>1, <1>2, <2>1
<1> QED BY <1>1, <1>2

\* The conjunction of the seven parts is an invariant, for any number of
\* engines, front ends and requests, any length of a request and any SyncEvery.
THEOREM Invariance == Spec => []IInv
BY InitIInv, NextIInv, PTL DEF Spec

\* No engine is in a forward pass while another waits in the all-reduce.
THEOREM CollectivesMatch == Spec => []SameCollective
<1>1. IInv => SameCollective
  BY DEF IInv, InLockstep, SameCollective, Counted, TypeInv
<1> QED BY <1>1, Invariance, PTL

\* The wave of every engine counts the pauses, and when all is quiet the
\* coordinator and the front ends know that the engines pause, and since when.
THEOREM PausesAreKnown == Spec => []PauseIsKnown
<1>1. IInv => PauseIsKnown
  <2> SUFFICES ASSUME IInv, ~InFlight,
                      \A e \in Engines : pc[e] = "input" /\ ~running[e] /\ Local(e) = {}
               PROVE  /\ coord = [wave |-> pauses, running |-> FALSE]
                      /\ \A f \in Frontends : feWave[f] = pauses /\ ~feRunning[f]
    BY DEF PauseIsKnown, IInv, NoWaveAhead
  <2>1. /\ \A f \in Frontends : frontQueue[f] = << >> /\ stateQueue[f] = << >>
        /\ \A e \in Engines : Range(wakeQueue[e]) = {} /\ Range(backQueue[e]) = {}
    BY DEF InFlight, Range
  <2>2. coord.wave = pauses
    BY <2>1, ConstantFacts DEF IInv, PauseReported
  <2>3. ~coord.running
    BY <2>1, <2>2 DEF IInv, RunningForAReason, Active
  <2>4. coord = [wave |-> pauses, running |-> FALSE]
    BY <2>2, <2>3 DEF IInv, TypeInv, State
  <2>5. \A f \in Frontends : feWave[f] = pauses /\ ~feRunning[f]
    BY <2>1, <2>2, <2>3 DEF IInv, ViewsFollow
  <2> QED BY <2>4, <2>5
<1> QED BY <1>1, Invariance, PTL
=============================================================================
