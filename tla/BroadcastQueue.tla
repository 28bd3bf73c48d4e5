---------------------------- MODULE BroadcastQueue ----------------------------
(***************************************************************************)
(* What MessageQueue (distributed/device_communicators/shm_broadcast.py)   *)
(* promises: "a queue where only one will enqueue and multiple will        *)
(* dequeue".  Every reader gets every message once and in order, and the   *)
(* writer is never more than Capacity messages ahead of a local reader.    *)
(***************************************************************************)
EXTENDS Integers, Sequences

CONSTANTS Messages, Local, Remote, Capacity

VARIABLES sent,      \* the messages enqueued
          received   \* received[r]: the messages reader r has dequeued

Readers == Local \cup Remote

Init == /\ sent = << >>
        /\ received = [r \in Readers |-> << >>]

Enqueue(m) ==
  /\ \A r \in Local : Len(sent) - Len(received[r]) < Capacity
  /\ sent' = Append(sent, m)
  /\ UNCHANGED received

Dequeue(r) ==
  /\ Len(received[r]) < Len(sent)
  /\ received' = [received EXCEPT ![r] = Append(@, sent[Len(@) + 1])]
  /\ UNCHANGED sent

Next == (\E m \in Messages : Enqueue(m)) \/ (\E r \in Readers : Dequeue(r))

Spec == Init /\ [][Next]_<<sent, received>>
=============================================================================
