----------------------------- MODULE ShmBroadcast -----------------------------
(***************************************************************************)
(* The message queue between the processes of an engine, MessageQueue of   *)
(* distributed/device_communicators/shm_broadcast.py: a ring buffer in     *)
(* shared memory with one writer and one flag per reader in every slot, a  *)
(* socket for the messages that do not fit a slot, and a socket for the    *)
(* readers of other nodes.                                                 *)
(*                                                                         *)
(* No lock guards the ring.  A process's stores go through a buffer of its *)
(* own, from which they reach memory in their order (TSO, x86) or in any   *)
(* order that keeps the stores to one cell in turn (weak, Arm);            *)
(* memory_fence waits until the buffer is empty.  Loads are done in order. *)
(***************************************************************************)
EXTENDS Integers, Sequences, SequencesExt

CONSTANTS Local, Remote,   \* the readers
          MaxChunks,       \* slots of the ring
          TSO,             \* the hardware keeps the order of stores
          RecvTimeouts,    \* the readers that call dequeue with a timeout
          MaxMessages      \* bound on the calls of enqueue

ASSUME ShmAssumption ==
  /\ Local \cap Remote = {} /\ MaxChunks \in Nat \ {0}
  /\ TSO \in BOOLEAN /\ RecvTimeouts \subseteq (Local \cup Remote) /\ MaxMessages \in Nat

Writer    == "writer"
Processes == {Writer} \cup Local
Readers   == Local \cup Remote
Slots     == 0 .. (MaxChunks - 1)
OnSocket  == -1    \* in place of a message that is not in the ring

\* The cells of a slot: overflow byte, message, written flag, reader flags.
Overflow(i)  == <<i, "overflow">>
Body(i)      == <<i, "body">>
Written(i)   == <<i, "written">>
ReadBy(i, r) == <<i, r>>
Cells == (Slots \X {"overflow", "body", "written"}) \cup (Slots \X Local)

VARIABLES memory,     \* [Cells -> Nat]
          buffer,     \* buffer[p]: the stores of p on their way, oldest first
          pc, idx,    \* where a process is, its current_idx
          loaded,     \* what a process has loaded in this call
          next,       \* the message of the writer's call, and whether it is big
          socket,     \* socket[r]: the messages sent to r and not received
          sent, received   \* histories, see BroadcastQueue

vars == <<memory, buffer, pc, idx, loaded, next, socket, sent, received>>

Store(p, stores)  == buffer' = [buffer EXCEPT ![p] = @ \o stores]
Goto(p, l)        == pc' = [pc EXCEPT ![p] = l]
NextSlot(i)       == (i + 1) % MaxChunks

Init ==
  /\ memory = [c \in Cells |-> 0]
  /\ buffer = [p \in Processes |-> << >>]
  /\ pc = [p \in Processes \cup Remote |->
             IF p = Writer THEN "idle" ELSE IF p \in Local THEN "poll" ELSE "recv"]
  /\ idx = [p \in Processes |-> 0]
  /\ loaded = [p \in Processes |-> 0]
  /\ next = [msg |-> 0, big |-> FALSE]
  /\ socket = [r \in Readers |-> << >>]
  /\ sent = << >>
  /\ received = [r \in Readers |-> << >>]

-----------------------------------------------------------------------------
(* Memory                                                                  *)

\* Store number k of p's buffer reaches memory.
FlushStore(p, k) ==
  /\ k \in DOMAIN buffer[p]
  /\ IF TSO THEN k = 1
            ELSE \A j \in 1 .. (k - 1) : buffer[p][j][1] # buffer[p][k][1]
  /\ memory' = [memory EXCEPT ![buffer[p][k][1]] = buffer[p][k][2]]
  /\ buffer' = [buffer EXCEPT ![p] = RemoveAt(@, k)]
  /\ UNCHANGED <<pc, idx, loaded, next, socket, sent, received>>

Flush(p) == \E k \in DOMAIN buffer[p] : FlushStore(p, k)

\* A fault: the process goes on while its stores are still on their way.
NoFence(p) == TRUE

\* memory_fence
Fenced(p) == buffer[p] = << >>

-----------------------------------------------------------------------------
(* enqueue and acquire_write                                               *)

\* The writer is called; big messages go over the socket of the local readers.
Enqueue(big) ==
  /\ pc[Writer] = "idle" /\ next.msg < MaxMessages
  /\ next' = [msg |-> next.msg + 1, big |-> big]
  /\ Goto(Writer, IF Local = {} THEN "remote" ELSE "count")
  /\ sent' = IF Local = {} THEN Append(sent, next'.msg) ELSE sent
  /\ UNCHANGED <<memory, buffer, idx, loaded, socket, received>>

\* read_count; the flags only go up while the writer looks at them.
CountReads ==
  /\ pc[Writer] = "count"
  /\ loaded' = [loaded EXCEPT ![Writer] =
                  Cardinality({r \in Local : memory[ReadBy(idx[Writer], r)] = 1})]
  /\ Goto(Writer, "check")
  /\ UNCHANGED <<memory, buffer, idx, next, socket, sent, received>>

\* Not written, or read by all readers.
SlotIsFree == memory[Written(idx[Writer])] = 0 \/ loaded[Writer] = Cardinality(Local)

\* The writer spins, or gives up (TimeoutError), until the slot is free; then
\* it is marked as not written.
AcquireWrite ==
  /\ pc[Writer] = "check"
  /\ \/ SlotIsFree /\ Goto(Writer, "write") /\ Store(Writer, <<<<Written(idx[Writer]), 0>>>>)
     \/ ~SlotIsFree /\ Goto(Writer, "count") /\ UNCHANGED buffer
     \/ ~SlotIsFree /\ Goto(Writer, "idle") /\ UNCHANGED buffer
  /\ UNCHANGED <<memory, idx, loaded, next, socket, sent, received>>

\* The caller's stores.
Write ==
  /\ pc[Writer] = "write"
  /\ Store(Writer, IF next.big
                     THEN <<<<Overflow(idx[Writer]), 1>>>>
                     ELSE <<<<Overflow(idx[Writer]), 0>>, <<Body(idx[Writer]), next.msg>>>>)
  /\ Goto(Writer, "publish")
  /\ UNCHANGED <<memory, idx, loaded, next, socket, sent, received>>

ClearFlags(i) == SetToSeq({<<ReadBy(i, r), 0>> : r \in Local})

\* First the reader flags, then the written flag.
PublishStores(i) == ClearFlags(i) \o <<<<Written(i), 1>>>>

Publish ==
  /\ pc[Writer] = "publish"
  /\ Store(Writer, PublishStores(idx[Writer]))
  /\ sent' = Append(sent, next.msg)
  /\ Goto(Writer, "fence")
  /\ UNCHANGED <<memory, idx, loaded, next, socket, received>>

\* After the fence the ring moves on.
EndWrite ==
  /\ pc[Writer] = "fence" /\ Fenced(Writer)
  /\ idx' = [idx EXCEPT ![Writer] = NextSlot(@)]
  /\ Goto(Writer, IF next.big THEN "send" ELSE "remote")
  /\ UNCHANGED <<memory, buffer, loaded, next, socket, sent, received>>

SendTo(S) == socket' = [r \in Readers |-> IF r \in S THEN Append(socket[r], next.msg) ELSE socket[r]]

\* local_socket.send_multipart
SendLocal ==
  /\ pc[Writer] = "send"
  /\ SendTo(Local)
  /\ Goto(Writer, "remote")
  /\ UNCHANGED <<memory, buffer, idx, loaded, next, sent, received>>

\* remote_socket.send_multipart, if there are remote readers.
SendRemote ==
  /\ pc[Writer] = "remote"
  /\ SendTo(Remote)
  /\ Goto(Writer, "idle")
  /\ UNCHANGED <<memory, buffer, idx, loaded, next, sent, received>>

-----------------------------------------------------------------------------
(* dequeue and acquire_read, called again and again                        *)

LoadReadFlag(r) ==
  /\ pc[r] = "poll"
  /\ loaded' = [loaded EXCEPT ![r] = memory[ReadBy(idx[r], r)]]
  /\ Goto(r, "check")
  /\ UNCHANGED <<memory, buffer, idx, next, socket, sent, received>>

\* A fault: the reader does not look at its own flag.
SlotIsReadyWritten(r) == memory[Written(idx[r])] = 1

\* Written and not read by this reader.
SlotIsReady(r) == memory[Written(idx[r])] = 1 /\ loaded[r] = 0

\* The reader spins, or its call times out and it calls again.
AcquireRead(r) ==
  /\ pc[r] = "check"
  /\ Goto(r, IF SlotIsReady(r) THEN "overflow" ELSE "poll")
  /\ UNCHANGED <<memory, buffer, idx, loaded, next, socket, sent, received>>

ReadOverflow(r) ==
  /\ pc[r] = "overflow"
  /\ Goto(r, IF memory[Overflow(idx[r])] = 1 THEN "mark" ELSE "body")
  /\ loaded' = [loaded EXCEPT ![r] = OnSocket]
  /\ UNCHANGED <<memory, buffer, idx, next, socket, sent, received>>

ReadBody(r) ==
  /\ pc[r] = "body"
  /\ loaded' = [loaded EXCEPT ![r] = memory[Body(idx[r])]]
  /\ Goto(r, "mark")
  /\ UNCHANGED <<memory, buffer, idx, next, socket, sent, received>>

\* The slot is read: the writer may use it again.
MarkRead(r) ==
  /\ pc[r] = "mark"
  /\ Store(r, <<<<ReadBy(idx[r], r), 1>>>>)
  /\ Goto(r, "fence")
  /\ UNCHANGED <<memory, idx, loaded, next, socket, sent, received>>

\* After the fence the reader has its message or turns to the socket.
EndRead(r) ==
  /\ pc[r] = "fence" /\ Fenced(r)
  /\ idx' = [idx EXCEPT ![r] = NextSlot(@)]
  /\ IF loaded[r] = OnSocket
       THEN Goto(r, "recv") /\ UNCHANGED received
       ELSE Goto(r, "poll") /\ received' = [received EXCEPT ![r] = Append(@, loaded[r])]
  /\ UNCHANGED <<memory, buffer, loaded, next, socket, sent>>

\* MessageQueue.recv
Recv(r) ==
  /\ pc[r] = "recv" /\ socket[r] # << >>
  /\ received' = [received EXCEPT ![r] = Append(@, Head(socket[r]))]
  /\ socket' = [socket EXCEPT ![r] = Tail(@)]
  /\ Goto(r, IF r \in Local THEN "poll" ELSE "recv")
  /\ UNCHANGED <<memory, buffer, idx, loaded, next, sent>>

\* recv gives up (TimeoutError), and the caller dequeues again later.
RecvTimeout(r) ==
  /\ r \in RecvTimeouts
  /\ pc[r] = "recv" /\ socket[r] = << >>
  /\ Goto(r, IF r \in Local THEN "poll" ELSE "recv")
  /\ UNCHANGED <<memory, buffer, idx, loaded, next, socket, sent, received>>

-----------------------------------------------------------------------------
WriterStep == \/ CountReads \/ AcquireWrite \/ Write \/ Publish \/ EndWrite
              \/ SendLocal \/ SendRemote

ReaderStep(r) == LoadReadFlag(r) \/ AcquireRead(r) \/ ReadOverflow(r) \/ ReadBody(r)
                 \/ MarkRead(r) \/ EndRead(r)

\* A fence empties the buffer; nothing else makes a store visible in time.
Drain(p) == pc[p] = "fence" /\ Flush(p)

Next == \/ \E big \in BOOLEAN : Enqueue(big)
        \/ WriterStep
        \/ \E r \in Local : ReaderStep(r)
        \/ \E r \in Readers : Recv(r) \/ RecvTimeout(r)
        \/ \E p \in Processes : Flush(p)

\* Processes run; a reader is in a loop of dequeue.
Fairness ==
  /\ WF_vars(WriterStep)
  /\ \A p \in Processes : WF_vars(Drain(p))
  /\ \A r \in Local : WF_vars(ReaderStep(r))
  /\ \A r \in Readers : WF_vars(Recv(r))

Spec == Init /\ [][Next]_vars /\ Fairness

-----------------------------------------------------------------------------
(* Properties                                                              *)

\* The ring and the sockets implement the broadcast queue: no message is torn,
\* overwritten before it is read, read twice or out of order.
Abstract == INSTANCE BroadcastQueue WITH Messages <- 1 .. MaxMessages, Capacity <- MaxChunks + 1
IsBroadcastQueue == Abstract!Init /\ [][Abstract!Next]_<<sent, received>>

\* Every message reaches every reader: nobody spins forever ("Without this,
\* readers may spin indefinitely waiting for a write that's stuck").  The calls
\* of enqueue are bounded, so in the end all have been sent and received.
AllReceived == <>[](\A r \in Readers : received[r] = sent)
=============================================================================
