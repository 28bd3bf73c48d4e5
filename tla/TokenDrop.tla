------------------------------ MODULE TokenDrop ------------------------------
(***************************************************************************)
(* UniPrefill's token dropping in the model runner.  During a prefill some *)
(* decoder layers drop the tokens that matter least, so that the layers    *)
(* after them compute, and cache, fewer tokens of a request than the       *)
(* layers before.  The scheduler knows nothing of it: it counts the same   *)
(* number of computed tokens for all layers.  The runner therefore keeps a *)
(* record per request, _token_drop_per_req, of how many tokens each layer  *)
(* has, from which it derives where a decode step writes and how much it   *)
(* reads, layer by layer.                                                  *)
(*                                                                         *)
(* A request's slots are numbered through its own block table, so slot s   *)
(* of layer l is entry s % block_size of block s / block_size.  The tokens *)
(* of a request are numbered from 0 and stand for their KV; which of them  *)
(* top-p selection drops is left open, except for those it must keep.      *)
(* Blocks are not shared (enable_prefix_caching is off).  Layers with a    *)
(* sliding window (Gemma3) are in a cache group of their own, of which the *)
(* manager takes back the blocks that the window has left.                 *)
(***************************************************************************)
EXTENDS Integers, Sequences, FiniteSets, FiniteSetsExt, Functions

CONSTANTS Requests,
          PromptLen,        \* [Requests -> Nat \ {0}]
          MaxLen,           \* [Requests -> Nat], prompt and generated tokens
          NumLayers,        \* num_hidden_layers
          DropLayers,       \* drop_layer_indices
          BlockSize,        \* slots of a block
          Configs           \* the configurations a server may be started with

Layer == 0 .. (NumLayers - 1)

ASSUME DropAssumption ==
  /\ IsFiniteSet(Requests)
  /\ PromptLen \in [Requests -> Nat \ {0}] /\ MaxLen \in [Requests -> Nat]
  /\ \A r \in Requests : PromptLen[r] < MaxLen[r]
  /\ NumLayers \in Nat /\ DropLayers \subseteq Layer /\ DropLayers # {}
  /\ BlockSize \in Nat \ {0}
  /\ Configs \subseteq [attentionSink : Nat \ {0}, lastQ : Nat \ {0},
                         sliding : SUBSET Layer, slidingWindow : Nat \ {0},
                         chunkedPrefill : BOOLEAN, preemption : BOOLEAN]

VARIABLES config,        \* one of Configs
          status,        \* "waiting", "running" or "finished"
          numTokens,     \* request.num_tokens
          numComputed,   \* request.num_computed_tokens
          record,        \* _token_drop_per_req, << >> without entry
          kv,            \* the KV in the slots of every layer of a request
          alive,         \* the tokens of a request that entered each layer
          attended,      \* what the last step of a request read in each layer
          sampled        \* the token whose logits the last step sampled from

vars == <<config, status, numTokens, numComputed, record, kv, alive, attended, sampled>>

AttentionSink  == config.attentionSink    \* drop_config['attention_sink']
LastQ          == config.lastQ            \* drop_config['last_q']
Sliding        == config.sliding          \* the layers of type sliding_attention
SlidingWindow  == config.slidingWindow
ChunkedPrefill == config.chunkedPrefill   \* may the scheduler split a prompt?
Preemption     == config.preemption       \* may it preempt a running request?

Slot(r)  == 0 .. (MaxLen[r] - 1)
Token(r) == 0 .. (MaxLen[r] - 1)

\* An entry of a record: so many tokens are left after a layer.
Entry(layer, len) == [layer |-> layer, len |-> len]

\* How many elements of S are before x, and S in increasing order.
Before(S, x)   == Cardinality({y \in S : y < x})
Increasing(S)  == [i \in 1 .. Cardinality(S) |-> CHOOSE x \in S : Before(S, x) = i - 1]
MaxNat(a, b)   == IF a >= b THEN a ELSE b

-----------------------------------------------------------------------------
(* A step of the runner.  batch is the sequence of its requests in the     *)
(* order of the input batch, q their numbers of scheduled tokens, and      *)
(* dropped[l] the tokens that top-p selection leaves out in layer l if it  *)
(* drops at all.                                                           *)

\* The tokens a request computes in the step.
Query(q, r) == numComputed[r] .. (numComputed[r] + q[r] - 1)

\* seq_lens of the step: the scheduler's count with the tokens of the step.
KvLen(q, r) == numComputed[r] + q[r]

\* is_prefill_step, and _is_mixed_or_prefill_step of the runner.
IsPrefillStep(batch, q) == \E r \in Range(batch) : q[r] > 1

\* A fault: the last tokens are not protected.
DroppableLast(q, r) == {t \in Query(q, r) : Before(Query(q, r), t) >= AttentionSink}

\* expand_block_mask_kernel: sink and last tokens are always kept.
Droppable(q, r) == {t \in Query(q, r) : /\ Before(Query(q, r), t) >= AttentionSink
                                        /\ Before(Query(q, r), t) < q[r] - LastQ}

\* should_drop of LlamaModel.forward for layer l, which the tokens h enter.
ShouldDrop(batch, q, h, l) ==
  /\ IsPrefillStep(batch, q)
  /\ l \in DropLayers
  /\ MapThenSumSet(LAMBDA r : Cardinality(h[r]), Range(batch)) > AttentionSink + LastQ

\* topselectionvarlen: the tokens that layer l leaves of h.  A request with a
\* single token is spared.
Kept(q, dropped, h, l) ==
  [r \in DOMAIN h |->
     IF Cardinality(h[r]) > 1
       THEN h[r] \ {t \in Droppable(q, r) : <<r, t>> \in dropped[l]}
       ELSE h[r]]

\* hidden[l][r]: the tokens of r whose hidden states enter layer l, or for
\* l = NumLayers the ones that leave the last layer.
Hidden(batch, q, dropped) ==
  LET hidden[l \in 0 .. NumLayers] ==
        IF l = 0 THEN [r \in Range(batch) |-> Query(q, r)]
        ELSE IF ShouldDrop(batch, q, hidden[l - 1], l - 1)
               THEN Kept(q, dropped, hidden[l - 1], l - 1)
               ELSE hidden[l - 1]
  IN  hidden

\* _update_metadata_after_drop has rewritten the metadata of layer l.
Rewritten(batch, q, hidden, l) == \E d \in 0 .. (l - 1) : ShouldDrop(batch, q, hidden[d], d)

\* seq_lens in the metadata of layer l.  After a drop a decode request gets its
\* real length only in a step that is not mixed, and no such step drops.
MetaSeqLen(batch, q, hidden, l, r) ==
  IF ~Rewritten(batch, q, hidden, l) \/ (q[r] = 1 /\ ~IsPrefillStep(batch, q))
    THEN KvLen(q, r)
    ELSE Cardinality(hidden[l][r])

\* A fault: the slots are not compacted after a drop.
MetaSlotUncompacted(batch, q, hidden, l, r, t) == t

\* slot_mapping of layer l: the position of the token, or after a drop its
\* index among the tokens left; for a decode request the end of seq_lens.
MetaSlot(batch, q, hidden, l, r, t) ==
  IF ~Rewritten(batch, q, hidden, l) THEN t
  ELSE IF q[r] = 1 THEN MetaSeqLen(batch, q, hidden, l, r) - 1
  ELSE Before(hidden[l][r], t)

-----------------------------------------------------------------------------
(* What the runner and the attention backends derive from the records      *)

FirstDrop == CHOOSE l \in DropLayers : \A m \in DropLayers : l <= m

\* _decode_per_layer_seq_lens exists and covers layer l.
Overridden(batch, l) == l > FirstDrop /\ \E r \in Range(batch) : record[r] # << >>

\* _sl_at_fl: the length left by the last recorded drop before layer l.
LenAtLayer(r, l) ==
  LET passed == {i \in 2 .. Len(record[r]) : record[r][i].layer < l}
  IN  record[r][Cardinality(passed) + 1].len

\* _seqused: the tokens of r in layer l, those of the step included.
SeqUsed(q, r, l) ==
  IF record[r] = << >> THEN KvLen(q, r)
  ELSE LenAtLayer(r, l) + MaxNat(0, KvLen(q, r) - record[r][1].len)

\* FlashAttentionImpl.forward: how many slots of layer l are read for r.
ReadLen(batch, q, hidden, l, r) ==
  IF Overridden(batch, l) /\ Cardinality(hidden[l][r]) = 1
    THEN SeqUsed(q, r, l)
    ELSE MetaSeqLen(batch, q, hidden, l, r)

\* query_start_loc: where the tokens of the i-th request start.
QueryStartLoc(batch, hidden, l, i) ==
  MapThenSumSet(LAMBDA j : Cardinality(hidden[l][batch[j]]), 1 .. (i - 1))

\* do_kv_cache_update: the writes <<owner of the slot, slot, request, token>> of
\* layer l.  With records in play and no decode request in the batch, the slot
\* mapping is the one computed for a decode: an entry per request, so that only
\* as many tokens as there are requests are stored, in the order of the batch.
KVWrites(batch, q, hidden, l) ==
  LET index(i, t) == QueryStartLoc(batch, hidden, l, i) + Before(hidden[l][batch[i]], t)
  IN  IF Overridden(batch, l) /\ \A r \in Range(batch) : Cardinality(hidden[l][r]) # 1
        THEN UNION {{<<batch[j], SeqUsed(q, batch[j], l) - 1, batch[i], t>> :
                       t \in {t \in hidden[l][batch[i]] : index(i, t) = j - 1}} :
                    i \in DOMAIN batch, j \in DOMAIN batch}
        ELSE UNION {{<<r, IF Overridden(batch, l) /\ Cardinality(hidden[l][r]) = 1
                            THEN SeqUsed(q, r, l) - 1
                            ELSE MetaSlot(batch, q, hidden, l, r, t),
                       r, t>> : t \in hidden[l][r]} : r \in Range(batch)}

\* A fault: the lengths recorded are those before the drop of the layer.
NewRecordEarly(batch, q, hidden, r) ==
  LET drops == Increasing({l \in DropLayers : ShouldDrop(batch, q, hidden[l], l)})
  IN  <<Entry(0, KvLen(q, r))>> \o
      [i \in 1 .. Len(drops) |-> Entry(drops[i], Cardinality(hidden[drops[i]][r]))]

\* per_layer_seq_lens of LlamaModel.forward: the length before any drop, then
\* the length left by every layer that dropped.
NewRecord(batch, q, hidden, r) ==
  LET drops == Increasing({l \in DropLayers : ShouldDrop(batch, q, hidden[l], l)})
  IN  <<Entry(0, KvLen(q, r))>> \o
      [i \in 1 .. Len(drops) |-> Entry(drops[i], Cardinality(hidden[drops[i] + 1][r]))]

-----------------------------------------------------------------------------
(* Layers with a sliding window                                            *)

\* How many slots a query reads in layer l at most, its own included.
Window(r, l) == IF l \in Sliding THEN SlidingWindow ELSE MaxLen[r]

\* get_num_skipped_tokens, by the scheduler's count.
NumSkippedTokens(r) == MaxNat(0, numComputed[r] - SlidingWindow + 1)

\* remove_skipped_blocks: the slots of layer l below this are given back before
\* the step.  The runner's block table still has them.
TakenBack(r, l) ==
  IF l \in Sliding THEN (NumSkippedTokens(r) \div BlockSize) * BlockSize ELSE 0

\* Whether others have got them by the time of the step.
Reuses(batch) ==
  {reused \in BOOLEAN : reused => \E r \in Range(batch), l \in Layer : TakenBack(r, l) > 0}

-----------------------------------------------------------------------------
Unwritten == << >>

Init ==
  /\ config \in Configs
  /\ status = [r \in Requests |-> "waiting"]
  /\ numTokens = PromptLen
  /\ numComputed = [r \in Requests |-> 0]
  /\ record = [r \in Requests |-> << >>]
  /\ kv = [r \in Requests |-> [l \in Layer |-> [s \in Slot(r) |-> Unwritten]]]
  /\ alive = [r \in Requests |-> [l \in Layer |-> {}]]
  /\ attended = [r \in Requests |-> [l \in Layer |-> << >>]]
  /\ sampled = [r \in Requests |-> -1]

\* The batches the scheduler may form of the unfinished requests.
Batches ==
  LET rs == {r \in Requests : status[r] # "finished"}
  IN  UNION {{b \in [1 .. n -> rs] : IsInjective(b)} : n \in 1 .. Cardinality(rs)}

\* The numbers of tokens schedule() may give a request: all that are not
\* computed yet, or with chunked prefill some of them.
Scheduled(r) ==
  LET n == numTokens[r] - numComputed[r]
  IN  IF ChunkedPrefill THEN 1 .. n ELSE {n}

\* The outcomes of top-p selection: a token is left out by one layer at most.
Selections(batch, q) ==
  LET tokens == UNION {{<<r, t>> : t \in Droppable(q, r)} : r \in Range(batch)}
  IN  {d \in [DropLayers -> SUBSET tokens] :
         \A l, m \in DropLayers : l # m => d[l] \cap d[m] = {}}

\* execute_model: the forward pass over all layers, then the bookkeeping of the
\* records.  A slot is written at most once in a layer; one that was taken back
\* may be reused by others.
StoredKV(batch, q, hidden, reused) ==
  LET writes == [l \in Layer |-> KVWrites(batch, q, hidden, l)] IN
  [r \in Requests |-> [l \in Layer |-> [s \in Slot(r) |->
     LET ws == {w \in writes[l] : w[1] = r /\ w[2] = s}
     IN  IF reused /\ r \in Range(batch) /\ s < TakenBack(r, l) THEN Unwritten
         ELSE IF ws = {} THEN kv[r][l][s]
         ELSE LET w == CHOOSE w \in ws : TRUE IN <<w[3], w[4]>>]]]

Forward(batch, q, hidden, reused) ==
  /\ kv' = StoredKV(batch, q, hidden, reused)
  /\ attended' = [r \in Requests |->
       IF r \in Range(batch)
         THEN [l \in Layer |->
                 LET len   == ReadLen(batch, q, hidden, l, r)
                     first == MaxNat(0, len - Window(r, l))
                 IN  [i \in 1 .. (len - first) |-> kv'[r][l][first + i - 1]]]
         ELSE attended[r]]
  /\ alive' = [r \in Requests |->
       IF r \in Range(batch)
         THEN [l \in Layer |-> alive[r][l] \cup hidden[l][r]]
         ELSE alive[r]]
  /\ sampled' = [r \in Requests |->
       IF r \in Range(batch) THEN Max(hidden[NumLayers][r]) ELSE sampled[r]]

\* token_drop_applied: the records of the prefills of the step are replaced.
SaveRecords(batch, q, hidden) ==
  record' = [r \in Requests |->
    IF r \in Range(batch) /\ q[r] > 1 /\ Rewritten(batch, q, hidden, NumLayers)
      THEN NewRecord(batch, q, hidden, r)
      ELSE record[r]]

\* One step of the engine: schedule, execute_model, and update_from_output,
\* which appends a token to every request that has all its tokens computed.
Step ==
  \E batch \in Batches :
    \E q \in {q \in [Range(batch) -> 1 .. Max(Range(MaxLen))] :
               \A r \in Range(batch) : q[r] \in Scheduled(r)} :
      \E dropped \in Selections(batch, q), reused \in Reuses(batch) :
        LET hidden == Hidden(batch, q, dropped)
            inBatch(r) == r \in Range(batch)
            done(r)    == inBatch(r) /\ numComputed[r] + q[r] = numTokens[r]
        IN  /\ \A r \in Range(batch) : numTokens[r] < MaxLen[r]
            /\ Forward(batch, q, hidden, reused)
            /\ SaveRecords(batch, q, hidden)
            /\ UNCHANGED config
            /\ status' = [r \in Requests |-> IF inBatch(r) THEN "running" ELSE status[r]]
            /\ numComputed' = [r \in Requests |->
                 IF inBatch(r) THEN numComputed[r] + q[r] ELSE numComputed[r]]
            /\ numTokens' = [r \in Requests |->
                 IF done(r) THEN numTokens[r] + 1 ELSE numTokens[r]]

\* The blocks of r are freed.
ReleaseKV(r) ==
  /\ kv' = [kv EXCEPT ![r] = [l \in Layer |-> [s \in Slot(r) |-> Unwritten]]]
  /\ alive' = [alive EXCEPT ![r] = [l \in Layer |-> {}]]
  /\ attended' = [attended EXCEPT ![r] = [l \in Layer |-> << >>]]
  /\ sampled' = [sampled EXCEPT ![r] = -1]

\* A stopped or aborted request; _update_states of the runner pops its record.
Finish(r) ==
  /\ status[r] # "finished"
  /\ status' = [status EXCEPT ![r] = "finished"]
  /\ record' = [record EXCEPT ![r] = << >>]
  /\ ReleaseKV(r)
  /\ UNCHANGED <<config, numTokens, numComputed>>

\* _preempt_request: the computed tokens are given up, the record stays.
Preempt(r) ==
  /\ Preemption
  /\ status[r] = "running"
  /\ status' = [status EXCEPT ![r] = "waiting"]
  /\ numComputed' = [numComputed EXCEPT ![r] = 0]
  /\ ReleaseKV(r)
  /\ UNCHANGED <<config, numTokens, record>>

Next == Step \/ (\E r \in Requests : Finish(r) \/ Preempt(r))

Spec == Init /\ [][Next]_vars

-----------------------------------------------------------------------------
(* Properties                                                              *)

HasComputed(r) == status[r] = "running" /\ numComputed[r] > 0

\* The state is well formed, and no layer ever holds more tokens of a request
\* than the scheduler has counted and given slots to.
TypeOK ==
  /\ status \in [Requests -> {"waiting", "running", "finished"}]
  /\ \A r \in Requests :
       /\ numTokens[r] \in PromptLen[r] .. MaxLen[r]
       /\ numComputed[r] \in 0 .. numTokens[r]
       /\ sampled[r] \in -1 .. (numTokens[r] - 1)
       /\ \A i \in DOMAIN record[r] :
            record[r][i].layer \in Layer /\ record[r][i].len \in 1 .. numTokens[r]
       /\ \A l \in Layer : /\ alive[r][l] \subseteq Token(r)
                          /\ Len(attended[r][l]) <= numComputed[r]

\* What the attention of the last step of a request read in a layer is exactly
\* the KV of the request's own tokens that reached that layer, in a sliding layer
\* the last ones, each once and in order: the per-layer lengths and slot mappings
\* of _update_metadata_after_drop and of the runner agree with what earlier steps
\* stored, and with what the manager has left to the request.
AttentionReadsItsTokens ==
  \A r \in Requests : HasComputed(r) =>
    \A l \in Layer :
      LET tokens == Increasing(alive[r][l])
          first  == MaxNat(0, Len(tokens) - Window(r, l))
      IN  attended[r][l] = [i \in 1 .. (Len(tokens) - first) |-> <<r, tokens[first + i]>>]

\* The record of a request and the scheduler's count of computed tokens
\* determine how many tokens every layer has, which is what the next decode
\* step relies on: _seqused, without the tokens of that step.
RecordCounts ==
  /\ TypeOK
  /\ \A r \in Requests : HasComputed(r) =>
       \A l \in Layer : SeqUsed([x \in Requests |-> 0], r, l) = Cardinality(alive[r][l])

\* The logits of a request are those of its last computed token, whatever was
\* dropped before it (logits_indices after token_drop_applied).
SampledFromLastToken ==
  \A r \in Requests : HasComputed(r) => sampled[r] = numComputed[r] - 1
=============================================================================
