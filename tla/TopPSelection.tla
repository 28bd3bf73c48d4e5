---------------------------- MODULE TopPSelection ----------------------------
(***************************************************************************)
(* Which tokens a drop layer keeps: topselectionvarlen of                  *)
(* model_executor/layers/fused_top_p_selection_tp_pd.py on the ranks of a  *)
(* tensor parallel group.  Every rank scores the blocks of every prefill   *)
(* with its own heads, the scores are summed over the ranks, every rank    *)
(* cuts the sorted blocks where their mass exceeds p and expands the       *)
(* blocks to tokens, and rank 0's masks and lengths go to all.             *)
(*                                                                         *)
(* A step's kernels run in order on the stream of their rank; the ranks    *)
(* meet in the collectives.  The GEMM, softmax and per-block sum are the   *)
(* input part; scores are integers and p is the fraction PNum / PDen, so   *)
(* that arithmetic is exact.                                               *)
(***************************************************************************)
EXTENDS Integers, FiniteSets, Functions, FiniteSetsExt

CONSTANTS Requests,
          Configs,      \* number of ranks, and the scores a rank may give to a block
          SeqLens,      \* the lengths a request may have in the step
          BlockSize, AttentionSink, LastQ, PNum, PDen

ASSUME SelectionAssumption ==
  /\ IsFiniteSet(Requests) /\ IsFiniteSet(SeqLens) /\ SeqLens \subseteq Nat \ {0}
  /\ \A c \in Configs : c.tpSize \in Nat \ {0} /\ 0 \in c.scores /\ c.scores \subseteq Nat
  /\ BlockSize \in Nat \ {0} /\ LastQ \in Nat \ {0} /\ AttentionSink \in Nat
  /\ PNum \in Nat /\ PDen \in Nat \ {0} /\ PNum < PDen

VARIABLES config,      \* one of Configs
          seqLen,      \* [Requests -> SeqLens], equal on all ranks
          part,        \* part[k][r][i]: score of block i of r by the heads of rank k
          pc,          \* where every rank is
          b,           \* block scores of every rank
          m,           \* block mask of every rank, as the set of kept blocks
          tokenMask,   \* token mask, as the set of kept offsets in the request
          newLen       \* seqlens_out

vars == <<config, seqLen, part, pc, b, m, tokenMask, newLen>>

Ranks  == 0 .. (config.tpSize - 1)
Scores == config.scores

NumBlocks(len) == (len + BlockSize - 1) \div BlockSize
Blocks(len)    == 0 .. (NumBlocks(len) - 1)
Tokens(len)    == 0 .. (len - 1)

\* is_prefill_req
Prefills == {r \in Requests : seqLen[r] > 1}

SumOver(f, S) == MapThenSumSet(LAMBDA i : f[i], S)

-----------------------------------------------------------------------------
(* fused_top_p_kernel                                                      *)

\* triton.next_power_of_2 of the longest prefill of the batch, in blocks.
PaddedLen ==
  LET longest == Max({NumBlocks(seqLen[r]) : r \in Prefills})
      pow2[i \in 0 .. longest] == IF i = 0 THEN 1 ELSE 2 * pow2[i - 1]
  IN  CHOOSE n \in Range(pow2) : n >= longest /\ n < 2 * longest

\* Padding has score 0.
Padded(score, len) ==
  [i \in 0 .. (PaddedLen - 1) |-> IF i \in Blocks(len) THEN score[i] ELSE 0]

\* The place of i in the descending sort of the packed (score, index) pairs.
Before(s, i)   == {j \in DOMAIN s : s[j] > s[i] \/ (s[j] = s[i] /\ j > i)}
Position(s, i) == Cardinality(Before(s, i))

\* A fault: the block that takes the mass past p is cut too.
CutIncluding(s, n, i) ==
  LET before == {j \in Before(s, i) : Position(s, j) < n}
  IN  (SumOver(s, before) + s[i]) * PDen <= PNum * SumOver(s, DOMAIN s)

\* (cumsum_score - sorted_score) <= p, with the sorted scores from place n on
\* set to 0; a total of 0 makes all of them NaN.
WithinP(s, n, i) ==
  LET before == {j \in Before(s, i) : Position(s, j) < n}
      total  == SumOver(s, DOMAIN s)
  IN  total > 0 /\ SumOver(s, before) * PDen <= PNum * total

\* The mask of a request with these block scores: what the sort has put behind
\* the padding is not stored and stays zero.
TopP(score, len) ==
  LET s == Padded(score, len)
      n == NumBlocks(len)
  IN  {i \in Blocks(len) : /\ Position(s, i) < n
                           /\ WithinP(s, n, i) \/ Position(s, i) = 0}

\* expand_block_mask_kernel: the tokens of the kept blocks, the sink and the
\* last ones.
Expand(kept, len) ==
  {t \in Tokens(len) : \/ t \div BlockSize \in kept
                       \/ t < AttentionSink
                       \/ t >= len - LastQ}

-----------------------------------------------------------------------------
\* A block that a prefill does not have scores 0.
BlockScores(len) ==
  {f \in [0 .. (NumBlocks(Max(SeqLens)) - 1) -> Scores] :
     \A i \in DOMAIN f : (len > 1 /\ i \in Blocks(len)) \/ f[i] = 0}

Init ==
  /\ config \in Configs
  /\ seqLen \in [Requests -> SeqLens]
  /\ part \in [Ranks -> {f \in [Requests -> UNION {BlockScores(len) : len \in SeqLens}] :
                         \A r \in Requests : f[r] \in BlockScores(seqLen[r])}]
  /\ pc = [k \in Ranks |-> "start"]
  /\ b = [k \in Ranks |-> [r \in Requests |-> << >>]]
  /\ m = [k \in Ranks |-> [r \in Requests |-> {}]]
  /\ tokenMask = [k \in Ranks |-> [r \in Requests |-> {}]]
  /\ newLen = [k \in Ranks |-> [r \in Requests |-> 0]]

\* Without a prefill all tokens are kept; otherwise the block scores of the
\* rank's own heads are computed.
Score(k) ==
  /\ pc[k] = "start"
  /\ b' = [b EXCEPT ![k] = part[k]]
  /\ IF Prefills = {}
       THEN /\ pc' = [pc EXCEPT ![k] = "done"]
            /\ tokenMask' = [tokenMask EXCEPT ![k] = [r \in Requests |-> Tokens(seqLen[r])]]
            /\ newLen' = [newLen EXCEPT ![k] = seqLen]
       ELSE /\ pc' = [pc EXCEPT ![k] = IF Cardinality(Ranks) > 1 THEN "reduce" ELSE "top_p"]
            /\ UNCHANGED <<tokenMask, newLen>>
  /\ UNCHANGED <<config, seqLen, part, m>>

\* A fault: every rank goes on with the scores of its own heads.
OwnScores == b

\* The sum of the ranks' scores.
ReducedScores ==
  [k \in Ranks |-> [r \in Requests |-> [i \in DOMAIN b[k][r] |->
     SumOver([j \in Ranks |-> b[j][r][i]], Ranks)]]]

\* tp_group.all_reduce, when all ranks have got there.
AllReduce ==
  /\ \A k \in Ranks : pc[k] = "reduce"
  /\ b' = ReducedScores
  /\ pc' = [k \in Ranks |-> "top_p"]
  /\ UNCHANGED <<config, seqLen, part, m, tokenMask, newLen>>

\* fused_top_p_kernel on all prefills of the batch.
Select(k) ==
  /\ pc[k] = "top_p"
  /\ m' = [m EXCEPT ![k] = [r \in Requests |->
             IF r \in Prefills THEN TopP(b[k][r], seqLen[r]) ELSE {}]]
  /\ pc' = [pc EXCEPT ![k] = "expand"]
  /\ UNCHANGED <<config, seqLen, part, b, tokenMask, newLen>>

\* expand_block_mask_kernel writes the masks and the lengths of the prefills.
ExpandMask(k) ==
  LET mask == [r \in Requests |-> IF r \in Prefills THEN Expand(m[k][r], seqLen[r]) ELSE {}]
  IN  /\ pc[k] = "expand"
      /\ tokenMask' = [tokenMask EXCEPT ![k] = mask]
      /\ newLen' = [newLen EXCEPT ![k] = [r \in Requests |-> Cardinality(mask[r])]]
      /\ pc' = [pc EXCEPT ![k] = IF Cardinality(Ranks) > 1 THEN "mask" ELSE "scatter"]
      /\ UNCHANGED <<config, seqLen, part, b, m>>

\* The two broadcasts from rank 0, one after the other.
BroadcastMask ==
  /\ \A k \in Ranks : pc[k] = "mask"
  /\ tokenMask' = [k \in Ranks |-> tokenMask[0]]
  /\ pc' = [k \in Ranks |-> "lengths"]
  /\ UNCHANGED <<config, seqLen, part, b, m, newLen>>

BroadcastLengths ==
  /\ \A k \in Ranks : pc[k] = "lengths"
  /\ newLen' = [k \in Ranks |-> newLen[0]]
  /\ pc' = [k \in Ranks |-> "scatter"]
  /\ UNCHANGED <<config, seqLen, part, b, m, tokenMask>>

\* A fault: the requests that decode are forgotten.
KeepPrefillsOnly(mask) == mask

\* The tokens of requests that only decode are all kept.
KeepDecodes(mask) ==
  [r \in Requests |-> IF r \in Prefills THEN mask[r] ELSE Tokens(seqLen[r])]

\* token_mask and new_cu_seqlens of the whole batch.
Scatter(k) ==
  /\ pc[k] = "scatter"
  /\ tokenMask' = [tokenMask EXCEPT ![k] = KeepDecodes(@)]
  /\ newLen' = [newLen EXCEPT ![k] = [r \in Requests |->
                  IF r \in Prefills THEN newLen[k][r] ELSE seqLen[r]]]
  /\ pc' = [pc EXCEPT ![k] = "done"]
  /\ UNCHANGED <<config, seqLen, part, b, m>>

Done == /\ \A k \in Ranks : pc[k] = "done"
        /\ UNCHANGED vars

Next == \/ \E k \in Ranks : Score(k) \/ Select(k) \/ ExpandMask(k) \/ Scatter(k)
        \/ AllReduce \/ BroadcastMask \/ BroadcastLengths
        \/ Done

Spec == Init /\ [][Next]_vars

-----------------------------------------------------------------------------
(* Properties                                                              *)

\* Type invariant.
TypeOK ==
  /\ \A r \in Requests : seqLen[r] \in SeqLens
  /\ pc \in [Ranks -> {"start", "reduce", "top_p", "expand", "mask", "lengths",
                       "scatter", "done"}]
  /\ \A k \in Ranks, r \in Requests : /\ tokenMask[k][r] \subseteq Tokens(seqLen[r])
                                      /\ newLen[k][r] \in 0 .. seqLen[r]

\* The scores of the whole model for a block of r.
TotalScore(r, i) == SumOver([k \in Ranks |-> part[k][r][i]], Ranks)
Mass(r, S)       == SumOver([i \in S |-> TotalScore(r, i)], S)

\* What the operator is for, seen from the scores of all heads: the blocks kept
\* have more than p of the attention mass or all of it, no dropped block scores
\* higher than a kept one, and without the last of them the mass would not
\* exceed p.  This must hold whatever the number of ranks and whatever else is in
\* the batch, whose longest prefill sets the padding of the sort.
NucleusKept ==
  \A k \in Ranks, r \in Prefills :
    pc[k] \in {"expand", "mask"} =>
      LET all  == Blocks(seqLen[r])
          kept == m[k][r]
      IN  Mass(r, all) > 0 =>
            /\ Mass(r, kept) * PDen > PNum * Mass(r, all)
            /\ \A i \in kept, j \in all \ kept : TotalScore(r, i) >= TotalScore(r, j)
            /\ \E i \in kept : /\ \A j \in kept : TotalScore(r, j) >= TotalScore(r, i)
                               /\ Mass(r, kept \ {i}) * PDen <= PNum * Mass(r, all)

\* The result of every rank: sink, last tokens and decodes are kept, the lengths
\* (new_cu_seqlens) count the mask, and all ranks have the same.
ResultConsistent ==
  /\ TypeOK
  /\ \A k \in Ranks : pc[k] = "done" =>
       \A r \in Requests :
         /\ \A t \in Tokens(seqLen[r]) :
              t < AttentionSink \/ t >= seqLen[r] - LastQ => t \in tokenMask[k][r]
         /\ newLen[k][r] = Cardinality(tokenMask[k][r])
         /\ \A j \in Ranks : pc[j] = "done" => tokenMask[j][r] = tokenMask[k][r]

\* The blocks that native_imp.py cuts by p: those whose mass together with the
\* blocks before them is at most p, and the first one; equal scores are taken in
\* the order of the kernel, one of those torch.sort may give.
NativeTopP(r) ==
  LET all == Blocks(seqLen[r])
      s   == [i \in all |-> TotalScore(r, i)]
  IN  {i \in all : \/ Mass(r, Before(s, i) \cup {i}) * PDen <= PNum * Mass(r, all)
                   \/ Before(s, i) = {}}

\* The kernels keep what the reference implementation keeps and at most one
\* block more, the one that takes the mass past p.
CoversNative ==
  \A k \in Ranks, r \in Prefills :
    pc[k] \in {"expand", "mask"} /\ Mass(r, Blocks(seqLen[r])) > 0 =>
      /\ NativeTopP(r) \subseteq m[k][r]
      /\ Cardinality(m[k][r] \ NativeTopP(r)) <= 1
=============================================================================
