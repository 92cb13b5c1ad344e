------------------------------ MODULE KVCache -------------------------------
(***************************************************************************)
(* Where a step's keys and values go in the paged cache of the attention   *)
(* layers, and which of them a decode reads back.                          *)
(*                                                                         *)
(* NeuronModelRunner turns a SchedulerOutput into flat token tensors padded*)
(* to compiled shapes, and into a slot mapping held in a buffer that is    *)
(* never cleared; block 0 is the null block, the target of every write     *)
(* that must not land.  Qwen3_6GQAAttention writes through the slot mapping*)
(* and reads a request's blocks, trimmed to a context bucket, under a mask *)
(* on positions.  Context parallelism is left out: this attention has none. *)
(*                                                                         *)
(* Steps without drafts: a decode row is one token, a prefill runs alone.  *)
(* The scheduler and its block allocator are external: KVServing.          *)
(***************************************************************************)
EXTENDS Integers, SequencesExt

CONSTANTS
  Req,          \* request ids
  NoReq,        \* not a request id
  PromptLen,    \* request -> prompt tokens
  NumBlocks,    \* blocks 1 .. NumBlocks of the cache, beside the null block
  BlockSize,
  MaxModelLen,  \* max_model_len
  MaxTokens,    \* length of the slot_mapping buffer
  SeqBuckets,   \* num_seqs_buckets
  CtxBuckets    \* decode_context_length_buckets

ASSUME KVSizeAssumption ==
  /\ NumBlocks \in Nat /\ BlockSize \in Nat \ {0}
  /\ MaxModelLen \in Nat \ {0} /\ MaxTokens \in Nat
ASSUME KVReqAssumption ==   \* the server refuses a longer prompt
  /\ IsFiniteSet(Req) /\ NoReq \notin Req
  /\ PromptLen \in [Req -> 1 .. MaxModelLen]
ASSUME KVBucketAssumption ==
  SeqBuckets \subseteq 1 .. MaxTokens /\ CtxBuckets \subseteq 1 .. MaxModelLen

VARIABLES
  batch,      \* input_batch.req_ids
  blockIds,   \* requests[r].block_ids
  row,        \* request in the batch -> its block table row
  fed,        \* tokens of a request fed so far
  slotMap,    \* the slot_mapping buffer
  cache,      \* block -> offset -> what is stored there
  attended,   \* what each row of the last step attended to, if a decode
  sampled     \* the token whose logits each row of the last step sampled

runnerVars == <<batch, blockIds, row, fed, slotMap, cache, attended, sampled>>

Blocks == 1 .. NumBlocks
NullBlock == 0
NullSlot == 0

CeilDiv(n, d) == (n + d - 1) \div d

(* A cached key or value, and a position of the flat token tensors. *)
Entry(r, pos) == [req |-> r, pos |-> pos]
Garbage == Entry(NoReq, 0)
History(r, n) == [i \in 1 .. n |-> Entry(r, i - 1)]
Token(r, pos, real) == [req |-> r, pos |-> pos, real |-> real]
Filler == Token(NoReq, 0, FALSE)

Entries == [req : Req \cup {NoReq}, pos : 0 .. MaxModelLen - 1]

KVTypeOK ==
  /\ batch \in Seq(Req)
  /\ blockIds \in [Req -> Seq(Blocks)] /\ row \in [Req -> Seq(Blocks)]
  /\ fed \in [Req -> 0 .. MaxModelLen]
  /\ slotMap \in [1 .. MaxTokens -> 0 .. (NumBlocks + 1) * BlockSize - 1]
  /\ cache \in [Blocks -> [0 .. BlockSize - 1 -> Entries]]
  /\ attended \in [Req -> Seq(Entries)]
  /\ sampled \in [Req -> Entries]

Init ==
  /\ batch = << >>
  /\ blockIds = [r \in Req |-> << >>] /\ row = [r \in Req |-> << >>]
  /\ fed = [r \in Req |-> 0]
  /\ slotMap = [i \in 1 .. MaxTokens |-> NullSlot]
  /\ cache = [b \in Blocks |-> [o \in 0 .. BlockSize - 1 |-> Garbage]]
  /\ attended = [r \in Req |-> << >>]
  /\ sampled = [r \in Req |-> Garbage]

-----------------------------------------------------------------------------
(* _update_states.  so is a SchedulerOutput: finished, new and resumed ids, *)
(* toks, padded and computed token counts, and the new blocks of a request. *)

Scheduled(so) == {r \in Req : so.toks[r] > 0}

(* Fault: the blocks of a resumed request are appended to its old ones. *)
BlockIdsExtended(so, r) ==
  IF r \in so.new THEN so.blocks[r]
  ELSE IF r \in Scheduled(so) THEN blockIds[r] \o so.blocks[r]
  ELSE IF r \in so.finished THEN << >> ELSE blockIds[r]

(* A resumed request's blocks are replaced, a running one's extended. *)
BlockIdsAfter(so, r) ==
  IF r \in so.new \cup so.resumed THEN so.blocks[r]
  ELSE IF r \in Scheduled(so) THEN blockIds[r] \o so.blocks[r]
  ELSE IF r \in so.finished THEN << >> ELSE blockIds[r]

(* Rows are appended to in place, and written anew for a request that      *)
(* enters the batch.                                                       *)
RowAfter(so, r) ==
  IF r \notin Scheduled(so) THEN << >>
  ELSE IF r \in ToSet(batch) \ (so.finished \cup so.resumed)
       THEN row[r] \o so.blocks[r]
  ELSE BlockIdsAfter(so, r)

(* The batch holds the scheduled requests in whatever order. *)
Arrangement(b, S) == ToSet(b) = S /\ Cardinality(S) = Len(b)

-----------------------------------------------------------------------------
(* The flat token tensors. *)

(* _create_padded_inputs pads every row when some row is a prefill. *)
HasPrefill(so, b) == \E r \in ToSet(b) : so.computed[r] < PromptLen[r]

RowLen(so, b, r) == IF HasPrefill(so, b) THEN so.padded[r] ELSE so.toks[r]

(* A row's tokens; padding repeats the last real position. *)
Segment(so, b, r) ==
  [i \in 1 .. RowLen(so, b, r) |->
     IF i <= so.toks[r] THEN Token(r, so.computed[r] + i - 1, TRUE)
     ELSE Token(r, so.computed[r] + so.toks[r] - 1, FALSE)]

(* The cumulative token counts: where the rows of the batch end. *)
CuNumTokens(so, b) ==
  LET cu[p \in 0 .. Len(b)] == IF p = 0 THEN 0 ELSE cu[p - 1] + RowLen(so, b, b[p])
  IN  cu

(* The rows one after the other. *)
Tokens(so, b) ==
  LET cu == CuNumTokens(so, b)
      RowOf(i) == CHOOSE p \in DOMAIN b : cu[p - 1] < i /\ i <= cu[p]
  IN  [i \in 1 .. cu[Len(b)] |-> Segment(so, b, b[RowOf(i)])[i - cu[RowOf(i) - 1]]]

(* max_query_len is at most the decode threshold, 1. *)
IsDecode(so, b) == \A r \in ToSet(b) : so.padded[r] = 1

(* _pad_to_compiled_shapes: decode tensors are filled up to the bucket. *)
PaddedTokens(so, b, width) ==
  LET toks == Tokens(so, b)
  IN  IF Len(toks) # Len(b) THEN toks
      ELSE toks \o [i \in 1 .. width - Len(b) |-> Filler]

(* Fault: with padding, the logits are those of the end of the segment. *)
LogitsIndexOfSegment(so, b, p) == CuNumTokens(so, b)[p]

(* logits_indices: the last real token of the row at position p. *)
LogitsIndex(so, b, p) ==
  CuNumTokens(so, b)[p] - (RowLen(so, b, b[p]) - so.toks[b[p]])

-----------------------------------------------------------------------------
(* The slot mapping. *)

(* A row is only looked up at positions its blocks cover. *)
BlockAt(blocks, pos) ==
  LET k == pos \div BlockSize + 1
  IN  IF k \in DOMAIN blocks THEN blocks[k] ELSE NullBlock

(* Fault: the offset inside the block is not taken. *)
SlotForUnwrapped(blocks, pos) == BlockAt(blocks, pos) * BlockSize + pos

(* _compute_slot_mapping_cpu *)
SlotFor(blocks, pos) == BlockAt(blocks, pos) * BlockSize + (pos % BlockSize)

(* Fault: padding is mapped like the position it repeats. *)
TokenSlotUnredirected(so, t) == SlotFor(RowAfter(so, t.req), t.pos)

(* Padding is redirected to the null block. *)
TokenSlot(so, t) ==
  IF t.real THEN SlotFor(RowAfter(so, t.req), t.pos) ELSE NullSlot

(* Fault: the filler rows of a decode keep the buffer's old slots. *)
SlotMapUnfilled(so, b, width) ==
  LET toks == Tokens(so, b)
  IN  [i \in 1 .. MaxTokens |->
         IF i <= Len(toks) THEN TokenSlot(so, toks[i]) ELSE slotMap[i]]

(* The buffer: its head is written, _apply_decode_slot_mapping_padding     *)
(* sends the filler rows of a decode to the null block, the rest stays.    *)
SlotMapAfter(so, b, width) ==
  LET toks == Tokens(so, b)
  IN  [i \in 1 .. MaxTokens |->
         CASE i <= Len(toks) -> TokenSlot(so, toks[i])
           [] i > Len(toks) /\ IsDecode(so, b) /\ i <= width -> NullSlot
           [] OTHER -> slotMap[i]]

-----------------------------------------------------------------------------
(* The attention layers. *)

(* index_put_ of a step: tokens that meet in one slot race. *)
CacheAfter(so, b, width) ==
  LET toks == PaddedTokens(so, b, width)
      slots == SlotMapAfter(so, b, width)
  IN  [blk \in Blocks |-> [o \in 0 .. BlockSize - 1 |->
         LET W == {i \in DOMAIN toks : slots[i] = blk * BlockSize + o}
             t == toks[CHOOSE i \in W : TRUE]
         IN  CASE W = {} -> cache[blk][o]
               [] Cardinality(W) = 1 /\ t.real -> Entry(t.req, t.pos)
               [] OTHER -> Garbage]]

BucketFor(n, buckets) == CHOOSE k \in buckets : n <= k /\ \A j \in buckets : n <= j => k <= j

(* Fault: the token of this step is not counted. *)
CtxBlocksShort(ctx) == CeilDiv(BucketFor(ctx, CtxBuckets \cup {MaxModelLen}), BlockSize)

(* _decode_ctx_blocks_from_max_decode_ctx_len *)
CtxBlocks(ctx) == CeilDiv(BucketFor(ctx + 1, CtxBuckets \cup {MaxModelLen}), BlockSize)

(* _build_attention_metadata: the row of a decode's block table, trimmed. *)
TrimmedRow(blocks, ctxBlocks) == SubSeq(blocks, 1, Min({Len(blocks), ctxBlocks}))

(* forward_decode: a row at position pos gathers its blocks from the cache *)
(* after the write, and masks what follows pos.                            *)
Attended(after, blocks, pos) ==
  [q \in 1 .. Min({pos + 1, Len(blocks) * BlockSize}) |->
     after[BlockAt(blocks, q - 1)][(q - 1) % BlockSize]]

(* One step.  The batch is filled up to a bucket, and the context bucket   *)
(* covers the longest row, of this or of another data-parallel rank.       *)
ExecuteModel(so) ==
  /\ blockIds' = [r \in Req |-> BlockIdsAfter(so, r)]
  /\ row' = [r \in Req |-> RowAfter(so, r)]
  /\ fed' = [r \in Req |-> IF r \in Scheduled(so) THEN so.computed[r] + so.toks[r]
                           ELSE IF r \in so.finished THEN 0 ELSE fed[r]]
  /\ \E b \in [1 .. Cardinality(Scheduled(so)) -> Scheduled(so)] :
       /\ Arrangement(b, Scheduled(so))
       /\ batch' = b
       /\ \/ /\ b = << >>
             /\ attended' = [r \in Req |-> << >>]
             /\ sampled' = [r \in Req |-> Garbage]
             /\ UNCHANGED <<slotMap, cache>>
          \/ /\ b # << >>
             /\ \E width \in SeqBuckets, ctx \in 0 .. MaxModelLen - 1 :
                  /\ Len(b) <= width
                  /\ \A r \in ToSet(b) : IsDecode(so, b) => so.computed[r] <= ctx
                  /\ slotMap' = SlotMapAfter(so, b, width)
                  /\ cache' = CacheAfter(so, b, width)
                  /\ attended' =
                       [r \in Req |->
                          IF r \in ToSet(b) /\ IsDecode(so, b)
                          THEN Attended(cache', TrimmedRow(row'[r], CtxBlocks(ctx)), so.computed[r])
                          ELSE << >>]
                  /\ sampled' =
                       [r \in Req |->
                          IF r \notin ToSet(b) THEN Garbage
                          ELSE LET p == CHOOSE p \in DOMAIN b : b[p] = r
                                   t == Tokens(so, b)[LogitsIndex(so, b, p)]
                               IN  IF t.real THEN Entry(t.req, t.pos) ELSE Garbage]
=============================================================================
