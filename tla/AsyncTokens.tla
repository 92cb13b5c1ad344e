---------------------------- MODULE AsyncTokens -----------------------------
(***************************************************************************)
(* Async scheduling: how a sampled token reaches the next step's input.    *)
(*                                                                         *)
(* One rank's NeuronModelRunner.  Its main thread runs execute_model and   *)
(* sample_tokens; sample_tokens leaves the sampled tokens on the device    *)
(* and returns an AsyncNeuronModelRunnerOutput.  On the output rank a      *)
(* second thread calls get_output on every such object, which copies its   *)
(* tokens to the host rows of the batch (token_ids_cpu); on the other      *)
(* ranks nobody does, unless the main thread must.  The main thread feeds  *)
(* a decode step from the previous step's device tensor when it can, and   *)
(* from the host rows when it cannot, after materializing that output.     *)
(*                                                                         *)
(* Steps without speculative drafts, pooling or multimodal inputs.  The    *)
(* scheduler and the engine's batch queue are external: AsyncServing.      *)
(***************************************************************************)
EXTENDS Integers, Sequences, FiniteSets

CONSTANTS
  Req,         \* request ids
  NoReq,       \* not a request id
  PromptLen,   \* prompt tokens of a request
  MaxOut,      \* max_tokens of a request
  MaxGen,      \* bound: incarnations of one request id
  RankKinds    \* bound: the values of outputRank a run starts from

ASSUME AsyncReqAssumption == IsFiniteSet(Req) /\ NoReq \notin Req
ASSUME AsyncBoundAssumption ==
  PromptLen \in Nat \ {0} /\ MaxOut \in Nat \ {0} /\ MaxGen \in Nat \ {0}
ASSUME AsyncRankAssumption == RankKinds \subseteq BOOLEAN

VARIABLES
  outputRank,\* does this rank's output thread call get_output?
  pc,        \* where the main thread is in execute_model / sample_tokens
  step,      \* the SchedulerOutput of the current or last step
  changed,   \* _batch_composition_changed
  batch,     \* input_batch.req_ids
  host,      \* request in the batch -> its token_ids_cpu row, to the cursor
  outIds,    \* requests[r].output_token_ids
  ids,       \* batch position -> the tokens of input_ids for that row
  last,      \* async_execution_buffer: the last AsyncNeuronModelRunnerOutput
  outputs    \* outputs the scheduler has not received; last is the same
             \* object as the newest of them

runnerVars ==
  <<outputRank, pc, step, changed, batch, host, outIds, ids, last, outputs>>

MaxPos == PromptLen + MaxOut

(* The token at one position of one incarnation of a request; the model    *)
(* samples pos -1, a wrong token, from wrong inputs.                       *)
Token == [req : Req \cup {NoReq}, gen : 0 .. MaxGen, pos : -1 .. MaxPos]
Garbage == [req |-> NoReq, gen |-> 0, pos |-> -1]   \* what lies past the cursor
History(r, g, n) == [i \in 1 .. n |-> [req |-> r, gen |-> g, pos |-> i - 1]]

SeqOf(S, n) == UNION {[1 .. k -> S] : k \in 0 .. n}
InBatch(b) == {b[p] : p \in DOMAIN b}

(* The fields of SchedulerOutput a step reads: toks, computed and outs are *)
(* num_scheduled_tokens, num_computed_tokens and num_output_tokens (which  *)
(* counts tokens still in flight), known the output part of all_token_ids, *)
(* and prefill says that the rows are padded to a bucket.                  *)
Steps ==
  [finished : SUBSET Req, new : SUBSET Req, prefill : BOOLEAN,
   toks : [Req -> 0 .. MaxPos], computed : [Req -> 0 .. MaxPos],
   outs : [Req -> 0 .. MaxOut], known : [Req -> Seq(Token)],
   gen : [Req -> 0 .. MaxGen]]

NoStep ==
  [finished |-> {}, new |-> {}, prefill |-> FALSE, toks |-> [r \in Req |-> 0],
   computed |-> [r \in Req |-> 0], outs |-> [r \in Req |-> 0],
   known |-> [r \in Req |-> << >>], gen |-> [r \in Req |-> 0]]

Scheduled(so) == {r \in Req : so.toks[r] > 0}

(* An AsyncNeuronModelRunnerOutput: the batch at the time of sampling, its *)
(* tokens, the requests whose tokens are discarded, and whether the tokens *)
(* are a host list already rather than a device tensor.                    *)
Outputs == [reqs : Seq(Req), toks : Seq(Token), partial : SUBSET Req, list : BOOLEAN]
NoOutput == [reqs |-> << >>, toks |-> << >>, partial |-> {}, list |-> TRUE]

AsyncTypeOK ==
  /\ outputRank \in BOOLEAN
  /\ pc \in {"idle", "update", "prepare", "swap", "sample"}
  /\ step \in Steps
  /\ changed \in BOOLEAN
  /\ batch \in Seq(Req)
  /\ host \in [Req -> Seq(Token)]
  /\ outIds \in [Req -> Seq(Token)]
  /\ \A r \in Req : Len(outIds[r]) <= MaxOut
  /\ ids \in Seq(Seq(Token))
  /\ last \in Outputs
  /\ outputs \in Seq(Outputs)

Init ==
  /\ outputRank \in RankKinds
  /\ pc = "idle" /\ step = NoStep /\ changed = FALSE
  /\ batch = << >>
  /\ host = [r \in Req |-> << >>] /\ outIds = [r \in Req |-> << >>]
  /\ ids = << >>
  /\ last = NoOutput /\ outputs = << >>

-----------------------------------------------------------------------------
(* Materializing an output: get_output and what it writes. *)

(* is_all_partial_prefill *)
AllPartial(o) == o.partial # {} /\ InBatch(o.reqs) \subseteq o.partial

(* _discard_partial_prefill_samples: the request's tokens in the host list. *)
SampledOf(o, r) ==
  IF r \in InBatch(o.reqs) \ o.partial
  THEN << o.toks[CHOOSE p \in DOMAIN o.reqs : o.reqs[p] = r] >> ELSE << >>

(* Fault: the loop over the snapshot returns after its first request. *)
WrittenFirst(o, r) ==
  IF r \in InBatch(batch) /\ r = o.reqs[1] THEN SampledOf(o, r) ELSE << >>

(* _update_batch_state_with_samples: what o appends to the row of r; a     *)
(* request that has left the batch gets nothing.                           *)
Written(o, r) == IF r \in InBatch(batch) THEN SampledOf(o, r) ELSE << >>

(* Fault: get_output updates the batch although another thread has. *)
EffectiveAlways(o) == ~AllPartial(o)

(* get_output changes host state once, on the first call, and never for an *)
(* output of intermediate prefill chunks alone.                            *)
Effective(o) == ~o.list /\ ~AllPartial(o)

HostAfter(o) ==
  [r \in Req |-> IF Effective(o) THEN host[r] \o Written(o, r) ELSE host[r]]

OutIdsAfter(o) ==
  [r \in Req |-> IF Effective(o) THEN outIds[r] \o Written(o, r) ELSE outIds[r]]

(* _materialize_pending_async_output materializes, or declines. *)
Materializes == last # NoOutput /\ ~AllPartial(last)

(* The main thread's get_output on the buffered output. *)
MaterializeLast ==
  /\ host' = HostAfter(last)
  /\ outIds' = OutIdsAfter(last)
  /\ last' = [last EXCEPT !.list = TRUE]
  /\ outputs' = IF outputs = << >> THEN outputs
                ELSE [outputs EXCEPT ![Len(outputs)].list = TRUE]

-----------------------------------------------------------------------------
(* The main thread, one SchedulerOutput at a time. *)

CompositionChanged(so) == last # NoOutput /\ Scheduled(so) # InBatch(last.reqs)

(* execute_model up to _update_states: when the set of requests changes,   *)
(* the previous output is materialized before the batch is touched.        *)
Begin(so) ==
  /\ pc = "idle"
  /\ pc' = "update"
  /\ step' = so
  /\ changed' = CompositionChanged(so)
  /\ IF CompositionChanged(so) /\ Materializes
     THEN MaterializeLast
     ELSE UNCHANGED <<host, outIds, last, outputs>>
  /\ UNCHANGED <<outputRank, batch, ids>>

LastN(s, n) == IF n >= Len(s) THEN s ELSE SubSeq(s, Len(s) - n + 1, Len(s))

(* output_token_ids after _update_states: cleared with the request,        *)
(* trimmed to the scheduler's count, or, for a request that comes back to  *)
(* the batch, taken from the scheduler's all_token_ids.                    *)
UpdatedOutIds(so, r) ==
  LET staying == r \in InBatch(batch) \ so.finished
      count == so.outs[r]
  IN  CASE r \in so.new -> << >>
        [] r \in Scheduled(so) \ so.new /\ ~staying /\ count > 0 ->
             LastN(History(r, so.gen[r], PromptLen) \o so.known[r], count)
        [] /\ r \in Scheduled(so) \ so.new /\ (staying \/ count = 0)
           /\ Len(outIds[r]) > count ->
             SubSeq(outIds[r], 1, count)
        [] r \in so.finished /\ r \notin Scheduled(so) -> << >>
        [] OTHER -> outIds[r]

(* The row: kept and perhaps trimmed while the request stays, written anew *)
(* by add_request when it enters, gone when it leaves.                     *)
UpdatedHost(so, r) ==
  LET staying == r \in InBatch(batch) \ (so.finished \cup so.new)
      end == PromptLen + so.outs[r]
  IN  IF r \notin Scheduled(so) THEN << >>
      ELSE IF ~staying
           THEN History(r, so.gen[r], PromptLen) \o UpdatedOutIds(so, r)
      ELSE IF Len(outIds[r]) > so.outs[r] THEN SubSeq(host[r], 1, end)
      ELSE host[r]

(* _update_states; a step without tokens ends here. *)
UpdateStates ==
  /\ pc = "update"
  /\ outIds' = [r \in Req |-> UpdatedOutIds(step, r)]
  /\ host' = [r \in Req |-> UpdatedHost(step, r)]
  /\ \E b \in [1 .. Cardinality(Scheduled(step)) -> Scheduled(step)] :
       /\ InBatch(b) = Scheduled(step)
       /\ batch' = b
  /\ pc' = IF Scheduled(step) = {} THEN "idle" ELSE "prepare"
  /\ UNCHANGED <<outputRank, step, changed, ids, last, outputs>>

(* The host gather of one row: toks tokens from position computed on. *)
Gathered(row, r) ==
  [i \in 1 .. step.toks[r] |->
     IF step.computed[r] + i <= Len(row) THEN row[step.computed[r] + i]
                                         ELSE Garbage]

(* _prepare_model_input *)
Prepare ==
  /\ pc = "prepare"
  /\ pc' = "swap"
  /\ ids' = [p \in DOMAIN batch |-> Gathered(host[batch[p]], batch[p])]
  /\ UNCHANGED <<outputRank, step, changed, batch, host, outIds, last, outputs>>

IsDecodeRow(r) == step.computed[r] >= PromptLen
IsDecode == \A r \in InBatch(batch) : IsDecodeRow(r)

(* Fault: the future is used in the order it was produced in. *)
RemappedIdentity == [p \in DOMAIN batch |-> << last.toks[p] >>]

(* _maybe_remap_async_future: the previous tokens in this batch's order. *)
Remapped ==
  [p \in DOMAIN batch |->
     << last.toks[CHOOSE q \in DOMAIN last.reqs : last.reqs[q] = batch[p]] >>]

(* Fault: the rebuilt inputs are trusted on every rank. *)
FixedUpNever(rebuilt) == rebuilt

(* _apply_async_fallback_token_fixup: decode rows take the token the       *)
(* previous step sampled for the request, unless rows are padded.          *)
FixedUp(rebuilt) ==
  IF step.prefill THEN rebuilt
  ELSE [p \in DOMAIN batch |->
          IF IsDecodeRow(batch[p]) /\ SampledOf(last, batch[p]) # << >>
          THEN SampledOf(last, batch[p]) ELSE rebuilt[p]]

(* _maybe_swap_async_input_ids, and the fallback when it declines.  The    *)
(* future's shape may differ from input_ids': data-parallel padding.       *)
Swap ==
  /\ pc = "swap"
  /\ pc' = "sample"
  /\ \E sameShape \in BOOLEAN :
       LET swaps == /\ last # NoOutput /\ IsDecode /\ ~changed /\ sameShape
                    /\ InBatch(batch) \subseteq InBatch(last.reqs)
       IN  \/ /\ swaps
              /\ ids' = Remapped
              /\ UNCHANGED <<host, outIds, last, outputs>>
           \/ /\ ~swaps /\ Materializes
              /\ MaterializeLast
              /\ ids' = FixedUp([p \in DOMAIN batch |->
                           Gathered(HostAfter(last)[batch[p]], batch[p])])
           \/ /\ ~swaps /\ ~Materializes
              /\ UNCHANGED <<ids, host, outIds, last, outputs>>
  /\ UNCHANGED <<outputRank, step, changed, batch>>

(* Fault: an intermediate prefill chunk's token is kept. *)
PartialNone(so) == {}

(* _get_partial_prefill_req_ids *)
Partial(so) == {r \in InBatch(batch) : so.computed[r] + so.toks[r] < PromptLen}

(* What the forward and the sampler make of a row's inputs. *)
SampledFrom(fed, r, g) ==
  LET end == step.computed[r] + step.toks[r]
  IN  [req |-> r, gen |-> g,
       pos |-> IF fed = SubSeq(History(r, g, end), step.computed[r] + 1, end)
               THEN end ELSE -1]

(* sample_tokens: the new future replaces the buffered one. *)
SampleTokens ==
  /\ pc = "sample"
  /\ pc' = "idle"
  /\ last' = [reqs |-> batch,
              toks |-> [p \in DOMAIN batch |->
                          SampledFrom(ids[p], batch[p], step.gen[batch[p]])],
              partial |-> Partial(step), list |-> FALSE]
  /\ outputs' = Append(outputs, last')
  /\ UNCHANGED <<outputRank, step, changed, batch, host, outIds, ids>>

(* Fault: outputs of intermediate prefill chunks are never drained. *)
TakeOutputUnlessPartial ==
  /\ outputs # << >>
  /\ ~AllPartial(Head(outputs))
  /\ outputs' = Tail(outputs)
  /\ IF outputRank
     THEN /\ host' = HostAfter(Head(outputs))
          /\ outIds' = OutIdsAfter(Head(outputs))
          /\ last' = IF Len(outputs) = 1 THEN [last EXCEPT !.list = TRUE] ELSE last
     ELSE UNCHANGED <<host, outIds, last>>
  /\ UNCHANGED <<outputRank, pc, step, changed, batch, ids>>

(* The output thread takes the oldest output: get_output on the output     *)
(* rank; elsewhere only the output rank's copy of it is read.              *)
TakeOutput ==
  /\ outputs # << >>
  /\ outputs' = Tail(outputs)
  /\ IF outputRank
     THEN /\ host' = HostAfter(Head(outputs))
          /\ outIds' = OutIdsAfter(Head(outputs))
          /\ last' = IF Len(outputs) = 1 THEN [last EXCEPT !.list = TRUE] ELSE last
     ELSE UNCHANGED <<host, outIds, last>>
  /\ UNCHANGED <<outputRank, pc, step, changed, batch, ids>>
=============================================================================
