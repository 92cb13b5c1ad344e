# Verification of the Qwen3.5/3.6 dense serving stack for Trainium

TLA+ models of the parts of this repository whose correctness depends on the
order in which things happen, the TLC runs that check them on small instances,
and TLAPS proofs of the properties that matter most for any instance.

The repository serves a hybrid model (GatedDeltaNet layers with a recurrent
state, GQA layers with a paged KV cache) through a vLLM plug-in. It brings the
model, replaces the plug-in's model runner and one compiler pass
(`overrides/`), installs both with a script, and starts `vllm serve` with its
class patched into the registries. The scheduler, the KV block allocator, the
engine core and the clients are vLLM's and not in the repository: they are
modelled as external, from what the code here relies on.

`R` is `overrides/vllm_neuron/vllm/worker/neuron_model_runner.py`, `M` is
`src/qwen3_6/model_bf16.py`, `P` is
`overrides/libtorch_neuronx_lite/fx_passes/aliasing_pass.py`. `PROJECT.json` maps every definition to its lines.

## 1. Inventory

| Component | State | Operations | Hard behaviour | What makes it correct |
|---|---|---|---|---|
| DeltaNet state slots (R, M) | `_state_slot_by_req`, request cache, persistent batch, per-layer state buffers | release, acquire, build slot tensor, prefill and decode writes, dummy batch, warmup, reset | dirty rows are reused without zeroing; decodes stay parked while another request prefills; ids return after an abort; the scheduler runs ahead | a request's row holds its own tokens and nothing else; two requests never share a row; rows never run out; every row comes back |
| Async token flow (R) | device future, `async_execution_buffer`, host rows, `output_token_ids` | `execute_model`, `sample_tokens`, `get_output`, remap, fallback and fixup | two threads materialize the same output; the batch changes between sampling and use; ranks without an output thread | every token is sampled from its own history and reaches the client once, in order; every request ends |
| Request cache and persistent batch (R) | `requests`, `input_batch` | `_update_states` | finished and resubmitted in one step, preempted and resumed | entries follow the scheduler's view |
| Paged KV cache addressing (R, M) | block ids, block table rows, `slot_mapping`, the caches | block table update, padding, slot mapping, cache writes, trimmed reads, logit indices | padding shares positions with real tokens; a buffer that is never cleared; freed blocks that stale steps still write to; context buckets | keys and values stay where their position belongs; a decode reads its own history; a sampler its own row |
| Data-parallel lockstep (R) | `_dp_padding_cache`, per-rank step state | vote, reduce, strip drafts, pad, dummy batch, re-prepare | idle and busy ranks must choose the same graph; a second reduce may meet collectives | all ranks dispatch the same graphs in the same order; every step ends |
| Override installer (`overrides/apply.sh`) | target files, temporaries, backups, compile cache | stage, install, clear, restore, exit trap | failure of any command, kill between two, repeated runs | both files or neither, no original lost |
| Start-up (`serve.sh`, `_serve_main.py`, `sitecustomize.py`, `register.py`, `R.load_model`) | `_PATCHED`, two registries, plugin hook, per process | import, register, hook, check settings, load | spawned and forked processes, plugins that undo the patch, any step failing with a warning only | workers load this package's class; accepted settings prefill in one step |
| Speculative decoding (R) | sampled, accepted and draft futures, transition cache, rejection counts | hand over, fill from the cache, rebuild, verify, correct positions, propose | the scheduler counts drafts as accepted; host rows have gaps; the batch changes between proposal and use; the runner declines after the next step is scheduled | every row is fed its own latest token at its position and verifies its own drafts; proposals stop in time |
| Weight sharding (`M`, `weight_loaders_bf16.py`) | none | index arithmetic of shards | uneven splits, fused projections | not modelled: section 5 |
| Aliasing pass (P) | a graph, its outputs, `mutated_inputs`, `input_to_writes`, `io_map` | classify, rewire readers, append and pair outputs | several writes of a buffer through aliases of other shapes, readers between them, outputs that stand in for inputs | the compiled function computes what eager execution does, and every mutated buffer gets its last content back |
| NKI kernel (`deltanet_fused.py`) | none | chunked recurrence | numerics | not modelled |
| Compilation and warmup (R) | compiled graphs | warmup forwards | writes of warmup | only its effect on the state rows |
| Multimodal encoder, connectors, pooling, tensor capture (R) | encoder cache, connector state | inherited plug-in features | – | not used by this model |

The components interact through the SchedulerOutput (scheduler to runner), the
attention metadata of a step (runner to model: slots, slot mapping, block
tables), the futures (one step to the next: sampled tokens, accepted tokens,
drafts), the host all-reduce (rank to rank), the rewritten graph (pass to
compiler: without it the state and cache updates of a step are lost), and the
process environment (launcher to workers). The hazards of the
code, with their lines and the properties that would catch each, are listed in
`PROJECT.json`.

## 2. Modules

| Module | Models | Composed by |
|---|---|---|
| `StateSlots` | slot map, request cache, batch and state rows of one worker; a step takes *any* SchedulerOutput | `SlotServing` adds scheduler, queue and clients |
| `PrivateState` | abstract: each request has a private history that a prefill sets and a decode extends by one | refined by `SlotServing` (`PrivateSpec`) |
| `AsyncTokens` | main thread, output thread, future and host rows of one rank | `AsyncServing` adds the batch queue and clients |
| `KVCache` | block tables, padded token layout, slot mapping, cache writes and reads | `KVServing` adds scheduler and block allocator |
| `SpecTokens` | one rank's main thread with speculation: five sources of a step's inputs, corrected positions, the transition cache, when it proposes | `SpecServing` adds the scheduler, the queue of two and clients |
| `DPLockstep` | the ranks of a decode pool | – |
| `AliasingPass` | the graph pass, and the tracer as the environment that supplies graphs | – |
| `ApplyOverrides` | the installer and its EXIT trap | – |
| `Startup` | the launcher, and the registries of every process | – |
| `StateSlots_proofs`, `SlotServing_proofs`, `KVServing_proofs`, `AsyncServing_proofs`, `Startup_proofs`, `SpecServing_proofs`, `DPLockstep_proofs`, `ApplyOverrides_proofs` | theorems | – |
| `MC*` | constants for TLC | – |

How state and actions correspond to the code:

* **`StateSlots`.** `slotByReq` is `_state_slot_by_req`; `Released` is the
  release at the head of `execute_model`, before `_update_states` and before
  the early return of an empty step; `Available` and the acquisition are
  `_acquire_state_slot`, whose `RuntimeError` is phase `"failed"`; `PrefillRows`
  and `DecodeRows` are the writes of `_forward_prefill` and of the decode
  path. The recurrent and the conv buffer are always addressed together, so one
  row content stands for both: whose tokens were folded in, of which
  incarnation, how many, and whether padding was. A row that a decode reads
  dirty, or that an unsupported prefill produces, becomes nobody's.
* **`AsyncTokens`.** `pc` splits one engine step of the main thread at the
  points where the output thread can run in between: begin, `_update_states`,
  input preparation, sampling. `last` is the output object both threads hold.
  A token is an origin (request, incarnation, position); one sampled from
  anything but the request's history is marked, so that a wrong input shows
  up in every later token.
* **`KVCache`.** `Segment` and `Tokens` are the padded token tensors of
  `_create_padded_inputs`, `TokenSlot` the redirection of padding to the null
  block, `SlotMapAfter` the buffer including what it keeps from earlier steps,
  `CacheAfter` the `index_put_` of a step, `CuNumTokens` the cumulative counts
  by which the row to sample from is found. Two tokens that meet in one slot
  race, which is garbage. `attended` and `sampled` record what a step read.
* **`SpecTokens`.** `last`, `accepted` and `drafts` are the entries of
  `async_execution_buffer`, `cache` is the transition cache. `Fills`,
  `HandsOver`, `ToNonspec`, `Reuses` and `Rebuilds` are the branches of
  `execute_model` that choose where `input_ids` come from; exactly one holds in
  a step. `Verified` is `spec_decode_metadata.draft_token_ids`, which another
  function sets from another future (`only`) than `Fed`: that the two agree, and
  that both belong to the row's own request, is a property.
  `Position` is the on-device correction by the previous step's rejections. A
  row of the draft future is the token it follows and the number of its drafts
  the model will agree with, chosen freely when it is proposed; the sampler
  keeps that many only if the row was fed that token, at its position, and
  verifies what it was fed. `SpecServing` advances `num_computed_tokens` by all
  drafts when it schedules and takes the rejected ones back on receipt. It
  assumes drafts (`placed`) for the next step of whatever it schedules; the
  runner's answer to `take_draft_token_ids` travels in `answers` and arrives
  (`Answer`) before the next step is scheduled or, as the comment at `R:6046`
  says, only after. A step scheduled with drafts that had been declined, or
  right after a step whose drafts were dropped but counted, is `Surprised`.
* **`AliasingPass`.** The tracer appends nodes and chooses outputs (`Trace`,
  `TraceOutputs`); `Analyze` is the classification, `RewireNode` one node of
  the walk of `_serialize_nki_write_aliases` with its cursor `current`,
  `Surface` the appended outputs and `io_map`. Contents are symbolic terms:
  `Heap` executes the traced graph eagerly on storages, `Values` the rewritten
  one as a function, and the properties compare the two.
* **`DPLockstep`.** Each rank votes, all meet in one host reduce, and each
  dispatches a graph, identified by what selects it: width, context bucket,
  speculative or not. A busy rank may have no computed token, as when a one-token
  prompt is admitted with all but its last token computed (`R:5396`). The
  device completes a forward once all ranks have dispatched theirs, whatever
  graphs these are: `StepsEnd` is about who waits for whom, `SameGraphs` about
  what meets.
* **`ApplyOverrides`.** Every command can fail, messages included (`set -e`).
  Before the trap a failure enters the trap; in the trap (`Restore`, `Exit`) it
  ends the script there and then with an error (`Abandon`), except for the
  rename whose failure the trap itself handles. The trap runs after every
  failure but not after a kill. The message after the rollback is disarmed
  (`apply.sh:190`) can fail too: the run then ends with an error although all is
  installed.
* **`Startup`.** An operator per function returns the registries a process may
  have afterwards, one for each way it can fail; actions are interpreter
  starts, the launcher's main, spawns, forks, plugin loads and `load_model`.

A definition whose comment begins with "Fault:" is a plausible mistake in the
definition that follows it. It is never used: `PROJECT.json` pairs each with a
property that catches it.

## 3. Runs

| Run | Question | Bounds |
|---|---|---|
| `slot_serving` | Does every request keep a private history, do rows suffice, does the machinery implement `PrivateState`? | 3 requests, 2 rows, 2 steps ahead, 3 tokens |
| `slot_resubmit` | What if ids return after an abort and rows run out? Do rows come back? | 2 ids, 2 incarnations, 1 row |
| `padded_prefill` | *violation*: is the state free of padding? | 2 requests |
| `async_serving` | Are tokens genuine, in order and never dropped, with two threads that materialize outputs and with the main thread's fallback alone? Does every request end? | 2 requests, both kinds of ranks, chunked prefills, preemption, 3 output tokens, fair |
| `async_resubmit` | *violation*: are two incarnations distinct? | 1 id, 2 incarnations |
| `spec_serving` | Is every row fed its own token at its position and does it verify its own drafts, whichever source the inputs come from and however late answers about drafts arrive? Do proposals stop in time? | 3 requests, 2 drafts, 4 output tokens, queue of 2, up to 2 answers under way |
| `late_decline` | *violation*: are placeholder drafts always overwritten? | 1 request, 2 drafts |
| `dp_ranks` | Do all ranks dispatch the same graphs, without deadlock, and does every step end, with and without async scheduling? | 2 ranks, contexts 0 and 1, 2 forwards ahead, fair |
| `aliasing_pass` | Does the rewritten graph compute what eager execution does, and give every mutated buffer its content? | every graph of up to 4 operations on 2 inputs, 1 explicit output |
| `kv_serving` | Are keys and values where they belong, and read by their owner? | 2 requests of 1 and 2 prompt tokens, 3 blocks of 2, 2 steps ahead |
| `startup` | Do workers load this package's class? Do accepted settings prefill in one step? | 2 workers, lengths and buckets 0 to 4 |
| `apply_overrides` | Both files or neither, no original lost? | 2 targets, 3 runs, kills |

Why the bounds are enough for the cases that matter:

* *Slots.* Two requests can share or cross a row and a third can take a freed
  one while steps for its previous owner are queued: three requests, two rows,
  two queued steps. The acquisition is "lowest free", so more rows add no
  case. One row for two running requests is the exhaustion case.
* *Async.* The future is crossed between two requests, and the batch changes
  when one enters, leaves, is preempted or returns while the other continues;
  the safety theorems cover any number. Three output tokens give a step fed by the
  prefill's output, one fed by the future, one after a fallback.
* *KV.* Blocks of two positions and lengths up to three make every row cross a
  block; three blocks for two requests that need two each force preemption;
  decodes are always filled up to three rows, so that stale slots of an earlier
  prefill (padded to four) are there to be hit; the context bucket of two ends
  exactly at a block.
* *Speculation.* A batch changes by one request entering and one leaving while
  a third carries its drafts across. Two drafts tell "none", "some" and "all
  accepted" apart. Four output tokens allow a step with drafts, one without,
  and one after that; the model length of 11 puts the limit for proposals in
  the middle of a request. An answer is late by at most one step, since the
  queue holds two. In `late_decline` the decode bucket is one row, the size of
  the prefill's future, so that nothing but a late answer leaves a placeholder
  in place.
* *Ranks.* A disagreement needs two ranks. Two forwards ahead suffice to pair
  graphs of different steps; context lengths and buckets differ so that every
  vote field can decide. The proofs cover any number of ranks.
* *Graphs.* Four operations are enough for two writes of one buffer, through an
  alias or not, with a reader between or after them, next to a second buffer;
  a kernel with a tuple result counts as one operation. Each kind of operation
  occurs at most once, the kernel with one result twice.
* *Installer.* Two targets are what the script has; three runs allow a run
  after a kill after a failure.
* *Start-up.* Settings range one beyond each limit on both sides; two workers
  allow a fork of a spawned one.

`CHECK_DEADLOCK FALSE` is used where the system may stop: all requests gone, the
incarnations used up, the script ended, the server up. `DPLockstep` is checked
for deadlock: there it is the property.

Fairness. `slot_resubmit`: weak fairness of scheduling (the engine core's loop
runs while there is anything to schedule or to report) and of execution (the
worker loop takes what it is sent). `async_serving`: the same, and of
receiving outputs (the output thread is a loop over a queue). No client is
fair: submissions and aborts may or may not happen. `dp_ranks`: weak fairness of
each rank's start, dispatch and read-back (each is sequential code that blocks
on nothing but the reduce and the device), of the reduce once all ranks have
voted, and of the device's completion of a graph that all have dispatched.
Nothing is assumed strongly fair.

### What the environment must not do

Two models have an environment that is not in this repository and is restricted
to what the code relies on. Where a property is named, TLC refutes it when the
restriction is dropped. This model under the launcher's settings keeps to all of
them; a change of either should be checked against the list.

The tracer of `AliasingPass` (predicate `Traced`):

* `NoStaleAliases`: a view, or an earlier write's result, is not used after its
  tensor is written again. The walk moves readers of a placeholder, not of its
  aliases (`MutationsPersist`, `BuffersGetTheirOwn`, `OutputsUnchanged`). Dynamo traces each use of a view afresh.
* `PlaceholderOrResult`: an input that is read by its placeholder after a write
  has only writes of its shape, none of them written further in place.
  Otherwise it is not rewirable, or its last write is not in `input_to_writes`
  (the same three).
* `ResultsNotCopied`: a write's result is not what an in-place op writes
  elsewhere: `input_to_writes` drops a write that any in-place op uses, as
  target or as value (`MutationsPersist`, `BuffersGetTheirOwn`).
* No in-place aten op as a `call_function`: it is taken as mutating, but
  `_get_torch_op_mutated_tensor` finds no tensor for it, so its input is not
  written back (`MutationsPersist`; `MaxOf` of `"aten_"` at 1 shows it).
* No writes through slices, and no view that has its base's shape but another
  layout, such as the transpose of a square: shapes are all that is compared.

The scheduler of `SpecServing`:

* One decode bucket, as the launcher configures (`_serve_main.py:132`). With
  two (`Buckets = {1, 3}`), the padded size changes when a request leaves, the
  previous future no longer fits, and the on-device correction is skipped
  although the counts are still optimistic: `InputsGenuine` is refuted. A
  comment at `R:5650` says `num_computed_tokens_cpu` is reconciled before the
  inputs are rebuilt; the materialization it describes writes the host rows only.
  The same would follow from a padded size that data parallelism changes.
* A step has drafts for all of its requests or for none.
* A step without drafts is taken by the whole running batch: a request that
  sits out the step after one with drafts comes back at a position nothing
  corrects. For the same reason ids are used once and nothing is preempted.
* The rank is not a KV consumer, whose first decode has placeholder drafts.

Under these, the first step with drafts after a lone request's prefill may
verify placeholders if its bucket is larger than one row, which only costs the
drafts. A step is stripped of its drafts (`R:6742`) only when a late answer meets
a batch change.

What late answers cost. `InputsGenuine` and `DraftsOwn` exempt a surprised step
(`Surprised`): one scheduled with drafts after the runner declined them, and the
one after a step that dropped its drafts. The first is fed the scheduler's
placeholders after a token gathered from lagging host rows at the optimistic
position (the finding `late_decline`), the second runs at a position that still
counts the dropped drafts. Nothing else is exempt: the properties, and their
proofs, say that the steps after them are right again, that no drafts of another
request are ever fed or verified, and that nothing but the two cases goes wrong.

The context of nobody. The reduce gives an idle rank the largest context of the
busy ones. If all of these are 0, `execute_dummy_batch` takes that for no context
at all and builds a block table for `max_model_len` (`R:7915`, `R:4437`), while
busy ranks take the smallest bucket that holds the step (`R:4166`). The comment
at `R:7898` ("Match the busy ranks' NEFF choice exactly") and the docstring at
`R:7524` (idle ranks "dispatch to the same NEFF") do not hold there: with
`f.neff = g.neff` asked in every case, TLC refutes `SameGraphs` in the first
step. It takes a decode pool in which every request that decodes is at the first
decode of a one-token prompt.
`Match` states what holds there: equal width, equal choice of speculation, equal
graphs among busy and among idle ranks.

### Findings

* **`padded_prefill`** (M:1257). A prefill is padded to its bucket. Keys and
  values of the padding go to the null block and logits skip it, but the
  DeltaNet prefill runs its recurrence over the padded sequence and stores the
  final state and its last three pre-conv tokens, so decodes continue from a
  state with padding folded in, while `config.py:17` says it stores the last
  three tokens before the convolution and `M:1257` that decode can pick up
  from there. `RowHoldsOwnTokens` is therefore stated up to padding.
* **`async_resubmit`** (R:5496). `R:2042` says an aborted id that is submitted
  again is treated as a distinct request. If it is alone in the batch, the set
  of ids does not change, the composition check does not materialize the old
  output before `_update_states`, and the old incarnation's token is later
  written, by id, into the new one's row and output ids. What a client receives
  is still its own (`StreamGenuine`).
* **`late_decline`** (R:8434). `take_draft_token_ids` says the runner overwrites
  the placeholder drafts it hands out "before anything reads them". When a step
  declines to propose near the model length, the next step has already been
  scheduled with placeholders (`R:6046`), and there is no draft future to
  overwrite them from: the swap is declined (`R:6278`), the fixup skips rows of
  several tokens (`R:5383`), and the sampler's metadata stays as it was
  (`R:5704`). The placeholders are fed and verified. The earlier limit that the
  comment explains keeps the scheduler from trimming them (`DraftsFit`), no more.

## 4. Proofs

All theorems hold for every value of the constants that satisfies the named
assumptions.

* **`StateSlots_proofs`.** The specification `AnySchedulerSpec` takes any
  sequence of SchedulerOutputs: nothing is assumed of the scheduler.
  `AnySchedulerSlotsDistinct` proves type correctness and that two requests
  never hold one slot. The invariant is inductive as `TypeOK /\ SlotsDistinct`;
  the work is in the acquisition: the slots of the batch are taken one after
  the other by a recursive function over batch positions, and the lemmas show
  that each newly taken slot is free of all owners, earlier positions of the
  batch included. `AnySchedulerParkedRowsKept` proves that a step changes no
  row owned by a request it does not run: a prefill writes one row, owned by
  the request it runs, a decode the rows of the batch, padding the scratch row.
* **`SlotServing_proofs`.** Types and queue contents of the composition
  (`ServingTypeCorrect`): what the modelled scheduler sends is a
  SchedulerOutput. With it every step of the composition is a step of
  `StateSlots` or leaves it alone, and both properties carry over
  (`ServingSlotsDistinct`, `ServingParkedRowsKept`). `ServingRowsOwn` (`RowHoldsOwnTokens`),
  `ServingSlotsSuffice` and `ServingRefinesPrivate` (`PrivateSpec`), for any
  number of requests and incarnations, any capacity and any queue depth, ids
  that return and rows that run out included. None of them is inductive: what a
  row holds after a step depends on an output the scheduler decided several
  steps earlier. The invariant (`HistoryInv`) reads the queue as a plan: a sequence
  of views of the worker (who holds a slot, what its request cache says), the
  first of them now, each next one what the queued output makes of it. Every
  queued output fits the view it will meet: one request prefills alone from
  nothing into a slot that is left, or requests that keep their slots decode
  the token after those fed. The last view is what the scheduler believes.
  Scheduling extends the plan at its end, where it has to fit the belief;
  executing takes its head. The refinement maps every execution to a prefill, a
  decode or the end of private states.
* **`KVServing_proofs`.** `KVAttendsOwnHistory` (`AttendsOwnHistory`),
  `KVStaysInPlace` (`KVInPlace`), `KVSampledFromLast` and `KVTypes`
  (`ServingTypeOK`), for any number of requests and blocks, any block size and
  any queue depth. The scheduler gives freed blocks away while outputs that
  write to them still wait in the queue, so "no two requests own a block" is
  false of what the worker knows and what the scheduler knows taken together.
  The invariant (`KVInv`) is again a plan: each view is what the runner knows of
  every request at one point of the queue, with the requests whose blocks are
  theirs alone there (`Sound`). Two requests may name one block in different
  views, never in one. A queued output fits its view (one request prefills
  alone into new blocks, or live requests decode the token after those fed) and
  leads to the next; the last view is what the scheduler believes
  (`Believed`); a running request that no queued output brings in is live
  already, with a prefix of its blocks (`Kept`); the cache holds the first view
  (`Holds`). What remains is the layout of one step: every fed position lies
  in it once, at its slot, and the rest goes to the null block (`PrefillLays`,
  `DecodeLays`), the cache then has what was laid (`CacheWrites`), and the
  context bucket never cuts what is attended (`AttendedIs`). In a decode every
  segment is one token long and in a prefill there is one segment, so
  the concatenation and the cumulative counts can be read off without an
  induction over segments: the counts are the only ones their equation admits,
  by the least index at which two solutions would differ. The proof uses two
  assumptions: a prompt is no longer than `max_model_len` (vLLM refuses others),
  and there are finitely many request ids.
* **`SpecServing_proofs`.** `AlwaysDraftsFit`: proposals stop one step before
  the scheduler would trim, for any number of drafts and any length. A request
  may be promised drafts only if its optimistic count leaves room for two more
  steps; the counts of a promised request grow only in a step that decides
  anew, and receipts only take back. That they never *add* needs that a row
  keeps at most all its drafts and one token, hence that every row it can be
  fed, from the draft future or the transition cache, promises no more than
  was proposed, hence that the draft future is as long as the batch it meets
  (`RunnerInv`): the arithmetic of the limit rests on the hand-over.
  `AlwaysInputsGenuine` and `AlwaysDraftsOwn`: whichever of the five sources a
  step takes its inputs from, every row is fed its request's latest token, at
  its position, and verifies the drafts proposed after it, but for surprised
  steps; their rows, too, have placeholders or their own request's drafts. Each
  source lags behind the request by a different amount and the scheduler's
  counts run ahead of it, so the invariant (`TokensInv`) says of each source whose
  token it holds if it is used (`LastTokens`), of the scheduler's counts by how
  much the steps under way make them wrong, a step that dropped its drafts
  included (`Counts`), that a promised request is in the transition cache after
  its latest token (`Promises`), and of the answers under way that a request for
  which the scheduler assumes drafts has been promised some or has an answer
  coming, the newest about the last step (`Heard`). So drafts are scheduled
  against the runner's word only while that answer is under way.
  `AlwaysTypeOK` bounds the scheduler's count, which takes every draft under way
  as accepted, by the model length. It rests on both: a step without drafts keeps
  one token, so `max_tokens` bounds it; after a step with drafts the limit for
  proposals leaves room for one more (`Ceiling`). The hypothesis of the three,
  `OneBucket`, is the launcher's one decode bucket: with two, TLC refutes
  `InputsGenuine` (section 3).
* **`AsyncServing_proofs`.** `AlwaysStreamGenuine`, for both kinds of ranks:
  every client receives its own continuation, in order, each token once and
  sampled from its exact history. At most two outputs not received and two steps
  not sampled are under way. The invariant (`IInv`) goes along this pipeline:
  the tokens in it continue the received stream one after the other (`Chain`);
  each step decodes from the token the step before it samples, or starts from
  a state received in full (`StepsFit`); the scheduler's
  counts are those of what was scheduled last (`Latest`); hence a host row
  matters only to a request without a token in the last output, and then it is
  complete (`RowsReady`), whoever writes rows meanwhile.
  `AlwaysHostRowsGenuine` and `AlwaysTokensNotDropped` are about the rows
  themselves on the output rank, where two threads write them and
  `_update_states` trims them. `HInv` adds that a row lacks exactly the tokens of
  outputs that are not lists yet (`HostRows`), that a request scheduled to
  decode from a token under way is in the batch and stays there (`Carried`), and
  that between steps the step executed last tells what was sampled last
  (`StepSampled`). `AlwaysTypeOK` (`ServingTypeOK`) bounds counts, positions and
  output ids on every kind of rank. The rows of ranks without an output thread
  are not genuine, since tokens fed from the device never reach them, so their
  length needs an invariant of its own: with the token its last output has yet
  to bring, a row is no longer than the history up to that token (`RowsLag`).
  The hypothesis `UniqueIdsTwoAhead` is that ids are used once
  and the queue holds at most two steps. The first is needed: with ids used twice
  `HostRowsGenuine` fails, which is the finding `async_resubmit`. The second is
  the batch queue the runner is built for, and the bound of the runs.
* **`DPLockstep_proofs`.** `AlwaysSameGraphs`, for any number of ranks. The
  invariant counts rounds: a rank's round is its forwards under way, plus one if
  it knows the agreement and has not dispatched; all ranks are in the same round
  (`SameRound`), and what one is about to dispatch is what the others are about
  to, or dispatched last (`SameAhead`). The heart is `SameNeff`: from one reduced
  vote, a busy rank with drafts, one without, one stripped and an idle one
  choose matching graphs: the same, unless the agreed context is 0 (section 3).
  `AlwaysLockstep` follows from `SameRound`. A second
  preparation keeps the invariant because it takes no vote.
* **`ApplyOverrides_proofs`.** `AlwaysOriginalsNeverLost`,
  `AlwaysFailureAllOrNothing` and `AlwaysSuccessIsComplete`, for any number of
  files and runs. The invariant says for each place of the script what has been
  done: staged up to `i`, installed up to `i` with every backup in place, and in
  the trap, whether the rollback is armed and how far it got. "Until a run has
  replaced every file and disarmed its rollback, each original is in place or in
  its backup" is not inductive without the exact extent of each loop. After an
  error the files are as they were, or all replaced (only the last message or
  the clean-up failed), or the trap itself was stopped by a rename or a message
  that failed; then the backups of what was not put back are kept.
* **`Startup_proofs`.** `AlwaysWorkersLoadOurs`: for any number of processes,
  spawned or forked from one another, and any number of plugin loads. The
  property is not inductive: it needs that a hooked process whose last
  registration went through has this package's class in both registries
  (the hook is only ever installed after a registration), and that before the
  plugins can be loaded `_PATCHED` without a failure means so too.
  `AlwaysSingleShotPrefill` proves that any accepted settings, of whatever
  size, prefill every prompt in one step; `AlwaysTypeOK` the types, and that
  every number vLLM is started with is positive.

`IInv`, `HInv` and `RowsLag` were checked by TLC before they were proved, on two and
three requests of the instance of `async_serving`, `Ceiling`, `Promises` and
`Heard` on that of `spec_serving`, and `KVInv` on that of `kv_serving`, the views
carried along as a history variable.

Only model-checked:

* liveness (`SlotsReturned`, `RequestsFinish`, `StepsEnd`) and everything under
  fairness: the prover has no rules for ENABLED;
* the aliasing properties: they compare recursive interpreters of graphs.

## 5. Not modelled, and why

* Numerical code: projections, norms, rotary embedding, attention, the NKI
  kernel. It has no state beyond the caches, which are modelled.
* Steps with speculative drafts in `StateSlots`, `AsyncTokens` and `KVCache`:
  they are the subject of `SpecTokens`, which has no second thread and no cache
  addresses. `DPLockstep` has drafts as far as they select a graph. The drafter's
  forward and the rejection sampler run in compiled graphs and are external.
* Recognizing operations in the aliasing pass: an operation is known by its
  kind, not by the names and schemas it is recognized by.
* Weight sharding: index arithmetic of loading, without state or order; the
  repository tests it on the real shapes.
* Context parallelism: the runner supports it, this model's attention does not,
  and the launcher does not offer it. Chunked prefill and prefix caching, which
  the launcher switches off, are left out of the state and KV models for the
  same reason; `AsyncTokens` has chunks.
* Prefill pools, KV and encoder connectors, pooling, multimodal input, tensor
  capture: inherited, unused here.
* File reading and weight loading: I/O. Graph compilation: external.

## 6. Plan

Done, in this order: state slots and their serving; async tokens; data-parallel
lockstep; installer; KV cache addressing; start-up; aliasing pass; speculative
decoding; proofs of the slots, the start-up, the installer, the lockstep and the
limit for proposals; proofs of the state rows and the refinement of
`PrivateState`, of the async stream and host rows, of the inputs and drafts
of speculation, and of the KV cache.

Next, most important first:

1. `WeightSharding` (M:94 on, `weight_loaders_bf16.py`): shard index arithmetic
   against the definition "concatenated shards are the checkpoint tensor", over
   bounded head counts and TP sizes.
2. The chunked recurrence of `deltanet_fused.py` in exact arithmetic against
   the sequential one.
