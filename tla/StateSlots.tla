----------------------------- MODULE StateSlots -----------------------------
(***************************************************************************)
(* The DeltaNet state slots of one worker: the runner's request -> slot    *)
(* map and the model's per-layer state buffers it addresses.               *)
(*                                                                         *)
(* NeuronModelRunner owns the map (_state_slot_by_req), the request cache  *)
(* (self.requests) and the persistent batch (input_batch.req_ids);         *)
(* Qwen3_6DeltaNetAttention owns the buffers, Capacity request rows and a  *)
(* scratch row.  The recurrent and the conv buffer are read and written    *)
(* with the same slots in the same forward, so one row content stands for  *)
(* both: whose tokens are folded in, how many, and whether bucket padding  *)
(* was folded in after the prompt.                                         *)
(*                                                                         *)
(* A step takes any SchedulerOutput: nothing here assumes a well-behaved   *)
(* scheduler.  SlotServing composes this module with the scheduler.        *)
(***************************************************************************)
EXTENDS Integers, Sequences, FiniteSets

CONSTANTS
  Req,        \* request ids
  NoReq,      \* not a request id
  Capacity,   \* state_scratch_slot: request rows of the buffers
  MaxGen,     \* bound: incarnations of one request id
  MaxLen      \* bound: tokens of one request

ASSUME ReqAssumption == IsFiniteSet(Req) /\ NoReq \notin Req
ASSUME CapacityAssumption == Capacity \in Nat \ {0}
ASSUME BoundAssumption == MaxGen \in Nat \ {0} /\ MaxLen \in Nat \ {0}

VARIABLES
  phase,      \* "warmup", "serving", or "failed" once a step has raised
  slotByReq,  \* _state_slot_by_req, NoSlot for a request that has no entry
  requests,   \* self.requests: incarnation and tokens fed (gen 0: absent)
  batch,      \* input_batch.req_ids
  rows        \* the buffers' rows, the scratch row last

runnerVars == <<phase, slotByReq, requests, batch, rows>>

NoSlot == -1
Slots == 0 .. Capacity - 1
Scratch == Capacity
Rows == 0 .. Capacity

(* decode_token_threshold of a step without drafts. *)
DecodeTokenThreshold == 1

Contents == [req : Req \cup {NoReq}, gen : 0 .. MaxGen, len : 0 .. MaxLen,
             pad : BOOLEAN]
Zeroed == [req |-> NoReq, gen |-> 0, len |-> 0, pad |-> FALSE]
Junk == [req |-> NoReq, gen |-> 0, len |-> 0, pad |-> TRUE]   \* no request's history
Absent == [gen |-> 0, fed |-> 0]

(***************************************************************************)
(* The fields of SchedulerOutput a step reads.  toks, padded and computed  *)
(* are num_scheduled_tokens (0: not scheduled), num_scheduled_tokens_padded*)
(* and num_computed_tokens; gen names the incarnation a new request is.    *)
(***************************************************************************)
SchedulerOutput ==
  {so \in [finished : SUBSET Req, preempted : SUBSET Req, new : SUBSET Req,
           toks : [Req -> 0 .. MaxLen], padded : [Req -> Nat],
           computed : [Req -> 0 .. MaxLen], gen : [Req -> 0 .. MaxGen]] :
     \A r \in Req : so.computed[r] + so.toks[r] <= MaxLen}

Scheduled(so) == {r \in Req : so.toks[r] > 0}

(* Fault: only a new request takes the prefill path, a resumed one decodes. *)
IsPrefillNewOnly(so) == so.new # {}

(* The step's max_query_len exceeds decode_token_threshold. *)
IsPrefill(so) == \E r \in Scheduled(so) : so.padded[r] > DecodeTokenThreshold

InBatch(b) == {b[p] : p \in DOMAIN b}

TypeOK ==
  /\ phase \in {"warmup", "serving", "failed"}
  /\ slotByReq \in [Req -> Slots \cup {NoSlot}]
  /\ requests \in [Req -> [gen : 0 .. MaxGen, fed : 0 .. MaxLen]]
  /\ batch \in Seq(Req)
  /\ rows \in [Rows -> Contents]

Init ==
  /\ phase = "warmup"
  /\ slotByReq = [r \in Req |-> NoSlot]
  /\ requests = [r \in Req |-> Absent]
  /\ batch = << >>
  /\ rows = [s \in Rows |-> Zeroed]

-----------------------------------------------------------------------------
(* The slot map. *)

InUse(slots) == {slots[r] : r \in Req} \ {NoSlot}

(* Fault: a preempted request keeps its slot. *)
ReleasedOnFinishOnly(slots, so) ==
  [r \in Req |-> IF r \in so.finished THEN NoSlot ELSE slots[r]]

(* Fault: an empty step returns before it releases anything. *)
ReleasedUnlessEmpty(slots, so) ==
  IF Scheduled(so) = {} THEN slots
  ELSE [r \in Req |-> IF r \in so.finished \cup so.preempted THEN NoSlot
                                                             ELSE slots[r]]

(* _release_state_slots_for: finished and preempted requests lose their    *)
(* slot; a request that is merely not scheduled keeps it.                  *)
Released(slots, so) ==
  [r \in Req |-> IF r \in so.finished \cup so.preempted THEN NoSlot
                                                        ELSE slots[r]]

(* Fault: only the slots of this step's batch count as in use. *)
AvailableInBatch(slots, b, s2, p) ==
  Slots \ ({slots[r] : r \in InBatch(b)} \cup {s2[b[q]] : q \in 1 .. p - 1})

(* The slots the request at position p of batch b may take once those      *)
(* before it have theirs in s2.                                            *)
Available(slots, b, s2, p) ==
  Slots \ (InUse(slots) \cup {s2[b[q]] : q \in 1 .. p - 1})

(* _acquire_state_slot for every row of b in order: s2 is the map after a  *)
(* newcomer has taken the lowest slot not in use, or none when all are.    *)
Acquired(slots, b, s2) ==
  /\ \A r \in Req : (r \notin InBatch(b) \/ slots[r] # NoSlot) => s2[r] = slots[r]
  /\ \A p \in DOMAIN b :
       slots[b[p]] = NoSlot =>
         LET free == Available(slots, b, s2, p)
         IN  IF free = {} THEN s2[b[p]] = NoSlot
             ELSE s2[b[p]] \in free /\ \A s \in free : s2[b[p]] <= s

(* The RuntimeError of _acquire_state_slot: some row found no slot. *)
Exhausted(b, s2) == \E r \in InBatch(b) : s2[r] = NoSlot

(* _build_state_slots_tensor: position -> row; padded positions -> scratch. *)
StateSlotsTensor(b, s2, width) ==
  [p \in 1 .. width |-> IF p <= Len(b) THEN s2[b[p]] ELSE Scratch]

-----------------------------------------------------------------------------
(* _update_states: the request cache and the persistent batch. *)

RequestsAfter(so) ==
  [r \in Req |->
     IF so.toks[r] > 0
     THEN [gen |-> IF r \in so.new THEN so.gen[r] ELSE requests[r].gen,
           fed |-> so.computed[r] + so.toks[r]]
     ELSE IF r \in so.finished THEN Absent ELSE requests[r]]

(* The batch holds exactly the scheduled requests, in whatever order       *)
(* InputBatch's add, condense and reorder leave them.                      *)
Arrangement(b, S) ==
  /\ InBatch(b) = S
  /\ \A p, q \in DOMAIN b : b[p] = b[q] => p = q

-----------------------------------------------------------------------------
(* The model's forward: which rows a step reads and writes. *)

(* Fault: the length of the history is the bucket's. *)
AfterPrefillBucketLen(so, r) ==
  [req |-> r, gen |-> RequestsAfter(so)[r].gen, len |-> so.padded[r], pad |-> FALSE]

(* _forward_prefill starts from zero state, whatever the row holds: after  *)
(* it the row holds the tokens of this step alone.  They are the request's *)
(* history only if nothing was computed before.  The whole bucket flows    *)
(* through the recurrence, padding included.                               *)
AfterPrefill(so, r) ==
  IF so.computed[r] = 0
  THEN [req |-> r, gen |-> RequestsAfter(so)[r].gen, len |-> so.toks[r],
        pad |-> so.padded[r] > so.toks[r]]
  ELSE Junk

(* _forward_decode on one row: the history gains one token if the row held *)
(* the history of exactly the tokens before it, and is nobody's otherwise. *)
AfterDecode(old, so, r) ==
  IF /\ old.req = r /\ old.gen = RequestsAfter(so)[r].gen
     /\ old.len = so.computed[r]
  THEN [old EXCEPT !.len = so.computed[r] + so.toks[r]]
  ELSE Junk

(* Fault: one sequence's state is broadcast over every row. *)
PrefillRowsBroadcast(so, b, tensor) == [s \in Rows |-> AfterPrefill(so, b[1])]

(* Fault: the row is the batch position, not the slot. *)
PrefillRowsByPosition(so, b, tensor) == [rows EXCEPT ![0] = AfterPrefill(so, b[1])]

(* Prefill: index_copy of state_slots[:1]. *)
PrefillRows(so, b, tensor) ==
  [rows EXCEPT ![tensor[1]] = AfterPrefill(so, b[1])]

(* Decode: index_select then index_copy of all of state_slots.  writer[s]  *)
(* is the position whose write to row s lands; positions that share a row  *)
(* race, and any of them may win.                                          *)
Writers(tensor) ==
  LET written == {tensor[p] : p \in DOMAIN tensor}
  IN  {w \in [written -> DOMAIN tensor] : \A s \in written : tensor[w[s]] = s}

DecodeRows(so, b, tensor, writer) ==
  [s \in Rows |->
     IF s \notin DOMAIN writer THEN rows[s]
     ELSE IF writer[s] <= Len(b) THEN AfterDecode(rows[s], so, b[writer[s]])
     ELSE Junk]

Forward(so, b, tensor) ==
  \/ /\ IsPrefill(so)
     /\ rows' = PrefillRows(so, b, tensor)
  \/ /\ ~IsPrefill(so)
     /\ \E writer \in Writers(tensor) : rows' = DecodeRows(so, b, tensor, writer)

-----------------------------------------------------------------------------
(* execute_model: release, _update_states, then nothing more for an empty  *)
(* step; otherwise the slots of the batch are acquired while the attention *)
(* metadata is built, and the forward runs on them.  Exhaustion raises     *)
(* before the forward.                                                     *)
ExecuteModel(so) ==
  /\ phase = "serving"
  /\ requests' = RequestsAfter(so)
  /\ \E b \in [1 .. Cardinality(Scheduled(so)) -> Scheduled(so)] :
       /\ Arrangement(b, Scheduled(so))
       /\ batch' = b
       /\ \E s2 \in [Req -> Slots \cup {NoSlot}] :
            /\ Acquired(Released(slotByReq, so), b, s2)
            /\ slotByReq' = s2
            /\ \/ /\ Scheduled(so) = {}
                  /\ UNCHANGED <<phase, rows>>
               \/ /\ Scheduled(so) # {}
                  /\ Exhausted(b, s2)
                  /\ phase' = "failed"
                  /\ UNCHANGED rows
               \/ /\ Scheduled(so) # {}
                  /\ ~Exhausted(b, s2)
                  /\ UNCHANGED phase
                  /\ \E width \in Len(b) .. Capacity :
                       Forward(so, b, StateSlotsTensor(b, s2, width))

(* The rows a synthetic batch of this width writes through a tensor. *)
JunkRows(tensor) ==
  [s \in Rows |-> IF \E p \in DOMAIN tensor : tensor[p] = s THEN Junk ELSE rows[s]]

(* Fault: the dummy batch keeps the warmup's identity slots. *)
DummyTensorIdentity(width) == [p \in 1 .. width |-> p - 1]

(* execute_dummy_batch's tensor: scratch for every row. *)
DummyTensor(width) == [p \in 1 .. width |-> Scratch]

(* _build_warmup_attention_metadata's tensor: row i for position i. *)
WarmupTensor(width) == [p \in 1 .. width |-> p - 1]

(* execute_dummy_batch: an idle data-parallel rank joins the others'       *)
(* forward, in the middle of serving.                                      *)
ExecuteDummyBatch ==
  /\ phase = "serving"
  /\ \E width \in 1 .. Capacity : rows' = JunkRows(DummyTensor(width))
  /\ UNCHANGED <<phase, slotByReq, requests, batch>>

(* A warmup forward, before serving. *)
Warmup ==
  /\ phase = "warmup"
  /\ \E width \in 1 .. Capacity : rows' = JunkRows(WarmupTensor(width))
  /\ UNCHANGED <<phase, slotByReq, requests, batch>>

(* _reset_state, after warmup: no request, no slot; the rows stay dirty. *)
ResetState ==
  /\ phase = "warmup"
  /\ phase' = "serving"
  /\ slotByReq' = [r \in Req |-> NoSlot]
  /\ requests' = [r \in Req |-> Absent]
  /\ batch' = << >>
  /\ UNCHANGED rows

Next ==
  \/ Warmup
  \/ ResetState
  \/ ExecuteDummyBatch
  \/ \E so \in SchedulerOutput : ExecuteModel(so)

Spec == Init /\ [][Next]_runnerVars

-----------------------------------------------------------------------------
(* Properties. *)

(* No two requests are ever assigned the same row of the state buffers     *)
(* (_acquire_state_slot's first free slot), and, by TypeOK, none is        *)
(* assigned the scratch row.                                               *)
SlotsDistinct ==
  \A r1, r2 \in Req :
    slotByReq[r1] = slotByReq[r2] /\ slotByReq[r1] # NoSlot => r1 = r2

(* A step never touches the state row of a request it does not run: rows   *)
(* of parked requests (decodes waiting out another request's prefill, or a *)
(* data-parallel dummy batch) survive every prefill, decode and dummy.     *)
KeepsParkedRows ==
  \A r \in Req :
    /\ slotByReq[r] # NoSlot
    /\ slotByReq'[r] = slotByReq[r]
    /\ r \notin InBatch(batch')
    => rows'[slotByReq[r]] = rows[slotByReq[r]]

ParkedRowsKept == [][KeepsParkedRows]_runnerVars
=============================================================================
