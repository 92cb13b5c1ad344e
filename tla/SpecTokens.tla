----------------------------- MODULE SpecTokens -----------------------------
(***************************************************************************)
(* Speculative decoding (EAGLE3) with async scheduling: where the inputs   *)
(* of a step come from when the previous step's tokens, and the drafts     *)
(* proposed after them, are still on the device.                           *)
(*                                                                         *)
(* The main thread of one rank's NeuronModelRunner, one SchedulerOutput at *)
(* a time (what its threads interleave within a step is AsyncTokens'       *)
(* subject); on this rank nobody else calls get_output, so its host rows   *)
(* lag.  A step feeds each request its last token and K drafts, and the    *)
(* sampler keeps the drafts the model agrees with and adds one token.  The *)
(* scheduler counts every draft as accepted until it receives the output;  *)
(* the positions are corrected on the device.  All requests of a step have *)
(* drafts, or none has; the rank is not a KV consumer.                     *)
(*                                                                         *)
(* A step may have been scheduled with drafts before the runner declined   *)
(* to propose any for it: the tokens of such a step are still the client's *)
(* stream, whatever they were computed from.                               *)
(***************************************************************************)
EXTENDS Integers, Sequences, FiniteSets

CONSTANTS
  Req,         \* request ids, used once each
  NoReq,       \* not a request id
  K,           \* num_speculative_tokens
  PromptLen,   \* prompt tokens of a request
  MaxOut,      \* max_tokens of a request
  MaxLen,      \* max_model_len
  Buckets      \* num_seqs_buckets: padded decode batch sizes

ASSUME SpecReqAssumption == IsFiniteSet(Req) /\ NoReq \notin Req
ASSUME SpecLengthAssumption ==
  /\ K \in Nat \ {0} /\ PromptLen \in Nat \ {0} /\ MaxOut \in Nat \ {0}
  /\ MaxLen \in Nat /\ PromptLen + MaxOut <= MaxLen
ASSUME SpecBucketAssumption ==
  Buckets \subseteq Nat /\ \E w \in Buckets : w >= Cardinality(Req)

VARIABLES
  requests,  \* the ids in self.requests
  batch,     \* input_batch.req_ids
  rows,      \* request -> how much of its host row is its history
  last,      \* futures_sampled_token_ids, with prev_req_ids_ordered
  accepted,  \* futures_last_accepted_token: of the last step with drafts
  drafts,    \* futures_draft_token_ids, or << >>
  only,      \* futures_drafts_only, or << >>
  cache,     \* _async_spec_transition_full_draft_cache
  forward,   \* what each row of the last forward was fed, and what was due
  length     \* request -> the tokens it has: its prompt and all sampled

runnerVars ==
  <<requests, batch, rows, last, accepted, drafts, only, cache, forward, length>>

InBatch(b) == {b[p] : p \in DOMAIN b}
IndexIn(b, r) == CHOOSE p \in DOMAIN b : b[p] = r

(* The token at a position of a request's stream; a placeholder, or what   *)
(* lies in a row that lags, is Garbage.                                    *)
Token == [req : Req \cup {NoReq}, pos : Nat]
Garbage == [req |-> NoReq, pos |-> 0]
Tok(r, i) == [req |-> r, pos |-> i]

(* A row of the draft future: a token and the drafts proposed to follow    *)
(* it, of which the model will agree with the first good.                  *)
DraftRows == [of : Token, good : 0 .. K]
Placeholder == [of |-> Garbage, good |-> 0]   \* -1 for each draft
NoDrafts == [of |-> Garbage, good |-> K]      \* no row

(* One step's sampled tokens: how many each row kept and the last of them, *)
(* whether it was scheduled with drafts (spec) and ran with them (wide),   *)
(* and its padded batch size.                                              *)
Outputs ==
  [reqs : Seq(Req), kept : Seq(1 .. K + 1), toks : Seq(Token), before : Seq(Nat),
   spec : BOOLEAN, wide : BOOLEAN, width : Nat]
NoOutput ==
  [reqs |-> << >>, kept |-> << >>, toks |-> << >>, before |-> << >>,
   spec |-> FALSE, wide |-> FALSE, width |-> 0]

Init ==
  /\ requests = {} /\ batch = << >>
  /\ rows = [r \in Req |-> 0]
  /\ last = NoOutput
  /\ accepted = << >> /\ drafts = << >> /\ only = << >>
  /\ cache = [r \in Req |-> NoDrafts]
  /\ forward = << >>
  /\ length = [r \in Req |-> PromptLen]

-----------------------------------------------------------------------------
(* The batch against the previous step's. *)

(* Padded batch size of the step's futures; a prefill runs alone. *)
Width(so) ==
  IF so.prefill THEN 1
  ELSE CHOOSE w \in Buckets :
         /\ w >= Cardinality(so.reqs)
         /\ \A v \in Buckets : v >= Cardinality(so.reqs) => w <= v

(* composition_changed *)
CompositionChanged(so) == last # NoOutput /\ so.reqs # InBatch(last.reqs)

(* spec_to_nonspec_transition *)
ToNonspec(so) == ~CompositionChanged(so) /\ last.wide /\ ~so.spec

(* Does the step keep its drafts?  _drop_transition_spec_decode: not if    *)
(* one of its requests has no cached row.                                  *)
Speculates(so) ==
  so.spec /\ (CompositionChanged(so) => \A r \in so.reqs : cache[r] # NoDrafts)

(* The batch order after _update_states: rows only move when requests      *)
(* enter or leave.                                                         *)
Orders(so) ==
  IF InBatch(batch) = so.reqs THEN {batch}
  ELSE {b \in [1 .. Cardinality(so.reqs) -> so.reqs] : InBatch(b) = so.reqs}

-----------------------------------------------------------------------------
(* The inputs. *)

(* The five ways a step gets its input_ids: from the cached rows, from the *)
(* draft future, from the last accepted tokens, from the sampled tokens,   *)
(* or from the host rows.                                                  *)
Fills(so) == Speculates(so) /\ CompositionChanged(so)

HandsOver(so) ==
  /\ Speculates(so) /\ ~CompositionChanged(so)
  /\ drafts # << >> /\ last.width = Width(so)

Reuses(so) ==
  /\ ~so.spec /\ ~so.prefill /\ ~CompositionChanged(so) /\ ~ToNonspec(so)
  /\ last # NoOutput /\ ~last.wide /\ last.width = Width(so)

Rebuilds(so) == ~(Fills(so) \/ HandsOver(so) \/ ToNonspec(so) \/ Reuses(so))

(* The rows after get_output on the last output, when it is called: a      *)
(* sampled token is appended to a row that ends where it belongs.  What a  *)
(* step with drafts leaves in a row is not relied on.                      *)
Materialized(so, r) ==
  IF /\ CompositionChanged(so) \/ ToNonspec(so) \/ Rebuilds(so)
     /\ ~last.wide /\ r \in InBatch(batch) /\ r \in InBatch(last.reqs)
     /\ rows[r] = last.before[IndexIn(last.reqs, r)]
  THEN rows[r] + 1 ELSE rows[r]

(* ... and after _update_states: a request that enters the batch gets what *)
(* the scheduler has received of it.                                       *)
RowsAfter(so) ==
  [r \in Req |-> IF r \in so.reqs \ InBatch(batch) THEN PromptLen + so.known[r]
                 ELSE IF r \in so.reqs THEN Materialized(so, r) ELSE 0]

(* The host gather at the scheduler's position. *)
Gathered(so, r) ==
  IF so.computed[r] < RowsAfter(so)[r] THEN Tok(r, so.computed[r]) ELSE Garbage

(* Fault: the rebuilt inputs are trusted. *)
RebuiltUnfixed(so, r) == Gathered(so, r)

(* _apply_async_fallback_token_fixup: rows of one token take the previous  *)
(* step's last token.                                                      *)
Rebuilt(so, r) ==
  IF ~so.prefill /\ ~Speculates(so) /\ r \in InBatch(last.reqs)
  THEN last.toks[IndexIn(last.reqs, r)] ELSE Gathered(so, r)

(* The first token of the row of r, which is row p. *)
First(so, r, p) ==
  CASE Fills(so) -> cache[r].of
    [] HandsOver(so) -> drafts[p].of
    [] ToNonspec(so) -> accepted[p]
    [] Reuses(so) -> last.toks[IndexIn(last.reqs, r)]
    [] Rebuilds(so) -> Rebuilt(so, r)

(* The drafts that follow it. *)
Fed(so, r, p) ==
  CASE Fills(so) -> cache[r]
    [] HandsOver(so) -> drafts[p]
    [] OTHER -> Placeholder

(* Fault: the batch changed, but the drafts future is used as it is. *)
VerifiedByPosition(so, r, p) ==
  IF Speculates(so) /\ p \in DOMAIN only THEN only[p] ELSE Placeholder

(* spec_decode_metadata.draft_token_ids, set apart from input_ids and from *)
(* a future of its own.                                                    *)
Verified(so, r, p) ==
  CASE Fills(so) -> cache[r]
    [] Speculates(so) /\ ~CompositionChanged(so) /\ only # << >>
         /\ last.width = Width(so) -> only[p]
    [] OTHER -> Placeholder

(* Fault: the previous counts are read in the current batch's order. *)
RejectedByPosition(so, r, p) ==
  IF p \in DOMAIN last.kept THEN K + 1 - last.kept[p] ELSE 0

(* _remap_prev_sampled_by_req_id: the drafts of r the previous step        *)
(* rejected.                                                               *)
Rejected(so, r, p) ==
  IF r \in InBatch(last.reqs) THEN K + 1 - last.kept[IndexIn(last.reqs, r)] ELSE 0

(* Fault: any previous output is taken for one with drafts. *)
PositionAlways(so, r, p) ==
  IF ~so.prefill
  THEN so.computed[r] - Rejected(so, r, p) ELSE so.computed[r]

(* The corrected position of a row; without a previous future of the same  *)
(* shape the correction is a no-op.                                        *)
Position(so, r, p) ==
  IF ~so.prefill /\ last.wide /\ last.width = Width(so)
  THEN so.computed[r] - Rejected(so, r, p) ELSE so.computed[r]

-----------------------------------------------------------------------------
(* The forward, the sampler and the proposal. *)

(* Scheduled with drafts after a step that proposed none, or right after   *)
(* a step whose drafts were dropped but counted: nothing on the device     *)
(* replaces what the scheduler assumed.                                    *)
Surprised(so) == (so.spec /\ drafts = << >>) \/ (last.spec /\ ~last.wide)

Inputs(so, r, p) ==
  [req |-> r, first |-> First(so, r, p), at |-> Position(so, r, p),
   fed |-> Fed(so, r, p), verified |-> Verified(so, r, p),
   due |-> IF so.prefill THEN 0 ELSE length[r] - 1,
   surprised |-> Surprised(so)]

Right(row) == row.first = Tok(row.req, row.due) /\ row.at = row.due

(* The tokens a row keeps: drafts that follow the token they were proposed *)
(* after, as far as the model agrees, and one more.                        *)
Kept(row) ==
  IF row.verified = row.fed /\ row.fed.of = row.first THEN row.fed.good + 1 ELSE 1

(* Fault: proposals go on until the scheduler itself would trim. *)
SpecLimitSync == MaxLen - K - 2

(* spec_decode_limit *)
SpecLimit == MaxLen - K - 2 - (1 + K)

(* The optimistic position of the step's last token. *)
LastPosition(so, r) ==
  so.computed[r] + (IF so.prefill THEN PromptLen - 1 ELSE IF Speculates(so) THEN K ELSE 0)

(* ~skip_propose *)
Proposes(so) ==
  /\ \A r \in so.reqs : LastPosition(so, r) < SpecLimit
  /\ Speculates(so) \/ so.prefill

(* Fault: rows are only cached for requests that have none. *)
CacheAfterOnce(so, newDrafts, b) ==
  LET proposed == InBatch(b)
      left == [r \in Req |-> IF Fills(so) /\ r \in so.reqs THEN NoDrafts ELSE cache[r]]
      live == (requests \ so.finished) \cup so.reqs
  IN  IF newDrafts = << >> THEN left
      ELSE [r \in Req |-> IF r \in proposed /\ left[r] = NoDrafts
                          THEN newDrafts[IndexIn(b, r)]
                          ELSE IF r \in live THEN left[r] ELSE NoDrafts]

(* _consume_, _cache_async_spec_transition_drafts and the pruning. *)
CacheAfter(so, newDrafts, b) ==
  LET left == [r \in Req |-> IF Fills(so) /\ r \in so.reqs THEN NoDrafts ELSE cache[r]]
      live == (requests \ so.finished) \cup so.reqs
  IN  IF newDrafts = << >> THEN left
      ELSE [r \in Req |-> IF r \in so.reqs THEN newDrafts[IndexIn(b, r)]
                          ELSE IF r \in live THEN left[r] ELSE NoDrafts]

(* Fault: the drafts-only future of an earlier step stays in the buffer.   *)
OnlySticky(newDrafts) == IF newDrafts = << >> THEN only ELSE newDrafts

(* The drafts-only future, taken out of the runner with the drafts.        *)
Only(newDrafts) == newDrafts

(* execute_model and sample_tokens; how many of the proposed drafts the    *)
(* model will agree with is up to the model.                               *)
Run(so) ==
  \E b \in Orders(so) :
    LET row == [p \in DOMAIN b |-> Inputs(so, b[p], p)]
        kept == [p \in DOMAIN b |-> Kept(row[p])]
        sampled == [p \in DOMAIN b |-> Tok(b[p], length[b[p]] + kept[p] - 1)]
    IN  /\ requests' = (requests \ so.finished) \cup so.reqs
        /\ batch' = b
        /\ rows' = RowsAfter(so)
        /\ forward' = row
        /\ last' = [reqs |-> b, kept |-> kept, toks |-> sampled,
                    before |-> [p \in DOMAIN b |-> length[b[p]]],
                    spec |-> so.spec, wide |-> Speculates(so), width |-> Width(so)]
        /\ length' = [r \in Req |-> IF r \in so.reqs THEN length[r] + kept[IndexIn(b, r)]
                                    ELSE IF r \in so.finished THEN PromptLen ELSE length[r]]
        /\ accepted' = IF Speculates(so) THEN sampled ELSE accepted
        /\ drafts' \in
             IF Proposes(so)
             THEN {[p \in DOMAIN b |-> [of |-> sampled[p], good |-> good[p]]] :
                     good \in [DOMAIN b -> 0 .. K]}
             ELSE {<< >>}
        /\ only' = Only(drafts')
        /\ cache' = CacheAfter(so, drafts', b)

(* A step without tokens ends after _update_states. *)
RunEmpty(so) ==
  /\ requests' = requests \ so.finished
  /\ batch' = << >>
  /\ rows' = RowsAfter(so)
  /\ UNCHANGED <<last, accepted, drafts, only, cache, forward, length>>
=============================================================================
