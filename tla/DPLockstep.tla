----------------------------- MODULE DPLockstep -----------------------------
(***************************************************************************)
(* Data-parallel ranks of a decode pool in lockstep.                       *)
(*                                                                         *)
(* Every engine step of a rank is a decode of its requests or, when it has *)
(* none, execute_dummy_batch.  The forward runs a compiled graph (a NEFF)  *)
(* that holds collectives over all ranks, so all ranks must dispatch the   *)
(* same graphs in the same order.  One host all-reduce per step            *)
(* (_get_dp_padding) agrees on what selects the graph: the batch width,    *)
(* the context bucket, and speculative or not.                             *)
(*                                                                         *)
(* The pool is a KV consumer: prefills run elsewhere, a request's first    *)
(* decode has no drafts, and a request has all its drafts or none.  It is  *)
(* admitted with all but the last token of its prompt computed, which for  *)
(* a prompt of one token is none: a busy rank's context may be 0, which    *)
(* is also the vote of an idle one.  The engine core, which calls          *)
(* execute_dummy_batch on an idle rank, is external; here a rank is busy   *)
(* or idle in any step.                                                    *)
(***************************************************************************)
EXTENDS Integers, Sequences, FiniteSets

CONSTANTS
  Ranks,          \* data-parallel ranks
  MaxReqs,        \* bound: requests of a rank
  SeqBuckets,     \* num_seqs_buckets
  CtxLens,        \* computed tokens of a rank's longest request
  CtxBuckets,     \* decode_context_length_buckets
  MaxModelLen,    \* max_model_len
  NumSpec,        \* num_speculative_tokens, 0 without speculation
  Ahead           \* bound: forwards of a rank the device has not completed

ASSUME RanksAssumption == IsFiniteSet(Ranks) /\ Ranks # {}
ASSUME BucketsAssumption ==
  /\ SeqBuckets \subseteq Nat \ {0} /\ CtxBuckets \subseteq Nat
  /\ MaxReqs \in Nat \ {0} /\ MaxModelLen \in Nat
  /\ \E b \in SeqBuckets : MaxReqs <= b
ASSUME CtxAssumption ==
  /\ CtxLens \subseteq Nat /\ NumSpec \in Nat
  /\ \A c \in CtxLens : c + 1 + NumSpec <= MaxModelLen
ASSUME AheadAssumption == Ahead \in Nat \ {0}

VARIABLES
  asyncSched, \* use_async_scheduling, the same on all ranks
  pc,         \* rank -> where its step is
  work,       \* rank -> its batch in this step
  agreed,     \* rank -> the reduce's result (_dp_padding_cache)
  forwards    \* rank -> what it dispatched and is not completed, oldest first

vars == <<asyncSched, pc, work, agreed, forwards>>

Smallest(S) == CHOOSE b \in S : \A k \in S : b <= k
BucketFor(n, buckets) == Smallest({b \in buckets : n <= b})

Drafts == {"none", "some", "all"}
Idle == [busy |-> FALSE, reqs |-> 0, ctx |-> 0, drafts |-> "none"]
Work ==
  {Idle} \cup
  {w \in [busy : {TRUE}, reqs : 1 .. MaxReqs, ctx : CtxLens, drafts : Drafts] :
     /\ w.drafts = "some" => w.reqs > 1
     /\ w.ctx = 0 => w.drafts = "none"
     /\ NumSpec = 0 => w.drafts = "none"}

Neffs == [width : SeqBuckets, spec : BOOLEAN, ctx : CtxBuckets \cup {MaxModelLen}]
Votes == [width : SeqBuckets \cup {0}, ctx : CtxLens \cup {0}, spec : BOOLEAN,
          force : BOOLEAN]

(* A dispatched graph, with who dispatched it and the agreed context. *)
Forwards == [neff : Neffs, busy : BOOLEAN, ctx : CtxLens \cup {0}]

NoVote == [width |-> 0, ctx |-> 0, spec |-> FALSE, force |-> FALSE]

TypeOK ==
  /\ asyncSched \in BOOLEAN
  /\ pc \in [Ranks -> {"start", "reduce", "prepared", "ready", "wait"}]
  /\ work \in [Ranks -> Work]
  /\ agreed \in [Ranks -> Votes]
  /\ forwards \in [Ranks -> Seq(Forwards)]
  /\ \A r \in Ranks : Len(forwards[r]) <= Ahead

Init ==
  /\ asyncSched \in BOOLEAN
  /\ pc = [r \in Ranks |-> "start"]
  /\ work = [r \in Ranks |-> Idle]
  /\ agreed = [r \in Ranks |-> NoVote]
  /\ forwards = [r \in Ranks |-> << >>]

-----------------------------------------------------------------------------
(* The vote and what comes of it. *)

(* The rank's own padded batch size; an idle rank starts from the smallest *)
(* bucket.                                                                 *)
Width(w) == IF w.busy THEN BucketFor(w.reqs, SeqBuckets) ELSE Smallest(SeqBuckets)

(* _local_step_forces_nonspec: no drafts, or not for every request. *)
ForcesNonspec(w) == w.busy /\ NumSpec > 0 /\ w.drafts # "all"

Vote(w) == [width |-> Width(w), ctx |-> w.ctx, spec |-> w.drafts # "none",
            force |-> ForcesNonspec(w)]

(* _get_dp_padding: the MAX of every field. *)
MaxOf(S) == CHOOSE m \in S : \A k \in S : k <= m

Reduced ==
  LET votes == {Vote(work[r]) : r \in Ranks}
  IN  [width |-> MaxOf({v.width : v \in votes}), ctx |-> MaxOf({v.ctx : v \in votes}),
       spec |-> \E v \in votes : v.spec, force |-> \E v \in votes : v.force]

(* _maybe_strip_spec_for_nonspec_step *)
Stripped(w, a) == IF ForcesNonspec(w) \/ a.force THEN "none" ELSE w.drafts

(* _decode_ctx_bucket_from_max_decode_ctx_len *)
CtxBucket(ctx, drafts) == BucketFor(ctx + 1 + drafts, CtxBuckets \cup {MaxModelLen})

(* Fault: the agreed width is added, not the difference to it. *)
BusyNeffOverPadded(w, a) ==
  LET spec == Stripped(w, a) # "none"
  IN  [width |-> Width(w) + a.width, spec |-> spec,
       ctx |-> CtxBucket(a.ctx, IF spec THEN NumSpec ELSE 0)]

(* The graph of a decode step. *)
BusyNeff(w, a) ==
  LET spec == Stripped(w, a) # "none"
  IN  [width |-> Width(w) + (a.width - Width(w)), spec |-> spec,
       ctx |-> CtxBucket(a.ctx, IF spec THEN NumSpec ELSE 0)]

(* Fault: the idle rank speculates whenever any rank does. *)
DummyNeffAnySpec(a) ==
  [width |-> a.width, spec |-> a.spec,
   ctx |-> IF a.ctx > 0 THEN CtxBucket(a.ctx, IF a.spec THEN NumSpec ELSE 0)
           ELSE MaxModelLen]

(* The graph of execute_dummy_batch. *)
DummyNeff(a) ==
  LET spec == a.spec /\ ~a.force
  IN  [width |-> a.width, spec |-> spec,
       ctx |-> IF a.ctx > 0 THEN CtxBucket(a.ctx, IF spec THEN NumSpec ELSE 0)
               ELSE MaxModelLen]

Neff(r) == IF work[r].busy THEN BusyNeff(work[r], agreed[r]) ELSE DummyNeff(agreed[r])

Dispatched(r) == [neff |-> Neff(r), busy |-> work[r].busy, ctx |-> agreed[r].ctx]

-----------------------------------------------------------------------------
(* Fault: an idle rank goes to its forward without the reduce. *)
StartIdleUnreduced(r) ==
  /\ pc[r] = "start"
  /\ \E w \in Work, reads \in BOOLEAN :
       /\ reads => forwards[r] = << >>
       /\ work' = [work EXCEPT ![r] = w]
       /\ pc' = [pc EXCEPT ![r] = IF w.busy THEN "reduce" ELSE "prepared"]
  /\ UNCHANGED <<asyncSched, agreed, forwards>>

(* A rank enters a step, up to its primary input preparation.  When the    *)
(* composition of its batch has changed it first reads back the previous   *)
(* step's tokens, which blocks until the device has completed it.          *)
Start(r) ==
  /\ pc[r] = "start"
  /\ pc' = [pc EXCEPT ![r] = "reduce"]
  /\ \E w \in Work, reads \in BOOLEAN :
       /\ reads => forwards[r] = << >>
       /\ work' = [work EXCEPT ![r] = w]
  /\ UNCHANGED <<asyncSched, agreed, forwards>>

(* The all-reduce returns on every rank once every rank has called it. *)
Reduce ==
  /\ \A r \in Ranks : pc[r] = "reduce"
  /\ pc' = [r \in Ranks |-> "prepared"]
  /\ agreed' = [r \in Ranks |-> Reduced]
  /\ UNCHANGED <<asyncSched, work, forwards>>

(* Fault: the second preparation votes again. *)
ReprepReduces(r) ==
  /\ asyncSched /\ work[r].busy
  /\ pc[r] = "prepared" /\ forwards[r] = << >>
  /\ pc' = [pc EXCEPT ![r] = "reduce"]
  /\ UNCHANGED <<asyncSched, work, agreed, forwards>>

(* The fallback of async scheduling: read back the previous step's tokens  *)
(* and prepare again, with the agreement of the first preparation.         *)
Reprep(r) ==
  /\ asyncSched /\ work[r].busy
  /\ pc[r] = "prepared" /\ forwards[r] = << >>
  /\ pc' = [pc EXCEPT ![r] = "ready"]
  /\ UNCHANGED <<asyncSched, work, agreed, forwards>>

(* Fault: an idle rank takes part in the reduce alone. *)
DispatchBusyOnly(r) ==
  /\ pc[r] \in {"prepared", "ready"}
  /\ Len(forwards[r]) < Ahead
  /\ forwards' = IF work[r].busy THEN [forwards EXCEPT ![r] = Append(@, Dispatched(r))]
                 ELSE forwards
  /\ pc' = [pc EXCEPT ![r] = IF work[r].busy /\ ~asyncSched THEN "wait" ELSE "start"]
  /\ UNCHANGED <<asyncSched, work, agreed>>

(* The forward.  Without async scheduling a busy rank reads its tokens     *)
(* back; a dummy's output is never read.                                   *)
Dispatch(r) ==
  /\ pc[r] \in {"prepared", "ready"}
  /\ Len(forwards[r]) < Ahead
  /\ forwards' = [forwards EXCEPT ![r] = Append(@, Dispatched(r))]
  /\ pc' = [pc EXCEPT ![r] = IF work[r].busy /\ ~asyncSched THEN "wait" ELSE "start"]
  /\ UNCHANGED <<asyncSched, work, agreed>>

(* The device: the collectives of the oldest forward meet on all ranks. *)
Complete ==
  /\ \A r \in Ranks : forwards[r] # << >>
  /\ forwards' = [r \in Ranks |-> Tail(forwards[r])]
  /\ UNCHANGED <<asyncSched, pc, work, agreed>>

Return(r) ==
  /\ pc[r] = "wait" /\ forwards[r] = << >>
  /\ pc' = [pc EXCEPT ![r] = "start"]
  /\ UNCHANGED <<asyncSched, work, agreed, forwards>>

Next ==
  \/ \E r \in Ranks : Start(r) \/ Reprep(r) \/ Dispatch(r) \/ Return(r)
  \/ Reduce
  \/ Complete

Spec == Init /\ [][Next]_vars

(* Each rank's process runs, and so do the reduce and the device. *)
FairSpec ==
  /\ Spec
  /\ \A r \in Ranks : WF_vars(Start(r)) /\ WF_vars(Dispatch(r)) /\ WF_vars(Return(r))
  /\ WF_vars(Reduce) /\ WF_vars(Complete)

-----------------------------------------------------------------------------
(* Properties. *)

(* Two forwards whose collectives meet: the same batch width, both with    *)
(* drafts or both without, and the same graph.  The one exception: when no *)
(* busy rank has a computed token (all votes are 0), an idle rank takes    *)
(* the graph of max_model_len, a busy one that of its bucket; busy ranks   *)
(* match each other, and so do idle ones.                                  *)
Match(f, g) ==
  /\ f.neff.width = g.neff.width /\ f.neff.spec = g.neff.spec
  /\ f.ctx = g.ctx
  /\ f.busy = g.busy \/ f.ctx > 0 => f.neff = g.neff

(* All ranks dispatch matching graphs in the same order, whether they are  *)
(* busy or idle, speculating or pulled down by a peer, prepared once or    *)
(* twice.                                                                  *)
SameGraphs ==
  \A r, s \in Ranks : \A k \in DOMAIN forwards[r] \cap DOMAIN forwards[s] :
    Match(forwards[r][k], forwards[s][k])

(* No rank is more than one forward ahead of another: the one reduce per   *)
(* step keeps them together although no rank waits for the device.         *)
Lockstep ==
  \A r, s \in Ranks : Len(forwards[r]) <= Len(forwards[s]) + 1

(* A rank that has entered a step leaves it: the host reduce and the       *)
(* device collectives never wait for each other in a circle.               *)
StepsEnd == \A r \in Ranks : pc[r] = "reduce" ~> pc[r] = "start"
=============================================================================
