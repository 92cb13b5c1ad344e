---------------------------- MODULE SlotServing -----------------------------
(***************************************************************************)
(* The state slots of StateSlots under the scheduler they serve.           *)
(*                                                                         *)
(* The scheduler, the engine loop and the clients are not in this          *)
(* repository; they are modelled from what the runner relies on: a prefill *)
(* runs one sequence per step while the decodes are parked, a prompt is    *)
(* never split over steps, at most MaxNumSeqs requests run at once, a      *)
(* finished or preempted request is reported in the next SchedulerOutput,  *)
(* and with async scheduling up to QueueDepth outputs are scheduled ahead  *)
(* of the worker, which executes them in order.  Clients submit, stop or   *)
(* abort requests at any moment, and may resubmit an aborted id.           *)
(***************************************************************************)
EXTENDS StateSlots

CONSTANTS
  MaxNumSeqs,   \* max_num_seqs
  QueueDepth,   \* SchedulerOutputs scheduled ahead of the worker
  PromptLens,   \* prompt lengths
  Buckets       \* num_batched_tokens_buckets

ASSUME SchedulerAssumption ==
  /\ MaxNumSeqs \in Nat \ {0} /\ QueueDepth \in Nat \ {0}
  /\ PromptLens \subseteq 1 .. MaxLen
  /\ \A k \in Buckets : k \in Nat /\ k > DecodeTokenThreshold
  /\ \A n \in 1 .. MaxLen :
       \E b \in Buckets : n <= b /\ \A k \in Buckets : n <= k => b <= k

VARIABLES
  status,     \* request -> "idle", "waiting", "preempted" or "running"
  gen,        \* incarnation of the request id, 0 before the first
  target,     \* tokens of the request known so far
  finished,   \* ids to report in the next SchedulerOutput
  queue       \* SchedulerOutputs not executed yet

schedulerVars == <<status, gen, target, finished, queue>>
servingVars == <<runnerVars, schedulerVars>>

Running == {r \in Req : status[r] = "running"}

ServingTypeOK ==
  /\ TypeOK
  /\ status \in [Req -> {"idle", "waiting", "preempted", "running"}]
  /\ gen \in [Req -> 0 .. MaxGen]
  /\ target \in [Req -> 0 .. MaxLen + 1]
  /\ finished \in SUBSET Req
  /\ queue \in Seq(SchedulerOutput)
  /\ Len(queue) <= QueueDepth

ServingInit ==
  /\ Init
  /\ status = [r \in Req |-> "idle"]
  /\ gen = [r \in Req |-> 0]
  /\ target = [r \in Req |-> 0]
  /\ finished = {}
  /\ queue = << >>

-----------------------------------------------------------------------------
(* Clients. *)

Submit(r) ==
  /\ phase = "serving"
  /\ status[r] = "idle" /\ gen[r] < MaxGen
  /\ status' = [status EXCEPT ![r] = "waiting"]
  /\ gen' = [gen EXCEPT ![r] = @ + 1]
  /\ \E n \in PromptLens : target' = [target EXCEPT ![r] = n]
  /\ UNCHANGED <<runnerVars, finished, queue>>

(* A stop token, a length limit or an abort, whatever is still queued. *)
Finish(r) ==
  /\ status[r] # "idle"
  /\ status' = [status EXCEPT ![r] = "idle"]
  /\ target' = [target EXCEPT ![r] = 0]
  /\ finished' = finished \cup {r}
  /\ UNCHANGED <<runnerVars, gen, queue>>

-----------------------------------------------------------------------------
(* The scheduler. *)

Bucket(n) == CHOOSE b \in Buckets : n <= b /\ \A k \in Buckets : n <= k => b <= k

Nothing == [r \in Req |-> 0]

Enqueue(so) ==
  /\ Len(queue) < QueueDepth
  /\ queue' = Append(queue, so)
  /\ finished' = {}

(* A waiting or preempted request prefills all its tokens, alone. *)
SchedulePrefill(r) ==
  /\ phase = "serving"
  /\ status[r] \in {"waiting", "preempted"} /\ target[r] <= MaxLen
  /\ Cardinality(Running) < MaxNumSeqs
  /\ Enqueue([finished |-> finished, preempted |-> {},
              new |-> IF status[r] = "waiting" THEN {r} ELSE {},
              toks |-> [Nothing EXCEPT ![r] = target[r]],
              padded |-> [Nothing EXCEPT ![r] = Bucket(target[r])],
              computed |-> Nothing,
              gen |-> [Nothing EXCEPT ![r] = gen[r]]])
  /\ status' = [status EXCEPT ![r] = "running"]
  /\ target' = [target EXCEPT ![r] = @ + 1]
  /\ UNCHANGED <<runnerVars, gen>>

(* The running requests decode one token each; when the KV cache is out of *)
(* blocks one of them, P, is preempted instead.  A step without any        *)
(* scheduled request still reports the finished and the preempted ones.    *)
ScheduleDecode(P) ==
  LET S == {r \in Running \ P : target[r] <= MaxLen}
      one == [r \in Req |-> IF r \in S THEN 1 ELSE 0]
  IN  /\ phase = "serving"
      /\ P \subseteq Running /\ Cardinality(P) <= 1
      /\ S \cup P \cup finished # {}
      /\ Enqueue([finished |-> finished, preempted |-> P, new |-> {},
                  toks |-> one, padded |-> one,
                  computed |-> [r \in Req |-> IF r \in S THEN target[r] - 1 ELSE 0],
                  gen |-> Nothing])
      /\ status' = [r \in Req |-> IF r \in P THEN "preempted" ELSE status[r]]
      /\ target' = [r \in Req |-> IF r \in S THEN target[r] + 1 ELSE target[r]]
      /\ UNCHANGED <<runnerVars, gen>>

Schedule ==
  \/ \E r \in Req : SchedulePrefill(r)
  \/ \E P \in SUBSET Req : ScheduleDecode(P)

-----------------------------------------------------------------------------
(* The worker. *)

Execute ==
  /\ queue # << >>
  /\ ExecuteModel(Head(queue))
  /\ queue' = Tail(queue)
  /\ UNCHANGED <<status, gen, target, finished>>

Dummy == ExecuteDummyBatch /\ UNCHANGED schedulerVars

Startup == (Warmup \/ ResetState) /\ UNCHANGED schedulerVars

ServingNext ==
  \/ \E r \in Req : Submit(r) \/ Finish(r)
  \/ Schedule
  \/ Execute
  \/ Dummy
  \/ Startup

ServingSpec == ServingInit /\ [][ServingNext]_servingVars

(* The engine core's loop steps while there is anything to schedule or to  *)
(* report, and the worker executes what it is sent.                        *)
FairServingSpec ==
  /\ ServingSpec
  /\ WF_servingVars(Schedule)
  /\ WF_servingVars(Execute)

-----------------------------------------------------------------------------
(* Properties. *)

(* The row of a request that holds a slot is the history of exactly its    *)
(* own tokens fed so far, of this incarnation and no other: not those of   *)
(* the row's previous owner, of a neighbour in the batch, or of an aborted *)
(* request with the same id (padding aside, see NoPaddingFoldedIn).        *)
RowHoldsOwnTokens ==
  \A r \in Req :
    slotByReq[r] # NoSlot =>
      LET row == rows[slotByReq[r]]
      IN  row.req = r /\ row.gen = requests[r].gen /\ row.len = requests[r].fed

(* _acquire_state_slot never raises when the buffers have a row for each   *)
(* of max_num_seqs requests ("this should be impossible"), however far the *)
(* scheduler runs ahead of the releases the worker has seen.               *)
SlotsSuffice == MaxNumSeqs <= Capacity => phase # "failed"

(* A request that has left gives its slot back, whether it finished in the *)
(* middle of other work or was the last one, unless its id comes back      *)
(* first or a step has raised, which ends the engine.                      *)
SlotsReturned ==
  \A r \in Req :
    status[r] = "idle" /\ slotByReq[r] # NoSlot
      ~> slotByReq[r] = NoSlot \/ status[r] # "idle" \/ phase = "failed"

(* The recurrent state holds a request's tokens and nothing else.          *)
NoPaddingFoldedIn ==
  \A r \in Req : slotByReq[r] # NoSlot => ~rows[slotByReq[r]].pad

(* The slot machinery implements private per-request state. *)
HistoryOf(r) ==
  IF slotByReq[r] = NoSlot THEN [gen |-> 0, len |-> 0]
  ELSE LET row == rows[slotByReq[r]]
       IN  IF row.req = r THEN [gen |-> row.gen, len |-> row.len]
           ELSE [gen |-> 0, len |-> -1]   \* another's: no abstract value

Private == INSTANCE PrivateState WITH hist <- [r \in Req |-> HistoryOf(r)]
PrivateSpec == Private!Spec
=============================================================================
