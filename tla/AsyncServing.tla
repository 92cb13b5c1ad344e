---------------------------- MODULE AsyncServing ----------------------------
(***************************************************************************)
(* AsyncTokens under the engine core's batch queue.                        *)
(*                                                                         *)
(* The scheduler, the batch queue and the clients are not in this          *)
(* repository; they are modelled from what the runner relies on.  At most  *)
(* QueueDepth steps are between scheduling and the receipt of their        *)
(* output.  A prefill runs alone, whole or in chunks; every other running  *)
(* request then waits.  A request is scheduled for its next token before   *)
(* the previous one has been received, until max_tokens are under way.     *)
(***************************************************************************)
EXTENDS AsyncTokens

CONSTANTS
  QueueDepth,   \* steps scheduled and not yet received
  Chunked,      \* may a prompt be prefilled in chunks?
  Preempting    \* may the KV cache run out of blocks?

ASSUME QueueAssumption ==
  QueueDepth \in Nat \ {0} /\ Chunked \in BOOLEAN /\ Preempting \in BOOLEAN

VARIABLES
  status,     \* request -> "idle", "waiting", "preempted" or "running"
  gen,        \* incarnation of the request id
  computed,   \* num_computed_tokens: advances when a step is scheduled
  outs,       \* output tokens received or under way
  known,      \* output tokens received, the client's stream
  finished,   \* ids to report in the next SchedulerOutput
  queue       \* steps the worker has not begun

schedulerVars == <<status, gen, computed, outs, known, finished, queue>>
servingVars == <<runnerVars, schedulerVars>>

Statuses == {"idle", "waiting", "preempted", "running"}

ServingTypeOK ==
  /\ AsyncTypeOK
  /\ status \in [Req -> Statuses]
  /\ gen \in [Req -> 0 .. MaxGen]
  /\ computed \in [Req -> 0 .. MaxPos]
  /\ outs \in [Req -> 0 .. MaxOut]
  /\ known \in [Req -> Seq(Token)]
  /\ finished \in SUBSET Req
  /\ queue \in Seq(Steps)

ServingInit ==
  /\ Init
  /\ status = [r \in Req |-> "idle"]
  /\ gen = [r \in Req |-> 0]
  /\ computed = [r \in Req |-> 0] /\ outs = [r \in Req |-> 0]
  /\ known = [r \in Req |-> << >>]
  /\ finished = {} /\ queue = << >>

-----------------------------------------------------------------------------
(* Clients. *)

Submit(r) ==
  /\ status[r] = "idle" /\ gen[r] < MaxGen
  /\ status' = [status EXCEPT ![r] = "waiting"]
  /\ gen' = [gen EXCEPT ![r] = @ + 1]
  /\ known' = [known EXCEPT ![r] = << >>]
  /\ UNCHANGED <<runnerVars, computed, outs, finished, queue>>

(* A stop token or an abort, whatever is still under way. *)
Finish(r) ==
  /\ status[r] # "idle"
  /\ status' = [status EXCEPT ![r] = "idle"]
  /\ computed' = [computed EXCEPT ![r] = 0]
  /\ outs' = [outs EXCEPT ![r] = 0]
  /\ known' = [known EXCEPT ![r] = << >>]
  /\ finished' = finished \cup {r}
  /\ UNCHANGED <<runnerVars, gen, queue>>

-----------------------------------------------------------------------------
(* The scheduler. *)

UnderWay == Len(queue) + (IF pc = "idle" THEN 0 ELSE 1) + Len(outputs)

Enqueue(new, prefill, toks, newOuts) ==
  /\ UnderWay < QueueDepth
  /\ queue' = Append(queue,
       [finished |-> finished, new |-> new, prefill |-> prefill, toks |-> toks,
        computed |-> computed, outs |-> outs, known |-> known, gen |-> gen])
  /\ finished' = {}
  /\ outs' = newOuts

(* A prefill of n of the remaining tokens of r, alone; it samples a token  *)
(* when it is the last.                                                    *)
SchedulePrefill(r, n) ==
  LET rest == PromptLen + Len(known[r]) - computed[r]
      samples == n = rest
  IN  /\ status[r] \in {"waiting", "preempted"} \/ computed[r] < PromptLen
      /\ status[r] # "idle"
      /\ outs[r] = Len(known[r]) /\ outs[r] < MaxOut
      /\ n \in 1 .. rest
      /\ n # rest => Chunked /\ computed[r] + n < PromptLen
      /\ Enqueue(IF status[r] = "waiting" THEN {r} ELSE {}, TRUE,
                 [q \in Req |-> IF q = r THEN n ELSE 0],
                 [outs EXCEPT ![r] = IF samples THEN @ + 1 ELSE @])
      /\ status' = [status EXCEPT ![r] = "running"]
      /\ computed' = [computed EXCEPT ![r] = @ + n]
      /\ UNCHANGED <<runnerVars, gen, known>>

(* All running requests but P decode one token; P is preempted.  A step    *)
(* without any request still reports the finished ones.                    *)
ScheduleDecode(P) ==
  LET S == {r \in Req \ P : /\ status[r] = "running" /\ computed[r] >= PromptLen
                            /\ outs[r] < MaxOut}
      one == [r \in Req |-> IF r \in S THEN 1 ELSE 0]
  IN  /\ \A r \in P : status[r] = "running" /\ computed[r] >= PromptLen
      /\ P # {} => Preempting /\ S # {} /\ Cardinality(P) = 1
      /\ S \cup finished # {}
      /\ Enqueue({}, FALSE, one, [r \in Req |-> outs[r] + one[r]])
      /\ status' = [r \in Req |-> IF r \in P THEN "preempted" ELSE status[r]]
      /\ computed' = [r \in Req |-> IF r \in P THEN 0 ELSE computed[r] + one[r]]
      /\ UNCHANGED <<runnerVars, gen, known>>

Schedule ==
  \/ \E r \in Req, n \in 1 .. MaxPos : SchedulePrefill(r, n)
  \/ \E P \in SUBSET Req : ScheduleDecode(P)

(* A token received for a request that is gone, or has come back under the *)
(* same id, is dropped; the last of max_tokens finishes the request.       *)
ReceivedFrom(o, r) ==
  LET toks == SampledOf(o, r)
  IN  IF toks # << >> /\ status[r] # "idle" /\ toks[1].gen = gen[r]
      THEN toks ELSE << >>

Receive ==
  /\ TakeOutput
  /\ LET o == Head(outputs)
         now == [r \in Req |-> known[r] \o ReceivedFrom(o, r)]
         done == {r \in Req : status[r] # "idle" /\ Len(now[r]) = MaxOut}
         Keep(f, zero) == [r \in Req |-> IF r \in done THEN zero ELSE f[r]]
     IN  /\ known' = now
         /\ status' = Keep(status, "idle")
         /\ computed' = Keep(computed, 0)
         /\ outs' = Keep(outs, 0)
         /\ finished' = finished \cup done
  /\ UNCHANGED <<gen, queue>>

-----------------------------------------------------------------------------
Execute ==
  \/ /\ queue # << >>
     /\ Begin(Head(queue))
     /\ queue' = Tail(queue)
     /\ UNCHANGED <<status, gen, computed, outs, known, finished>>
  \/ (UpdateStates \/ Prepare \/ Swap \/ SampleTokens) /\ UNCHANGED schedulerVars

ServingNext ==
  \/ \E r \in Req : Submit(r) \/ Finish(r)
  \/ Schedule
  \/ Execute
  \/ Receive

ServingSpec == ServingInit /\ [][ServingNext]_servingVars

(* The engine core schedules while it can, the worker executes, and the    *)
(* output is read.                                                         *)
FairServingSpec ==
  /\ ServingSpec
  /\ WF_servingVars(Schedule) /\ WF_servingVars(Execute) /\ WF_servingVars(Receive)

-----------------------------------------------------------------------------
(* Properties. *)

(* The stream a client receives is the continuation of its own prompt, each *)
(* token sampled once, from inputs that are exactly the request's history, *)
(* and received in order: whichever rank, whichever of the device future,  *)
(* the host row and the fixup fed the step.                                *)
StreamGenuine ==
  \A r \in Req :
    known[r] = SubSeq(History(r, gen[r], PromptLen + Len(known[r])),
                      PromptLen + 1, PromptLen + Len(known[r]))

(* On the output rank the host row of a request in the batch is at all     *)
(* times its prompt and its output tokens, a prefix of its own history:    *)
(* none missing, doubled, or of another request or incarnation.            *)
HostRowsGenuine ==
  outputRank /\ pc # "update" =>
    \A r \in InBatch(batch) :
      host[r] = History(r, step.gen[r], Len(host[r]))

(* On the output rank no sampled token is lost to the host rows: once the  *)
(* last output is a list, the rows of its requests end with it.            *)
TokensNotDropped ==
  outputRank /\ pc = "idle" /\ last.list =>
    \A r \in InBatch(batch) \ last.partial :
      Len(host[r]) = step.computed[r] + step.toks[r] + 1

(* Every request that is submitted comes to an end. *)
RequestsFinish == \A r \in Req : status[r] # "idle" ~> status[r] = "idle"
=============================================================================
