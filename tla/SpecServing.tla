---------------------------- MODULE SpecServing -----------------------------
(***************************************************************************)
(* SpecTokens under the engine core's batch queue of two.                  *)
(*                                                                         *)
(* The scheduler, the queue and the clients are not in this repository;    *)
(* they are modelled from what the runner relies on.  While anything can   *)
(* be scheduled, a step is scheduled before the previous one's output is   *)
(* received.  Whatever it schedules, the scheduler assumes drafts for the  *)
(* next step, until the runner's answer to take_draft_token_ids arrives:   *)
(* before the next step is scheduled or, as the runner warns, only after.  *)
(* A prefill runs alone, whole; a decode step takes every running request  *)
(* that may not have reached max_tokens yet, with drafts for all of them   *)
(* or for none.                                                            *)
(***************************************************************************)
EXTENDS SpecTokens

VARIABLES
  status,     \* request -> "new", "waiting", "running" or "gone"
  computed,   \* num_computed_tokens, as if every draft were accepted
  known,      \* output tokens received
  placed,     \* requests the scheduler has spec_token_ids for
  answers,    \* the runner's answers under way: for whom, and yes or no
  promised,   \* requests whose last answer, arrived or not, is yes
  finished,   \* ids to report in the next SchedulerOutput
  pending     \* steps whose output has not been received

schedulerVars ==
  <<status, computed, known, placed, answers, promised, finished, pending>>
servingVars == <<runnerVars, schedulerVars>>

ServingInit ==
  /\ Init
  /\ status = [r \in Req |-> "new"]
  /\ computed = [r \in Req |-> 0] /\ known = [r \in Req |-> 0]
  /\ placed = {} /\ answers = << >> /\ promised = {}
  /\ finished = {} /\ pending = << >>

-----------------------------------------------------------------------------
(* Clients. *)

Submit(r) ==
  /\ status[r] = "new"
  /\ status' = [status EXCEPT ![r] = "waiting"]
  /\ UNCHANGED <<runnerVars, computed, known, placed, answers, promised, finished, pending>>

(* A stop token or an abort. *)
Finish(r) ==
  /\ status[r] = "running"
  /\ status' = [status EXCEPT ![r] = "gone"]
  /\ finished' = finished \cup {r}
  /\ placed' = placed \ {r} /\ promised' = promised \ {r}
  /\ computed' = [computed EXCEPT ![r] = 0] /\ known' = [known EXCEPT ![r] = 0]
  /\ UNCHANGED <<runnerVars, answers, pending>>

-----------------------------------------------------------------------------
(* The scheduler. *)

UnderWay(r) == Cardinality({i \in DOMAIN pending : r \in InBatch(pending[i].reqs)})

(* Each step under way brings at least one token. *)
Decodable == {r \in Req : status[r] = "running" /\ known[r] + UnderWay(r) < MaxOut}
Waiting == {r \in Req : status[r] = "waiting"}

Step(reqs, prefill, spec) ==
  [reqs |-> reqs, prefill |-> prefill, spec |-> spec,
   computed |-> computed, known |-> known, finished |-> finished]

(* What is sent and run, and the runner's answer to take_draft_token_ids   *)
(* for it.                                                                 *)
Execute(so, advance) ==
  /\ Len(pending) < 2 /\ Len(answers) < 2
  /\ Run(so)
  /\ pending' = Append(pending,
       [reqs |-> last'.reqs, kept |-> last'.kept, spec |-> so.spec])
  /\ computed' = [r \in Req |-> IF r \in so.reqs THEN computed[r] + advance ELSE computed[r]]
  /\ placed' = placed \cup so.reqs
  /\ answers' = Append(answers, [reqs |-> so.reqs, yes |-> Proposes(so)])
  /\ promised' = IF Proposes(so) THEN promised \cup so.reqs ELSE promised \ so.reqs
  /\ finished' = {}
  /\ UNCHANGED known

SchedulePrefill(r) ==
  /\ r \in Waiting
  /\ Execute(Step({r}, TRUE, FALSE), PromptLen)
  /\ status' = [status EXCEPT ![r] = "running"]

(* Drafts go with a step whose requests all have some, short of the model  *)
(* length.                                                                 *)
WithDrafts == Decodable \subseteq {r \in placed : computed[r] < MaxLen - 1 - K}

ScheduleDecode ==
  /\ Decodable # {}
  /\ Execute(Step(Decodable, FALSE, WithDrafts), IF WithDrafts THEN 1 + K ELSE 1)
  /\ UNCHANGED status

(* Nothing can be scheduled, but something has finished. *)
ScheduleNothing ==
  /\ Decodable = {} /\ Waiting = {} /\ finished # {}
  /\ RunEmpty(Step({}, FALSE, FALSE))
  /\ finished' = {}
  /\ UNCHANGED <<status, computed, known, placed, answers, promised, pending>>

(* An answer arrives. *)
Answer ==
  /\ answers # << >>
  /\ answers' = Tail(answers)
  /\ LET a == Head(answers) IN
       placed' = IF a.yes THEN placed \cup {r \in a.reqs : status[r] = "running"}
                 ELSE placed \ a.reqs
  /\ UNCHANGED <<runnerVars, status, computed, known, promised, finished, pending>>

(* update_from_output *)
Receive ==
  /\ pending # << >>
  /\ Len(pending) = 2 \/ Decodable \cup Waiting = {}
  /\ pending' = Tail(pending)
  /\ LET o == Head(pending)
         Count(r) == o.kept[IndexIn(o.reqs, r)]
         of == {r \in InBatch(o.reqs) : status[r] = "running"}
         done == {r \in of : known[r] + Count(r) >= MaxOut}
     IN  /\ known' = [r \in Req |-> IF r \in done THEN 0
                                    ELSE IF r \in of THEN known[r] + Count(r) ELSE known[r]]
         /\ computed' = [r \in Req |-> IF r \in done THEN 0
                                       ELSE IF r \in of /\ o.spec
                                       THEN computed[r] - (K + 1 - Count(r))
                                       ELSE computed[r]]
         /\ placed' = placed \ done /\ promised' = promised \ done
         /\ status' = [r \in Req |-> IF r \in done THEN "gone" ELSE status[r]]
         /\ finished' = finished \cup done
  /\ UNCHANGED <<runnerVars, answers>>

ServingNext ==
  \/ \E r \in Req : Submit(r) \/ Finish(r) \/ SchedulePrefill(r)
  \/ ScheduleDecode
  \/ ScheduleNothing
  \/ Answer
  \/ Receive

ServingSpec == ServingInit /\ [][ServingNext]_servingVars

-----------------------------------------------------------------------------
(* Properties. *)

ForwardRows ==
  [req : Req, first : Token, at : Nat, fed : DraftRows, verified : DraftRows, due : Nat,
   surprised : BOOLEAN]

TypeOK ==
  /\ requests \subseteq Req /\ batch \in Seq(Req)
  /\ rows \in [Req -> Nat] /\ length \in [Req -> Nat]
  /\ last \in Outputs /\ accepted \in Seq(Token)
  /\ drafts \in Seq(DraftRows) /\ only \in Seq(DraftRows)
  /\ cache \in [Req -> DraftRows]
  /\ forward \in Seq(ForwardRows)
  /\ status \in [Req -> {"new", "waiting", "running", "gone"}]
  /\ computed \in [Req -> 0 .. MaxLen] /\ known \in [Req -> Nat]
  /\ placed \subseteq Req /\ promised \subseteq Req /\ finished \subseteq Req
  /\ answers \in Seq([reqs : SUBSET Req, yes : BOOLEAN])
  /\ pending \in Seq([reqs : Seq(Req), kept : Seq(1 .. K + 1), spec : BOOLEAN])

(* Every row of every forward is fed its request's own latest token, at    *)
(* that token's position: whether it comes from the draft future, the      *)
(* transition cache, the last accepted tokens, the sampled tokens, the     *)
(* fixup or the host row, and although the scheduler's count is ahead.     *)
(* Only the step the runner's late answer surprises is not, nor the one    *)
(* after a step that dropped its drafts; whatever came before, the next    *)
(* step is right again.                                                    *)
InputsGenuine == \A p \in DOMAIN forward : forward[p].surprised \/ Right(forward[p])

(* The drafts the sampler verifies are those that were fed, and both are   *)
(* placeholders or were proposed for the row's own request: after its      *)
(* latest token, unless a late answer surprised the step.                  *)
DraftsOwn ==
  \A p \in DOMAIN forward :
    LET row == forward[p] IN
    /\ row.verified = row.fed
    /\ \/ row.fed = Placeholder
       \/ /\ row.fed.of.req = row.req
          /\ row.surprised \/ row.fed.of = Tok(row.req, row.due)

(* What take_draft_token_ids says of the placeholders it hands out: a step *)
(* that runs with drafts has real ones, in the inputs and in the metadata  *)
(* of the sampler.  Untrue of the step a late answer surprises.            *)
PlaceholdersOverwritten ==
  last.wide => \A p \in DOMAIN forward :
                 forward[p].fed # Placeholder /\ forward[p].verified # Placeholder

(* Proposals stop in time: a step with the promised drafts, and one more   *)
(* scheduled before the runner can decline, stay below the count at which  *)
(* the scheduler trims drafts to a shape that was not compiled.            *)
DraftsFit ==
  \A r \in promised :
    status[r] = "running" => computed[r] + (1 + K) < MaxLen - 1 - K
=============================================================================
