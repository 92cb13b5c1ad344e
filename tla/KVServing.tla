----------------------------- MODULE KVServing ------------------------------
(***************************************************************************)
(* KVCache under the scheduler and its block allocator, which are not in   *)
(* this repository: modelled from what the runner relies on.  A request's  *)
(* blocks cover its scheduled tokens and are its own; they are given back  *)
(* at once when it finishes or is preempted, and given to others while     *)
(* earlier steps still wait for the worker, which takes them in order.     *)
(***************************************************************************)
EXTENDS KVCache

CONSTANTS
  QueueDepth,   \* SchedulerOutputs scheduled ahead of the worker
  Buckets       \* num_batched_tokens_buckets

ASSUME KVServingAssumption ==
  /\ QueueDepth \in Nat \ {0} /\ Buckets \subseteq 2 .. MaxTokens
  /\ \E k \in Buckets : MaxModelLen <= k

VARIABLES
  status,     \* request -> "waiting", "running", "preempted" or "gone"
  done,       \* num_computed_tokens: advances when a step is scheduled
  total,      \* tokens known or under way
  alloc,      \* request -> its blocks
  finished,   \* ids to report in the next SchedulerOutput
  queue       \* SchedulerOutputs not executed yet

schedulerVars == <<status, done, total, alloc, finished, queue>>
servingVars == <<runnerVars, schedulerVars>>

ServingTypeOK ==
  /\ KVTypeOK
  /\ status \in [Req -> {"waiting", "running", "preempted", "gone"}]
  /\ done \in [Req -> 0 .. MaxModelLen] /\ total \in [Req -> 0 .. MaxModelLen + 1]
  /\ alloc \in [Req -> Seq(Blocks)]
  /\ finished \in SUBSET Req
  /\ Len(queue) <= QueueDepth

ServingInit ==
  /\ Init
  /\ status = [r \in Req |-> "waiting"]
  /\ done = [r \in Req |-> 0] /\ total = PromptLen
  /\ alloc = [r \in Req |-> << >>]
  /\ finished = {} /\ queue = << >>

-----------------------------------------------------------------------------
(* A stop, a length limit or an abort, whatever is still queued. *)
Finish(r) ==
  /\ status[r] \in {"running", "preempted"}
  /\ status' = [status EXCEPT ![r] = "gone"]
  /\ alloc' = [alloc EXCEPT ![r] = << >>]
  /\ finished' = finished \cup {r}
  /\ UNCHANGED <<runnerVars, done, total, queue>>

Nothing == [r \in Req |-> 0]
NoBlocks == [r \in Req |-> << >>]

(* Blocks that request r lacks for n tokens, and those free to be given    *)
(* away once the requests of P have lost theirs.                           *)
Lacking(r, n) == CeilDiv(n, BlockSize) - Len(alloc[r])
Free(P) == Blocks \ UNION {ToSet(alloc[r]) : r \in Req \ P}

Enqueue(so) ==
  /\ Len(queue) < QueueDepth
  /\ queue' = Append(queue, so)
  /\ finished' = {}

(* All the tokens of a new or resumed request, alone in its step. *)
SchedulePrefill(r) ==
  /\ status[r] \in {"waiting", "preempted"}
  /\ total[r] <= MaxModelLen
  /\ \E given \in [1 .. Lacking(r, total[r]) -> Free({})] :
       /\ Cardinality(ToSet(given)) = Len(given)
       /\ Enqueue([finished |-> finished,
                   new |-> IF status[r] = "waiting" THEN {r} ELSE {},
                   resumed |-> IF status[r] = "preempted" THEN {r} ELSE {},
                   toks |-> [Nothing EXCEPT ![r] = total[r]],
                   padded |-> [Nothing EXCEPT ![r] = BucketFor(total[r], Buckets)],
                   computed |-> Nothing,
                   blocks |-> [NoBlocks EXCEPT ![r] = given]])
       /\ alloc' = [alloc EXCEPT ![r] = given]
  /\ status' = [status EXCEPT ![r] = "running"]
  /\ done' = [done EXCEPT ![r] = total[r]]
  /\ total' = [total EXCEPT ![r] = @ + 1]
  /\ UNCHANGED runnerVars

(* The running requests decode one token each; P is preempted to make room.*)
ScheduleDecode(P) ==
  LET S == {r \in Req \ P : status[r] = "running" /\ total[r] <= MaxModelLen}
      one == [r \in Req |-> IF r \in S THEN 1 ELSE 0]
      need == {r \in S : Lacking(r, total[r]) > 0}
  IN  /\ \A r \in P : status[r] = "running"
      /\ Cardinality(P) <= 1
      /\ S # {} \/ P \cup finished # {}
      /\ \E pick \in [need -> Free(P)] :
           LET given == [r \in Req |-> IF r \in need THEN << pick[r] >> ELSE << >>]
           IN  /\ \A r, q \in need : pick[r] = pick[q] => r = q
               /\ Enqueue([finished |-> finished, new |-> {}, resumed |-> {},
                           toks |-> one, padded |-> one,
                           computed |-> [r \in Req |-> IF r \in S THEN done[r] ELSE 0],
                           blocks |-> given])
               /\ alloc' = [r \in Req |-> IF r \in P THEN << >> ELSE alloc[r] \o given[r]]
      /\ status' = [r \in Req |-> IF r \in P THEN "preempted" ELSE status[r]]
      /\ done' = [r \in Req |-> IF r \in P THEN 0 ELSE done[r] + one[r]]
      /\ total' = [r \in Req |-> total[r] + one[r]]
      /\ UNCHANGED runnerVars

Execute ==
  /\ queue # << >>
  /\ ExecuteModel(Head(queue))
  /\ queue' = Tail(queue)
  /\ UNCHANGED <<status, done, total, alloc, finished>>

ServingNext ==
  \/ \E r \in Req : Finish(r)
  \/ \E r \in Req : SchedulePrefill(r)
  \/ \E P \in SUBSET Req : ScheduleDecode(P)
  \/ Execute

ServingSpec == ServingInit /\ [][ServingNext]_servingVars

-----------------------------------------------------------------------------
(* Properties. *)

(* A decode attends to exactly the keys and values of its own request, one *)
(* for every position up to its own, whatever the batch was padded to, the *)
(* blocks held before, and the context bucket cut off.                     *)
AttendsOwnHistory ==
  \A r \in Req : attended[r] # << >> => attended[r] = History(r, fed[r])

(* Every token fed for a running request is in the cache, at the place its *)
(* position has in the blocks the scheduler gave it, while other requests  *)
(* write, leave and take over freed blocks.                                *)
Settled(r) ==
  /\ status[r] = "running"
  /\ \A k \in DOMAIN queue : r \notin queue[k].new \cup queue[k].resumed

KVInPlace ==
  \A r \in Req : Settled(r) =>
    \A pos \in 0 .. fed[r] - 1 :
      cache[BlockAt(alloc[r], pos)][pos % BlockSize] = Entry(r, pos)

(* A row's next token is sampled from its own last token, not from padding *)
(* and not from a neighbour's.                                             *)
SampledFromLast ==
  \A r \in ToSet(batch) : sampled[r] = Entry(r, fed[r] - 1)
=============================================================================
