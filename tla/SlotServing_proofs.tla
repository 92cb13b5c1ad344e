------------------------- MODULE SlotServing_proofs -------------------------
(***************************************************************************)
(* Theorems of SlotServing, for any number of requests, any capacity and   *)
(* any queue depth.                                                        *)
(*                                                                         *)
(* First its type invariant, and the slot theorems of StateSlots carried   *)
(* over to the composed system, where a step of the worker executes the    *)
(* oldest queued SchedulerOutput.  The invariant adds that a request in the*)
(* system has at least one known token, so that the computed tokens of a   *)
(* scheduled decode are a natural number.                                  *)
(*                                                                         *)
(* Then what the state rows hold: every row is its request's own history,  *)
(* slots suffice, and the whole implements PrivateState.                   *)
(*                                                                         *)
(* The worker executes what was decided up to QueueDepth outputs ago, so   *)
(* the invariant has to speak of the queue.  The queue is a plan: what the *)
(* worker holds now and the outputs it has not executed yet determine what *)
(* it will hold after each of them (a sequence of views), each output is   *)
(* right for the view it will meet, and the last view is what the          *)
(* scheduler believes when it decides the next output.  Scheduling extends *)
(* the plan at its end, executing takes the head off, and nothing else     *)
(* touches it.  The views are witnesses of an existential, not a recursive *)
(* function, so no induction over the queue is needed.                     *)
(***************************************************************************)
EXTENDS SlotServing, StateSlots_proofs, SequenceTheorems

ServingInv ==
  /\ ServingTypeOK
  /\ SlotsInv
  /\ \A r \in Req : status[r] # "idle" => target[r] >= 1

LEMMA InitServingInv == ServingInit => ServingInv
<1> SUFFICES ASSUME ServingInit PROVE ServingInv
  OBVIOUS
<1>1. SlotsInv
  BY InitSlotsInv DEF ServingInit
<1>2. ServingTypeOK
  BY <1>1, SchedulerAssumption, BoundAssumption
     DEF ServingInit, ServingTypeOK, SlotsInv
<1> QED
  BY <1>1, <1>2 DEF ServingInit, ServingInv

(* The smallest bucket that holds a prompt exists: it is a number.         *)
LEMMA BucketType ==
  ASSUME NEW n \in 1 .. MaxLen
  PROVE  Bucket(n) \in Nat
<1>1. \E b \in Buckets : n <= b /\ \A k \in Buckets : n <= k => b <= k
  BY SchedulerAssumption
<1>2. Bucket(n) \in Buckets
  BY <1>1 DEF Bucket
<1> QED
  BY <1>2, SchedulerAssumption

(* A SchedulerOutput appended to a queue that has room keeps it a queue.   *)
LEMMA EnqueueType ==
  ASSUME ServingTypeOK, NEW so \in SchedulerOutput, Enqueue(so)
  PROVE  /\ queue' \in Seq(SchedulerOutput)
         /\ Len(queue') <= QueueDepth
         /\ finished' \in SUBSET Req
<1> DEFINE SO == SchedulerOutput
<1>1. queue \in Seq(SO) /\ Len(queue) < QueueDepth /\ queue' = Append(queue, so)
      /\ finished' = {}
  BY DEF Enqueue, ServingTypeOK
<1> HIDE DEF SO
<1>2. so \in SO
  BY DEF SO
<1>3. queue' \in Seq(SO) /\ Len(queue') = Len(queue) + 1 /\ Len(queue) \in Nat
  BY <1>1, <1>2
<1> QED
  BY <1>1, <1>3, SchedulerAssumption DEF SO

LEMMA SubmitStep ==
  ASSUME ServingInv, NEW r \in Req, Submit(r)
  PROVE  ServingInv'
<1>1. SlotsInv' /\ TypeOK'
  BY DEF ServingInv, Submit, runnerVars, SlotsInv, TypeOK, SlotsDistinct
<1>2. PICK n \in PromptLens : target' = [target EXCEPT ![r] = n]
  BY DEF Submit
<1>3. n \in 1 .. MaxLen /\ MaxLen \in Nat /\ MaxGen \in Nat
  BY SchedulerAssumption, BoundAssumption
<1>4. gen' \in [Req -> 0 .. MaxGen]
  BY <1>3 DEF ServingInv, ServingTypeOK, Submit
<1>5. ServingTypeOK'
  BY <1>1, <1>2, <1>3, <1>4 DEF ServingInv, ServingTypeOK, Submit
<1> QED
  BY <1>1, <1>2, <1>3, <1>5 DEF ServingInv, ServingTypeOK, Submit

LEMMA FinishStep ==
  ASSUME ServingInv, NEW r \in Req, Finish(r)
  PROVE  ServingInv'
<1>1. SlotsInv' /\ TypeOK'
  BY DEF ServingInv, Finish, runnerVars, SlotsInv, TypeOK, SlotsDistinct
<1>2. ServingTypeOK'
  BY <1>1, BoundAssumption DEF ServingInv, ServingTypeOK, Finish
<1> QED
  BY <1>1, <1>2 DEF ServingInv, ServingTypeOK, Finish

LEMMA SchedulePrefillStep ==
  ASSUME ServingInv, NEW r \in Req, SchedulePrefill(r)
  PROVE  ServingInv'
<1> DEFINE so == [finished |-> finished, preempted |-> {},
                  new |-> IF status[r] = "waiting" THEN {r} ELSE {},
                  toks |-> [Nothing EXCEPT ![r] = target[r]],
                  padded |-> [Nothing EXCEPT ![r] = Bucket(target[r])],
                  computed |-> Nothing,
                  gen |-> [Nothing EXCEPT ![r] = gen[r]]]
<1>1. /\ SlotsInv' /\ TypeOK'
      /\ ServingTypeOK
  BY DEF ServingInv, SchedulePrefill, runnerVars, SlotsInv, TypeOK, SlotsDistinct
<1>2. /\ target[r] \in 1 .. MaxLen
      /\ MaxLen \in Nat /\ MaxGen \in Nat
      /\ gen[r] \in 0 .. MaxGen
      /\ finished \in SUBSET Req
  BY <1>1, BoundAssumption DEF ServingInv, ServingTypeOK, SchedulePrefill
<1>3. Bucket(target[r]) \in Nat
  BY <1>2, BucketType
<1>4. so \in SchedulerOutput
  <2>1. /\ so.toks \in [Req -> 0 .. MaxLen]
        /\ so.padded \in [Req -> Nat]
        /\ so.computed \in [Req -> 0 .. MaxLen]
        /\ so.gen \in [Req -> 0 .. MaxGen]
    BY <1>2, <1>3 DEF Nothing
  <2>2. \A q \in Req : so.computed[q] + so.toks[q] <= MaxLen
    BY <1>2 DEF Nothing
  <2> QED
    BY <1>2, <2>1, <2>2 DEF SchedulerOutput
<1>5. Enqueue(so)
  BY DEF SchedulePrefill
<1> HIDE DEF so
<1>6. /\ queue' \in Seq(SchedulerOutput)
      /\ Len(queue') <= QueueDepth
      /\ finished' \in SUBSET Req
  BY <1>1, <1>4, <1>5, EnqueueType
<1>7. target' \in [Req -> 0 .. MaxLen + 1]
  BY <1>1, <1>2 DEF ServingTypeOK, SchedulePrefill
<1>8. ServingTypeOK'
  BY <1>1, <1>6, <1>7 DEF ServingTypeOK, SchedulePrefill
<1> QED
  BY <1>1, <1>2, <1>8 DEF ServingInv, ServingTypeOK, SchedulePrefill

LEMMA ScheduleDecodeStep ==
  ASSUME ServingInv, NEW P \in SUBSET Req, ScheduleDecode(P)
  PROVE  ServingInv'
<1> DEFINE S == {r \in Running \ P : target[r] <= MaxLen}
           one == [r \in Req |-> IF r \in S THEN 1 ELSE 0]
           before == [r \in Req |-> IF r \in S THEN target[r] - 1 ELSE 0]
           so == [finished |-> finished, preempted |-> P, new |-> {},
                  toks |-> one, padded |-> one, computed |-> before,
                  gen |-> Nothing]
<1>1. /\ SlotsInv' /\ TypeOK'
      /\ ServingTypeOK
  BY DEF ServingInv, ScheduleDecode, runnerVars, SlotsInv, TypeOK, SlotsDistinct
<1>2. /\ MaxLen \in Nat \ {0} /\ MaxGen \in Nat
      /\ \A r \in S : r \in Req /\ target[r] \in 1 .. MaxLen
  BY <1>1, BoundAssumption DEF ServingInv, ServingTypeOK, Running
<1>3. so \in SchedulerOutput
  <2> HIDE DEF S
  <2>1. /\ one \in [Req -> 0 .. MaxLen]
        /\ one \in [Req -> Nat]
        /\ before \in [Req -> 0 .. MaxLen]
        /\ Nothing \in [Req -> 0 .. MaxGen]
    BY <1>2 DEF Nothing
  <2>2. \A q \in Req : before[q] + one[q] <= MaxLen
    BY <1>2
  <2>3. finished \in SUBSET Req
    BY <1>1 DEF ServingTypeOK
  <2> HIDE DEF one, before
  <2> QED
    BY <2>1, <2>2, <2>3 DEF SchedulerOutput
<1>4. Enqueue(so)
  BY DEF ScheduleDecode
<1> HIDE DEF so
<1>5. /\ queue' \in Seq(SchedulerOutput)
      /\ Len(queue') <= QueueDepth
      /\ finished' \in SUBSET Req
  BY <1>1, <1>3, <1>4, EnqueueType
<1>6. target' = [r \in Req |-> IF r \in S THEN target[r] + 1 ELSE target[r]]
  BY DEF ScheduleDecode
<1> HIDE DEF S
<1>7. target' \in [Req -> 0 .. MaxLen + 1]
  BY <1>1, <1>2, <1>6 DEF ServingTypeOK
<1>8. status' = [r \in Req |-> IF r \in P THEN "preempted" ELSE status[r]]
      /\ P \subseteq Running /\ gen' = gen
  BY DEF ScheduleDecode
<1>9. ServingTypeOK'
  BY <1>1, <1>5, <1>7, <1>8 DEF ServingTypeOK
<1>10. \A r \in Req : status'[r] # "idle" => target'[r] >= 1
  BY <1>1, <1>2, <1>6, <1>8 DEF ServingInv, ServingTypeOK, Running
<1> QED
  BY <1>1, <1>9, <1>10 DEF ServingInv

LEMMA ExecuteStep ==
  ASSUME ServingInv, Execute
  PROVE  ServingInv' /\ KeepsParkedRows
<1> DEFINE SO == SchedulerOutput
<1>1. queue \in Seq(SO) /\ queue # << >> /\ Len(queue) <= QueueDepth
  BY DEF ServingInv, ServingTypeOK, Execute
<1> HIDE DEF SO
<1>2. /\ Head(queue) \in SO
      /\ Tail(queue) \in Seq(SO)
      /\ Len(Tail(queue)) <= QueueDepth
  BY <1>1, SchedulerAssumption, HeadTailProperties
<1>3. SlotsInv' /\ KeepsParkedRows
  BY <1>2, ExecuteModelStep DEF ServingInv, Execute, SO
<1>4. ServingTypeOK'
  BY <1>2, <1>3 DEF ServingInv, ServingTypeOK, Execute, SO, SlotsInv
<1> QED
  BY <1>3, <1>4 DEF ServingInv, Execute

LEMMA DummyStep ==
  ASSUME ServingInv, Dummy
  PROVE  ServingInv' /\ KeepsParkedRows
<1>1. SlotsInv' /\ KeepsParkedRows
  BY ExecuteDummyBatchStep DEF ServingInv, Dummy
<1> QED
  BY <1>1 DEF ServingInv, ServingTypeOK, Dummy, schedulerVars, SlotsInv

LEMMA StartupServingStep ==
  ASSUME ServingInv, Startup
  PROVE  ServingInv' /\ KeepsParkedRows
<1>1. SlotsInv' /\ KeepsParkedRows
  BY StartupStep DEF ServingInv, Startup
<1> QED
  BY <1>1 DEF ServingInv, ServingTypeOK, Startup, schedulerVars, SlotsInv

LEMMA ServingNextStep ==
  ASSUME ServingInv, [ServingNext]_servingVars
  PROVE  ServingInv' /\ [KeepsParkedRows]_runnerVars
<1>1. CASE UNCHANGED servingVars
  BY <1>1 DEF servingVars, schedulerVars, runnerVars, ServingInv, ServingTypeOK,
              SlotsInv, TypeOK, SlotsDistinct
<1>2. CASE \E r \in Req : Submit(r) \/ Finish(r)
  <2>1. UNCHANGED runnerVars
    BY <1>2 DEF Submit, Finish
  <2> QED
    BY <1>2, <2>1, SubmitStep, FinishStep
<1>3. CASE Schedule
  <2>1. UNCHANGED runnerVars
    BY <1>3 DEF Schedule, SchedulePrefill, ScheduleDecode
  <2> QED
    BY <1>3, <2>1, SchedulePrefillStep, ScheduleDecodeStep DEF Schedule
<1>4. CASE Execute \/ Dummy \/ Startup
  BY <1>4, ExecuteStep, DummyStep, StartupServingStep
<1> QED
  BY <1>1, <1>2, <1>3, <1>4 DEF ServingNext

LEMMA ServingInvariant == ServingSpec => []ServingInv
BY InitServingInv, ServingNextStep, PTL DEF ServingSpec

(* Every variable of the runner, the buffers, the scheduler and the queue  *)
(* keeps its type; in particular no request is ever given the scratch row  *)
(* and the queue never exceeds its depth.                                  *)
THEOREM ServingTypeCorrect == ServingSpec => []ServingTypeOK
<1>1. ServingInv => ServingTypeOK
  BY DEF ServingInv
<1> QED
  BY <1>1, ServingInvariant, PTL

(* No two live requests share a state row.                                 *)
THEOREM ServingSlotsDistinct == ServingSpec => []SlotsDistinct
<1>1. ServingInv => SlotsDistinct
  BY DEF ServingInv, SlotsInv
<1> QED
  BY <1>1, ServingInvariant, PTL

(* No step touches the state row of a request it does not run.             *)
THEOREM ServingParkedRowsKept == ServingSpec => ParkedRowsKept
BY ServingInvariant, ServingNextStep, PTL DEF ServingSpec, ParkedRowsKept

-----------------------------------------------------------------------------
(* The plan. *)

(* What the worker holds: the requests with a slot and the request cache.  *)
Views == [held : SUBSET Req,
          cache : [Req -> [gen : 0 .. MaxGen, fed : 0 .. MaxLen]]]

Now == [held |-> {r \in Req : slotByReq[r] # NoSlot}, cache |-> requests]

Leaving(so) == so.finished \cup so.preempted

CacheAfter(cache, so) ==
  [r \in Req |->
     IF so.toks[r] > 0
     THEN [gen |-> IF r \in so.new THEN so.gen[r] ELSE cache[r].gen,
           fed |-> so.computed[r] + so.toks[r]]
     ELSE IF r \in so.finished THEN Absent ELSE cache[r]]

After(v, so) == [held |-> (v.held \ Leaving(so)) \cup Scheduled(so),
                 cache |-> CacheAfter(v.cache, so)]

(* One request prefills alone, from nothing, into a slot that is left. *)
PrefillOf(v, so, r) ==
  /\ Scheduled(so) = {r}
  /\ so.padded[r] > DecodeTokenThreshold
  /\ so.computed[r] = 0
  /\ CacheAfter(v.cache, so)[r].gen >= 1
  /\ r \notin v.held \ Leaving(so)
  /\ Cardinality(v.held \ Leaving(so)) < MaxNumSeqs

(* Requests that keep their slots decode the token after those fed. *)
DecodeOf(v, so) ==
  /\ so.new = {}
  /\ \A r \in Scheduled(so) :
       /\ so.toks[r] = 1 /\ so.padded[r] = 1
       /\ r \in v.held \ Leaving(so)
       /\ so.computed[r] = v.cache[r].fed

Fits(v, so) == DecodeOf(v, so) \/ \E r \in Req : PrefillOf(v, so, r)

Plan(views) ==
  /\ views \in [1 .. Len(queue) + 1 -> Views]
  /\ views[1] = Now
  /\ \A k \in 1 .. Len(queue) :
       /\ Fits(views[k], queue[k])
       /\ views[k + 1] = After(views[k], queue[k])

(* What the scheduler counts on once the queue has been executed. *)
Believed(v) ==
  /\ v.held \subseteq Running \cup finished
  /\ \A r \in Running : /\ r \in v.held \ finished
                        /\ v.cache[r].fed = target[r] - 1
  /\ \A r \in Req : status[r] \in {"running", "preempted"} =>
                      r \notin finished /\ v.cache[r].gen >= 1

(* RowHoldsOwnTokens with at least one token in every held row.            *)
RowsOwned ==
  /\ RowHoldsOwnTokens
  /\ \A r \in Req : slotByReq[r] # NoSlot => requests[r].fed >= 1

(* What the scheduler's own state says of it. *)
Bookkeeping ==
  /\ \A r \in Req : status[r] = "waiting" => gen[r] >= 1
  /\ Cardinality(Running) <= MaxNumSeqs
  /\ phase = "warmup" => queue = << >> /\ \A r \in Req : status[r] = "idle"

(* Until a step raises, the queue is a plan that ends where the scheduler  *)
(* believes the worker to be.                                              *)
Planned ==
  phase # "failed" =>
    \E views : Plan(views) /\ Believed(views[Len(queue) + 1])

HistoryInv ==
  /\ ServingInv
  /\ RowsOwned
  /\ SlotsSuffice
  /\ Bookkeeping
  /\ Planned

-----------------------------------------------------------------------------
(* What one executed SchedulerOutput does to the rows. *)

(* A prefill leaves its own contents in the first request's row.           *)
LEMMA PrefillWritesItsRow ==
  ASSUME TypeOK, NEW so \in SchedulerOutput, Scheduled(so) # {},
         NEW b \in [1 .. Cardinality(Scheduled(so)) -> Scheduled(so)],
         InBatch(b) = Scheduled(so),
         NEW s2 \in [Req -> Slots \cup {NoSlot}],
         ~Exhausted(b, s2),
         NEW width \in Len(b) .. Capacity,
         IsPrefill(so),
         Forward(so, b, StateSlotsTensor(b, s2, width))
  PROVE  \E r \in Scheduled(so) :
           /\ rows'[s2[r]] = AfterPrefill(so, r)
           /\ \A s \in Slots : s # s2[r] => rows'[s] = rows[s]
<1> DEFINE tensor == StateSlotsTensor(b, s2, width)
<1>1. /\ Len(b) \in Nat
      /\ DOMAIN b = 1 .. Len(b)
      /\ \A p \in 1 .. Len(b) : b[p] \in Scheduled(so)
  BY BatchIsSequence
<1>2. 1 \in 1 .. Len(b) /\ 1 \in 1 .. width /\ 1 <= Len(b)
  BY <1>1, CapacityAssumption DEF InBatch
<1>3. tensor[1] = s2[b[1]] /\ tensor[1] \in Slots
  BY <1>2, TensorType
<1>4. rows \in [Rows -> Contents] /\ Slots \subseteq Rows
  BY CapacityAssumption DEF TypeOK, Slots, Rows
<1> HIDE DEF tensor
<1>5. rows' = [rows EXCEPT ![tensor[1]] = AfterPrefill(so, b[1])]
  BY DEF Forward, PrefillRows, tensor
<1>6. b[1] \in Scheduled(so)
  BY <1>1, <1>2
<1> QED
  BY <1>3, <1>4, <1>5, <1>6

(* A decode extends the row of each request of the batch by its own token. *)
LEMMA DecodeWritesEachRow ==
  ASSUME TypeOK, NEW so \in SchedulerOutput, Scheduled(so) # {},
         NEW b \in [1 .. Cardinality(Scheduled(so)) -> Scheduled(so)],
         InBatch(b) = Scheduled(so),
         NEW s2 \in [Req -> Slots \cup {NoSlot}],
         \A r1, r2 \in Req : s2[r1] = s2[r2] /\ s2[r1] # NoSlot => r1 = r2,
         ~Exhausted(b, s2),
         NEW width \in Len(b) .. Capacity,
         ~IsPrefill(so),
         Forward(so, b, StateSlotsTensor(b, s2, width)),
         NEW r \in Scheduled(so)
  PROVE  rows'[s2[r]] = AfterDecode(rows[s2[r]], so, r)
<1> DEFINE tensor == StateSlotsTensor(b, s2, width)
<1>1. /\ Len(b) \in Nat
      /\ DOMAIN b = 1 .. Len(b)
      /\ \A p \in 1 .. Len(b) : b[p] \in Scheduled(so) /\ b[p] \in Req
  BY BatchIsSequence
<1>2. width \in Nat /\ Len(b) <= width
  BY <1>1, CapacityAssumption
<1>3. /\ DOMAIN tensor = 1 .. width
      /\ \A p \in 1 .. width :
           /\ p <= Len(b) => tensor[p] = s2[b[p]] /\ tensor[p] \in Slots
           /\ p > Len(b) => tensor[p] = Scratch
  <2>1. DOMAIN tensor = 1 .. width
    BY DEF StateSlotsTensor
  <2>2. ASSUME NEW p \in 1 .. width
        PROVE  /\ p <= Len(b) => tensor[p] = s2[b[p]] /\ tensor[p] \in Slots
               /\ p > Len(b) => tensor[p] = Scratch
    BY TensorType, ZenonT(60)
  <2> QED
    BY <2>1, <2>2
<1>4. Scratch \notin Slots /\ Slots \subseteq Rows /\ NoSlot \notin Slots
  BY CapacityAssumption DEF Slots, Rows, Scratch, NoSlot
<1> HIDE DEF tensor
<1>5. PICK writer \in Writers(tensor) : rows' = DecodeRows(so, b, tensor, writer)
  BY DEF Forward, tensor
<1>6. /\ DOMAIN writer = {tensor[p] : p \in 1 .. width}
      /\ \A s \in DOMAIN writer : writer[s] \in 1 .. width /\ tensor[writer[s]] = s
  BY <1>3, <1>5 DEF Writers
<1>7. PICK p \in 1 .. Len(b) : b[p] = r
  BY <1>1 DEF InBatch
<1>8. p \in 1 .. width /\ p <= Len(b) /\ tensor[p] = s2[r] /\ s2[r] \in Slots
  BY <1>1, <1>2, <1>3, <1>7
<1>9. s2[r] \in DOMAIN writer /\ s2[r] \in Rows
  BY <1>4, <1>6, <1>8
<1>10. writer[s2[r]] \in 1 .. width /\ tensor[writer[s2[r]]] = s2[r]
  BY <1>6, <1>9
<1>11. writer[s2[r]] \in 1 .. Len(b)
  BY <1>1, <1>2, <1>3, <1>4, <1>8, <1>10
<1>12. s2[b[writer[s2[r]]]] = s2[r]
  BY <1>3, <1>10, <1>11
<1>13. b[writer[s2[r]]] = r
  BY <1>1, <1>4, <1>7, <1>8, <1>11, <1>12
<1>14. rows'[s2[r]] = IF s2[r] \notin DOMAIN writer THEN rows[s2[r]]
                      ELSE IF writer[s2[r]] <= Len(b)
                           THEN AfterDecode(rows[s2[r]], so, b[writer[s2[r]]])
                           ELSE Junk
  BY <1>5, <1>9 DEF DecodeRows
<1> QED
  BY <1>1, <1>9, <1>11, <1>13, <1>14

(* A step in three cases: nothing scheduled, no slot left, or a forward.   *)
LEMMA StepOutcome ==
  ASSUME SlotsInv, NEW so \in SchedulerOutput, ExecuteModel(so)
  PROVE  /\ requests' = RequestsAfter(so)
         /\ \A r \in Req : Released(slotByReq, so)[r] # NoSlot \/ r \notin Scheduled(so)
                             => slotByReq'[r] = Released(slotByReq, so)[r]
         /\ \/ /\ Scheduled(so) = {}
               /\ UNCHANGED <<phase, rows>>
            \/ /\ phase' = "failed"
               /\ UNCHANGED rows
               /\ \E r \in Scheduled(so) : slotByReq'[r] = NoSlot
               /\ \A r \in Req : Scheduled(so) = {r}
                                   => Slots \subseteq InUse(Released(slotByReq, so))
            \/ /\ UNCHANGED phase
               /\ IsPrefill(so)
               /\ \A r \in Scheduled(so) : slotByReq'[r] # NoSlot
               /\ \E r \in Scheduled(so) :
                    /\ rows'[slotByReq'[r]] = AfterPrefill(so, r)
                    /\ \A s \in Slots : s # slotByReq'[r] => rows'[s] = rows[s]
            \/ /\ UNCHANGED phase
               /\ ~IsPrefill(so)
               /\ \A r \in Scheduled(so) :
                    /\ slotByReq'[r] # NoSlot
                    /\ rows'[slotByReq'[r]] = AfterDecode(rows[slotByReq'[r]], so, r)
               /\ \A s \in Slots : (\A r \in Scheduled(so) : slotByReq'[r] # s)
                                     => rows'[s] = rows[s]
<1>1. TypeOK /\ SlotsDistinct
  BY DEF SlotsInv
<1>2. PICK b \in [1 .. Cardinality(Scheduled(so)) -> Scheduled(so)],
           s2 \in [Req -> Slots \cup {NoSlot}] :
        /\ requests' = RequestsAfter(so)
        /\ Arrangement(b, Scheduled(so))
        /\ Acquired(Released(slotByReq, so), b, s2)
        /\ slotByReq' = s2
        /\ \/ /\ Scheduled(so) = {}
              /\ UNCHANGED <<phase, rows>>
           \/ /\ Scheduled(so) # {}
              /\ Exhausted(b, s2)
              /\ phase' = "failed"
              /\ UNCHANGED rows
           \/ /\ Scheduled(so) # {}
              /\ ~Exhausted(b, s2)
              /\ UNCHANGED phase
              /\ \E width \in Len(b) .. Capacity :
                   Forward(so, b, StateSlotsTensor(b, s2, width))
  BY DEF ExecuteModel
<1> DEFINE slots == Released(slotByReq, so)
<1>3. /\ slots \in [Req -> Slots \cup {NoSlot}]
      /\ \A r1, r2 \in Req : slots[r1] = slots[r2] /\ slots[r1] # NoSlot => r1 = r2
  BY <1>1, ReleaseKeepsSlotsDistinct
<1> HIDE DEF slots
<1>4. /\ \A r1, r2 \in Req : s2[r1] = s2[r2] /\ s2[r1] # NoSlot => r1 = r2
      /\ \A r \in Req : slots[r] # NoSlot => s2[r] = slots[r]
      /\ \A r \in Req \ InBatch(b) : s2[r] = slots[r]
  BY <1>2, <1>3, AcquireKeepsSlotsDistinct DEF slots
<1>5. InBatch(b) = Scheduled(so)
  BY <1>2 DEF Arrangement
<1>6. \A r \in Req : slots[r] # NoSlot \/ r \notin Scheduled(so) => slotByReq'[r] = slots[r]
  BY <1>2, <1>4, <1>5
<1>7. CASE Scheduled(so) = {} /\ UNCHANGED <<phase, rows>>
  BY <1>2, <1>6, <1>7 DEF slots
<1>8. CASE /\ Exhausted(b, s2)
           /\ phase' = "failed"
           /\ UNCHANGED rows
  <2>1. PICK r \in Scheduled(so) : s2[r] = NoSlot
    BY <1>5, <1>8 DEF Exhausted
  <2>2. ASSUME NEW q \in Req, Scheduled(so) = {q}
        PROVE  Slots \subseteq InUse(slots)
    <3>1. /\ Len(b) \in Nat
          /\ DOMAIN b = 1 .. Len(b)
          /\ \A p \in 1 .. Len(b) : b[p] \in Scheduled(so)
      BY BatchIsSequence
    <3>2. 1 \in DOMAIN b /\ b[1] = q /\ q = r
      <4>1. \E p \in 1 .. Len(b) : b[p] = r
        BY <1>5, <3>1 DEF InBatch
      <4>2. 1 \in 1 .. Len(b)
        BY <3>1, <4>1
      <4> QED
        BY <2>2, <3>1, <4>2
    <3>3. slots[q] = NoSlot
      BY <1>4, <2>1, <3>2
    <3>4. NoSlot \notin Slots
      BY CapacityAssumption DEF Slots, NoSlot
    <3>5. Available(slots, b, s2, 1) = {}
      BY <1>2, <2>1, <3>2, <3>3, <3>4 DEF Acquired, Available, slots
    <3>6. {s2[b[p]] : p \in 1 .. 1 - 1} = {}
      OBVIOUS
    <3> QED
      BY <3>5, <3>6 DEF Available
  <2> QED
    BY <1>2, <1>6, <1>8, <2>1, <2>2 DEF slots
<1>9. CASE /\ Scheduled(so) # {}
           /\ ~Exhausted(b, s2)
           /\ UNCHANGED phase
           /\ \E width \in Len(b) .. Capacity :
                Forward(so, b, StateSlotsTensor(b, s2, width))
  <2>1. PICK width \in Len(b) .. Capacity :
               Forward(so, b, StateSlotsTensor(b, s2, width))
    BY <1>9
  <2>2. \A r \in Scheduled(so) : s2[r] # NoSlot
    BY <1>5, <1>9 DEF Exhausted
  <2>3. CASE IsPrefill(so)
    <3>1. \E r \in Scheduled(so) :
            /\ rows'[s2[r]] = AfterPrefill(so, r)
            /\ \A s \in Slots : s # s2[r] => rows'[s] = rows[s]
      BY <1>1, <1>5, <1>9, <2>1, <2>3, PrefillWritesItsRow
    <3> QED
      BY <1>2, <1>6, <1>9, <2>2, <2>3, <3>1 DEF slots
  <2>4. CASE ~IsPrefill(so)
    <3>1. \A r \in Scheduled(so) : rows'[s2[r]] = AfterDecode(rows[s2[r]], so, r)
      BY <1>1, <1>4, <1>5, <1>9, <2>1, <2>4, DecodeWritesEachRow
    <3>2. \A s \in Slots : (\A r \in Scheduled(so) : s2[r] # s) => rows'[s] = rows[s]
      BY <1>1, <1>5, <1>9, <2>1, ForwardWritesOwnRows
    <3> QED
      BY <1>2, <1>6, <1>9, <2>2, <2>4, <3>1, <3>2 DEF slots
  <2> QED
    BY <2>3, <2>4
<1> QED
  BY <1>2, <1>7, <1>8, <1>9

-----------------------------------------------------------------------------
(* One executed SchedulerOutput that fits what the worker holds. *)

LEMMA ReleasedHolders ==
  ASSUME TypeOK, NEW so \in SchedulerOutput, NEW r \in Req
  PROVE  /\ r \in Now.held \ Leaving(so) <=> Released(slotByReq, so)[r] # NoSlot
         /\ r \in Now.held \ Leaving(so) => Released(slotByReq, so)[r] = slotByReq[r]
BY DEF Now, Leaving, Released

LEMMA ScheduledFields ==
  ASSUME NEW so \in SchedulerOutput, NEW r \in Req
  PROVE  /\ so.toks[r] \in 0 .. MaxLen /\ so.computed[r] \in 0 .. MaxLen
         /\ so.gen[r] \in 0 .. MaxGen /\ so.padded[r] \in Nat
         /\ so.computed[r] + so.toks[r] \in 0 .. MaxLen
         /\ r \in Scheduled(so) <=> so.toks[r] > 0
         /\ MaxLen \in Nat /\ MaxGen \in Nat
BY BoundAssumption DEF SchedulerOutput, Scheduled

(* When every row is in use there are as many holders as rows.             *)
LEMMA HoldersFillRows ==
  ASSUME TypeOK, NEW so \in SchedulerOutput,
         Slots \subseteq InUse(Released(slotByReq, so))
  PROVE  Capacity <= Cardinality(Now.held \ Leaving(so))
<1> DEFINE held == Now.held \ Leaving(so)
           slots == Released(slotByReq, so)
           slotOf == [r \in held |-> slots[r]]
<1>1. held \subseteq Req /\ \A r \in Req : r \in held <=> slots[r] # NoSlot
  BY ReleasedHolders DEF Now
<1>2. IsFiniteSet(held)
  BY <1>1, ReqAssumption, FS_Subset
<1>3. slotOf \in Surjection(held, InUse(slots))
  BY <1>1 DEF Surjection, InUse
<1>4. IsFiniteSet(InUse(slots)) /\ Cardinality(InUse(slots)) <= Cardinality(held)
  BY <1>2, <1>3, FS_Surjection
<1>5. Cardinality(Slots) <= Cardinality(InUse(slots))
  BY <1>4, FS_Subset
<1>6. Cardinality(Slots) = Capacity /\ IsFiniteSet(Slots)
  BY CapacityAssumption, FS_Interval DEF Slots
<1>7. Cardinality(held) \in Nat /\ Cardinality(InUse(slots)) \in Nat
  BY <1>2, <1>4, FS_CardinalityType
<1> QED
  BY <1>4, <1>5, <1>6, <1>7, CapacityAssumption

(* A prefill that fits starts the row of its request and no other changes; *)
(* it finds a slot when there is a row for each of max_num_seqs requests.  *)
LEMMA PrefillStep ==
  ASSUME SlotsInv, RowsOwned, NEW so \in SchedulerOutput, ExecuteModel(so),
         NEW p \in Req, PrefillOf(Now, so, p)
  PROVE  /\ RowsOwned'
         /\ requests' = CacheAfter(requests, so)
         /\ phase' # "failed" => /\ phase' = phase
                                 /\ Now'.held = After(Now, so).held
         /\ phase' = "failed" => Now'.held = Now.held \ Leaving(so)
         /\ MaxNumSeqs <= Capacity => phase' # "failed"
<1> DEFINE slots == Released(slotByReq, so)
<1>1. /\ TypeOK /\ TypeOK' /\ SlotsDistinct' /\ phase = "serving"
      /\ Scheduled(so) = {p} /\ IsPrefill(so)
  BY ExecuteModelStep DEF SlotsInv, PrefillOf, IsPrefill, ExecuteModel
<1>2. \A r \in Req : /\ r \in Now.held \ Leaving(so) <=> slots[r] # NoSlot
                     /\ slots[r] # NoSlot => slots[r] = slotByReq[r]
  BY <1>1, ReleasedHolders
<1>3. \A r \in Req : slots[r] # NoSlot \/ r # p => slotByReq'[r] = slots[r]
  BY <1>1, StepOutcome
<1>4. requests' = RequestsAfter(so) /\ requests' = CacheAfter(requests, so)
  BY StepOutcome DEF RequestsAfter, CacheAfter
<1>5. \A r \in Req : r # p /\ slotByReq'[r] # NoSlot =>
        /\ slotByReq'[r] = slotByReq[r] /\ slotByReq[r] # NoSlot
        /\ requests'[r] = requests[r]
  <2> SUFFICES ASSUME NEW r \in Req, r # p, slotByReq'[r] # NoSlot
               PROVE  /\ slotByReq'[r] = slotByReq[r] /\ slotByReq[r] # NoSlot
                      /\ requests'[r] = requests[r]
    OBVIOUS
  <2>1. slots[r] # NoSlot /\ slotByReq'[r] = slotByReq[r]
    BY <1>2, <1>3
  <2>2. ~(so.toks[r] > 0) /\ r \notin so.finished
    BY <1>1, <1>2, <2>1 DEF Scheduled, Leaving
  <2> QED
    BY <1>4, <2>1, <2>2 DEF RequestsAfter
<1> HIDE DEF slots
<1>6. CASE phase' = "failed" /\ UNCHANGED rows /\ slotByReq'[p] = NoSlot
           /\ Slots \subseteq InUse(slots)
  <2>1. RowsOwned'
    BY <1>5, <1>6 DEF RowsOwned, RowHoldsOwnTokens
  <2>2. Now'.held = Now.held \ Leaving(so)
    BY <1>2, <1>3, <1>6 DEF Now
  <2>3. ~(MaxNumSeqs <= Capacity)
    <3>1. Capacity <= Cardinality(Now.held \ Leaving(so))
      BY <1>1, <1>6, HoldersFillRows DEF slots
    <3>2. Cardinality(Now.held \ Leaving(so)) < MaxNumSeqs
      BY DEF PrefillOf
    <3>3. Cardinality(Now.held \ Leaving(so)) \in Nat
      <4>1. Now.held \ Leaving(so) \subseteq Req
        BY DEF Now
      <4> QED
        BY <4>1, ReqAssumption, FS_Subset, FS_CardinalityType
    <3> QED
      BY <3>1, <3>2, <3>3, CapacityAssumption, SchedulerAssumption
  <2> QED
    BY <1>4, <1>6, <2>1, <2>2, <2>3
<1>7. CASE /\ UNCHANGED phase
           /\ slotByReq'[p] # NoSlot
           /\ rows'[slotByReq'[p]] = AfterPrefill(so, p)
           /\ \A s \in Slots : s # slotByReq'[p] => rows'[s] = rows[s]
  <2>1. \A r \in Req : r # p /\ slotByReq'[r] # NoSlot =>
                         rows'[slotByReq'[r]] = rows[slotByReq[r]]
    <3> SUFFICES ASSUME NEW r \in Req, r # p, slotByReq'[r] # NoSlot
                 PROVE  rows'[slotByReq'[r]] = rows[slotByReq[r]]
      OBVIOUS
    <3>1. slotByReq'[r] \in Slots /\ slotByReq'[r] # slotByReq'[p]
      BY <1>1 DEF TypeOK, SlotsDistinct
    <3> QED
      BY <1>5, <1>7, <3>1
  <2>2. /\ so.computed[p] = 0 /\ so.toks[p] \in Nat /\ so.toks[p] >= 1
    BY <1>1, ScheduledFields DEF PrefillOf
  <2>3. /\ rows'[slotByReq'[p]].req = p
        /\ rows'[slotByReq'[p]].gen = requests'[p].gen
        /\ rows'[slotByReq'[p]].len = so.toks[p]
    <3>1. /\ AfterPrefill(so, p).req = p
          /\ AfterPrefill(so, p).gen = RequestsAfter(so)[p].gen
          /\ AfterPrefill(so, p).len = so.toks[p]
      BY <2>2, Zenon DEF AfterPrefill
    <3> QED
      BY <1>4, <1>7, <3>1
  <2>4. requests'[p].fed = so.toks[p]
    BY <1>4, <2>2 DEF RequestsAfter
  <2>5. RowsOwned'
    BY <1>5, <2>1, <2>2, <2>3, <2>4 DEF RowsOwned, RowHoldsOwnTokens
  <2>6. Now'.held = After(Now, so).held
    BY <1>1, <1>2, <1>3, <1>7 DEF Now, After
  <2> QED
    BY <1>1, <1>4, <1>7, <2>5, <2>6
<1> QED
  BY <1>1, <1>6, <1>7, StepOutcome DEF slots

(* A decode that fits extends the row of each request it schedules.        *)
LEMMA DecodeStep ==
  ASSUME SlotsInv, RowsOwned, NEW so \in SchedulerOutput, ExecuteModel(so),
         DecodeOf(Now, so)
  PROVE  /\ RowsOwned'
         /\ requests' = CacheAfter(requests, so)
         /\ phase' = phase /\ phase # "failed"
         /\ Now'.held = After(Now, so).held
<1> DEFINE slots == Released(slotByReq, so)
<1>1. /\ TypeOK /\ TypeOK' /\ SlotsDistinct' /\ phase = "serving"
      /\ Scheduled(so) \subseteq Req
  BY ExecuteModelStep DEF SlotsInv, ExecuteModel, Scheduled
<1>2. ~IsPrefill(so)
  BY DEF DecodeOf, IsPrefill, DecodeTokenThreshold
<1>3. \A r \in Req : /\ r \in Now.held \ Leaving(so) <=> slots[r] # NoSlot
                     /\ slots[r] # NoSlot => slots[r] = slotByReq[r]
  BY <1>1, ReleasedHolders
<1>4. \A r \in Scheduled(so) : slots[r] # NoSlot /\ slots[r] = slotByReq[r]
  BY <1>1, <1>3 DEF DecodeOf
<1>5. \A r \in Req : slotByReq'[r] = slots[r]
  BY <1>1, <1>4, StepOutcome
<1>6. requests' = RequestsAfter(so) /\ requests' = CacheAfter(requests, so)
  BY StepOutcome DEF RequestsAfter, CacheAfter
<1>7. Now'.held = After(Now, so).held
  BY <1>1, <1>3, <1>4, <1>5 DEF Now, After
<1>8. \A r \in Req : slotByReq'[r] # NoSlot =>
        slotByReq'[r] = slotByReq[r] /\ slotByReq'[r] \in Slots
  BY <1>1, <1>3, <1>5 DEF TypeOK
<1>9. \A r \in Req \ Scheduled(so) : slotByReq'[r] # NoSlot => requests'[r] = requests[r]
  <2> SUFFICES ASSUME NEW r \in Req \ Scheduled(so), slotByReq'[r] # NoSlot
               PROVE  requests'[r] = requests[r]
    OBVIOUS
  <2>1. ~(so.toks[r] > 0) /\ r \notin so.finished
    BY <1>3, <1>5 DEF Scheduled, Leaving
  <2> QED
    BY <1>6, <2>1 DEF RequestsAfter
<1>10. \A r \in Scheduled(so) :
         /\ so.toks[r] = 1
         /\ so.computed[r] = requests[r].fed /\ requests[r].fed \in Nat
         /\ requests'[r] = [gen |-> requests[r].gen, fed |-> requests[r].fed + 1]
  <2> SUFFICES ASSUME NEW r \in Scheduled(so)
               PROVE  /\ so.toks[r] = 1
                      /\ so.computed[r] = requests[r].fed /\ requests[r].fed \in Nat
                      /\ requests'[r] = [gen |-> requests[r].gen,
                                         fed |-> requests[r].fed + 1]
    OBVIOUS
  <2>1. /\ so.toks[r] = 1 /\ so.computed[r] = requests[r].fed
        /\ r \notin so.new /\ r \in Req
    BY <1>1 DEF DecodeOf, Now
  <2>2. requests[r].fed \in Nat
    BY <1>1, <2>1, ScheduledFields
  <2> QED
    BY <1>6, <2>1, <2>2 DEF RequestsAfter
<1> HIDE DEF slots
<1>11. CASE Scheduled(so) = {} /\ UNCHANGED <<phase, rows>>
  <2>1. RowsOwned'
    BY <1>8, <1>9, <1>11 DEF RowsOwned, RowHoldsOwnTokens
  <2> QED
    BY <1>1, <1>6, <1>7, <1>11, <2>1
<1>12. CASE /\ UNCHANGED phase
            /\ \A r \in Scheduled(so) :
                 /\ slotByReq'[r] # NoSlot
                 /\ rows'[slotByReq'[r]] = AfterDecode(rows[slotByReq'[r]], so, r)
            /\ \A s \in Slots : (\A r \in Scheduled(so) : slotByReq'[r] # s)
                                  => rows'[s] = rows[s]
  <2>1. \A r \in Req \ Scheduled(so) : slotByReq'[r] # NoSlot =>
                                         rows'[slotByReq'[r]] = rows[slotByReq[r]]
    <3> SUFFICES ASSUME NEW r \in Req \ Scheduled(so), slotByReq'[r] # NoSlot
                 PROVE  rows'[slotByReq'[r]] = rows[slotByReq[r]]
      OBVIOUS
    <3>1. \A q \in Scheduled(so) : slotByReq'[q] # slotByReq'[r]
      BY <1>1 DEF SlotsDistinct
    <3> QED
      BY <1>8, <1>12, <3>1
  <2>2. \A r \in Scheduled(so) :
          /\ rows'[slotByReq'[r]].req = r
          /\ rows'[slotByReq'[r]].gen = requests'[r].gen
          /\ rows'[slotByReq'[r]].len = requests'[r].fed
    <3> SUFFICES ASSUME NEW r \in Scheduled(so)
                 PROVE  /\ rows'[slotByReq'[r]].req = r
                        /\ rows'[slotByReq'[r]].gen = requests'[r].gen
                        /\ rows'[slotByReq'[r]].len = requests'[r].fed
      OBVIOUS
    <3> DEFINE row == rows[slotByReq[r]]
    <3>1. /\ slotByReq'[r] = slotByReq[r] /\ slotByReq[r] \in Slots
          /\ slotByReq[r] # NoSlot /\ r \in Req
      BY <1>1, <1>8, <1>12
    <3>2. row.req = r /\ row.gen = requests[r].gen /\ row.len = requests[r].fed
      BY <3>1 DEF RowsOwned, RowHoldsOwnTokens
    <3>3. row \in Contents
      BY <1>1, <3>1, CapacityAssumption DEF TypeOK, Slots, Rows
    <3>4. RequestsAfter(so)[r].gen = requests[r].gen
      <4>1. requests'[r] = [gen |-> requests[r].gen, fed |-> requests[r].fed + 1]
        BY <1>10
      <4> QED
        BY <1>6, <4>1
    <3>5. AfterDecode(row, so, r) = [row EXCEPT !.len = so.computed[r] + so.toks[r]]
      BY <1>10, <3>2, <3>4 DEF AfterDecode
    <3>6. rows'[slotByReq'[r]] = [row EXCEPT !.len = so.computed[r] + so.toks[r]]
      BY <1>12, <3>1, <3>5
    <3>7. requests'[r] = [gen |-> requests[r].gen, fed |-> requests[r].fed + 1]
          /\ so.computed[r] + so.toks[r] = requests[r].fed + 1
      BY <1>10
    <3> HIDE DEF row
    <3> QED
      BY <3>2, <3>3, <3>6, <3>7 DEF Contents
  <2>3. RowsOwned'
    <3> SUFFICES ASSUME NEW r \in Req, slotByReq'[r] # NoSlot
                 PROVE  /\ rows'[slotByReq'[r]].req = r
                        /\ rows'[slotByReq'[r]].gen = requests'[r].gen
                        /\ rows'[slotByReq'[r]].len = requests'[r].fed
                        /\ requests'[r].fed >= 1
      BY DEF RowsOwned, RowHoldsOwnTokens
    <3>1. CASE r \in Scheduled(so)
      <4>1. requests'[r] = [gen |-> requests[r].gen, fed |-> requests[r].fed + 1]
            /\ requests[r].fed \in Nat
        BY <1>10, <3>1
      <4> QED
        BY <2>2, <3>1, <4>1
    <3>2. CASE r \notin Scheduled(so)
      BY <1>8, <1>9, <2>1, <3>2 DEF RowsOwned, RowHoldsOwnTokens
    <3> QED
      BY <3>1, <3>2
  <2> QED
    BY <1>1, <1>6, <1>7, <1>12, <2>3
<1> QED
  BY <1>1, <1>2, <1>4, <1>5, <1>11, <1>12, StepOutcome

-----------------------------------------------------------------------------
(* The plan under each action. *)

LEMMA NowType ==
  ASSUME TypeOK
  PROVE  Now \in Views
BY DEF TypeOK, Now, Views

LEMMA AfterType ==
  ASSUME NEW v \in Views, NEW so \in SchedulerOutput
  PROVE  /\ After(v, so) \in Views
         /\ After(v, so).held = (v.held \ Leaving(so)) \cup Scheduled(so)
         /\ \A r \in Req :
              /\ so.toks[r] > 0 =>
                   /\ After(v, so).cache[r].fed = so.computed[r] + so.toks[r]
                   /\ After(v, so).cache[r].gen = IF r \in so.new THEN so.gen[r]
                                                                 ELSE v.cache[r].gen
              /\ ~(so.toks[r] > 0) /\ r \notin so.finished
                   => After(v, so).cache[r] = v.cache[r]
<1>1. /\ v.held \subseteq Req
      /\ v.cache \in [Req -> [gen : 0 .. MaxGen, fed : 0 .. MaxLen]]
  BY DEF Views
<1>2. \A r \in Req : CacheAfter(v.cache, so)[r] \in [gen : 0 .. MaxGen, fed : 0 .. MaxLen]
  <2> SUFFICES ASSUME NEW r \in Req
               PROVE  CacheAfter(v.cache, so)[r] \in [gen : 0 .. MaxGen, fed : 0 .. MaxLen]
    OBVIOUS
  <2>1. Absent \in [gen : 0 .. MaxGen, fed : 0 .. MaxLen]
    BY BoundAssumption DEF Absent
  <2>2. v.cache[r] \in [gen : 0 .. MaxGen, fed : 0 .. MaxLen]
    BY <1>1
  <2>3. so.gen[r] \in 0 .. MaxGen /\ so.computed[r] + so.toks[r] \in 0 .. MaxLen
    BY ScheduledFields
  <2> QED
    BY <2>1, <2>2, <2>3 DEF CacheAfter
<1>3. CacheAfter(v.cache, so) \in [Req -> [gen : 0 .. MaxGen, fed : 0 .. MaxLen]]
  BY <1>2 DEF CacheAfter
<1>4. Scheduled(so) \subseteq Req
  BY DEF Scheduled
<1>5. After(v, so) \in Views
  BY <1>1, <1>3, <1>4 DEF After, Views
<1>6. After(v, so).cache = CacheAfter(v.cache, so)
  BY DEF After
<1>7. ASSUME NEW r \in Req, so.toks[r] > 0
      PROVE  /\ After(v, so).cache[r].fed = so.computed[r] + so.toks[r]
             /\ After(v, so).cache[r].gen = IF r \in so.new THEN so.gen[r]
                                                           ELSE v.cache[r].gen
  BY <1>6, <1>7 DEF CacheAfter
<1>8. ASSUME NEW r \in Req, ~(so.toks[r] > 0), r \notin so.finished
      PROVE  After(v, so).cache[r] = v.cache[r]
  BY <1>6, <1>8 DEF CacheAfter
<1> QED
  BY <1>5, <1>7, <1>8 DEF After

(* Nothing the plan rests on changes: only what is believed may.           *)
LEMMA PlanKept ==
  ASSUME NEW views, Plan(views), UNCHANGED <<runnerVars, queue>>
  PROVE  Plan(views)'
BY DEF Plan, Now, runnerVars

LEMMA PlanIntro ==
  ASSUME NEW n \in Nat, Len(queue') = n,
         NEW views \in [1 .. n + 1 -> Views],
         views[1] = Now',
         \A k \in 1 .. n : /\ Fits(views[k], queue'[k])
                           /\ views[k + 1] = After(views[k], queue'[k])
  PROVE  Plan(views)'
BY DEF Plan

(* A SchedulerOutput that fits the end of the plan extends the plan.       *)
LEMMA PlanExtended ==
  ASSUME ServingTypeOK, NEW views, Plan(views),
         NEW so \in SchedulerOutput, Enqueue(so), UNCHANGED runnerVars,
         Fits(views[Len(queue) + 1], so)
  PROVE  \E more : /\ Plan(more)'
                   /\ more[Len(queue') + 1] = After(views[Len(queue) + 1], so)
<1> DEFINE last == After(views[Len(queue) + 1], so)
           SO == SchedulerOutput
<1>1. queue \in Seq(SO) /\ queue' = Append(queue, so)
  BY DEF ServingTypeOK, Enqueue
<1> HIDE DEF SO
<1>2. so \in SO
  BY DEF SO
<1>3. PICK n \in Nat : n = Len(queue)
  BY <1>1
<1>4. /\ Len(queue') = n + 1
      /\ \A k \in 1 .. n : queue'[k] = queue[k]
      /\ queue'[n + 1] = so
  BY <1>1, <1>2, <1>3
<1>5. /\ views \in [1 .. n + 1 -> Views] /\ views[1] = Now
      /\ \A k \in 1 .. n : /\ Fits(views[k], queue[k])
                           /\ views[k + 1] = After(views[k], queue[k])
  BY <1>3 DEF Plan
<1>6. last \in Views /\ last = After(views[n + 1], so) /\ Fits(views[n + 1], so)
  BY <1>3, <1>5, AfterType
<1>7. Now' = Now
  BY DEF Now, runnerVars
<1> HIDE DEF last
<1>8. PICK more \in [1 .. (n + 1) + 1 -> Views] :
        more = [k \in 1 .. (n + 1) + 1 |-> IF k = n + 2 THEN last ELSE views[k]]
  <2>1. ASSUME NEW k \in 1 .. (n + 1) + 1
        PROVE  (IF k = n + 2 THEN last ELSE views[k]) \in Views
    <3>1. k = n + 2 \/ k \in 1 .. n + 1
      OBVIOUS
    <3> QED
      BY <1>5, <1>6, <3>1
  <2> QED
    BY <2>1
<1>9. /\ more[1] = Now
      /\ more[(n + 1) + 1] = last
      /\ \A k \in 1 .. n + 1 : more[k] = views[k]
  BY <1>5, <1>8
<1>10. ASSUME NEW k \in 1 .. n + 1
       PROVE  /\ Fits(more[k], queue'[k])
              /\ more[k + 1] = After(more[k], queue'[k])
  <2>1. CASE k = n + 1
    BY <1>4, <1>6, <1>9, <2>1
  <2>2. CASE k \in 1 .. n /\ k + 1 \in 1 .. n + 1
    BY <1>4, <1>5, <1>9, <2>2
  <2> QED
    BY <2>1, <2>2
<1>11. Plan(more)'
  BY <1>4, <1>7, <1>9, <1>10, PlanIntro, SMTT(15)
<1> QED
  BY <1>3, <1>4, <1>9, <1>11 DEF last

(* Executing the oldest output moves the worker one step along the plan.   *)
LEMMA PlanAdvanced ==
  ASSUME ServingTypeOK, NEW views, Plan(views), queue # << >>,
         queue' = Tail(queue), Now' = views[2]
  PROVE  \E rest : /\ Plan(rest)'
                   /\ rest[Len(queue') + 1] = views[Len(queue) + 1]
<1> DEFINE SO == SchedulerOutput
<1>1. queue \in Seq(SO)
  BY DEF ServingTypeOK
<1> HIDE DEF SO
<1>2. PICK n \in Nat : n = Len(queue) /\ n >= 1
  BY <1>1
<1>3. Len(queue') = n - 1 /\ \A k \in 1 .. n - 1 : queue'[k] = queue[k + 1]
  BY <1>1, <1>2
<1>4. /\ views \in [1 .. n + 1 -> Views]
      /\ \A k \in 1 .. n : /\ Fits(views[k], queue[k])
                           /\ views[k + 1] = After(views[k], queue[k])
  BY <1>2 DEF Plan
<1>5. PICK rest \in [1 .. (n - 1) + 1 -> Views] :
        rest = [k \in 1 .. (n - 1) + 1 |-> views[k + 1]]
  <2>1. ASSUME NEW k \in 1 .. (n - 1) + 1
        PROVE  views[k + 1] \in Views
    <3>1. k + 1 \in 1 .. n + 1
      BY <1>2
    <3> QED
      BY <1>4, <3>1
  <2> QED
    BY <2>1
<1>6. /\ rest[1] = views[2]
      /\ rest[(n - 1) + 1] = views[n + 1]
      /\ \A k \in 1 .. n : rest[k] = views[k + 1]
  BY <1>2, <1>5
<1>7. ASSUME NEW k \in 1 .. n - 1
      PROVE  /\ Fits(rest[k], queue'[k])
             /\ rest[k + 1] = After(rest[k], queue'[k])
  <2>1. k + 1 \in 1 .. n /\ k \in 1 .. n
    BY <1>2
  <2> QED
    BY <1>3, <1>4, <1>6, <2>1
<1>8. Plan(rest)'
  <2>1. n - 1 \in Nat
    BY <1>2
  <2> QED
    BY <2>1, <1>3, <1>6, <1>7, PlanIntro
<1> QED
  BY <1>2, <1>3, <1>6, <1>8

-----------------------------------------------------------------------------
(* The invariant, one action at a time. *)

(* The last view of a plan, as a view. *)
LEMMA PlanEnd ==
  ASSUME ServingTypeOK, NEW views, Plan(views)
  PROVE  views[Len(queue) + 1] \in Views
<1> DEFINE SO == SchedulerOutput
<1>1. queue \in Seq(SO)
  BY DEF ServingTypeOK
<1> HIDE DEF SO
<1>2. Len(queue) + 1 \in 1 .. Len(queue) + 1
  BY <1>1
<1> QED
  BY <1>2 DEF Plan

(* A step that leaves the worker and the queue alone.                      *)
LEMMA WorkerUntouched ==
  ASSUME HistoryInv, UNCHANGED <<runnerVars, queue>>,
         ServingInv', Bookkeeping',
         \A v \in Views : Believed(v) => Believed(v)'
  PROVE  HistoryInv'
<1>1. RowsOwned' /\ SlotsSuffice'
  BY DEF HistoryInv, RowsOwned, RowHoldsOwnTokens, SlotsSuffice, runnerVars
<1>2. Planned'
  <2>1. CASE phase = "failed"
    BY <2>1 DEF Planned, runnerVars
  <2>2. CASE phase # "failed"
    <3>1. PICK views : Plan(views) /\ Believed(views[Len(queue) + 1])
      BY <2>2 DEF HistoryInv, Planned
    <3>2. views[Len(queue) + 1] \in Views
      BY <3>1, PlanEnd DEF HistoryInv, ServingInv
    <3>3. PICK v : v = views[Len(queue) + 1]
      OBVIOUS
    <3>4. Plan(views)' /\ Believed(v)' /\ v = views[Len(queue') + 1]
      BY <3>1, <3>2, <3>3, PlanKept
    <3> QED
      BY <3>4 DEF Planned
  <2> QED
    BY <2>1, <2>2
<1> QED
  BY <1>1, <1>2 DEF HistoryInv

LEMMA SubmitHistory ==
  ASSUME HistoryInv, NEW r \in Req, Submit(r)
  PROVE  HistoryInv'
<1>1. /\ phase = "serving" /\ status[r] = "idle"
      /\ status' = [status EXCEPT ![r] = "waiting"]
      /\ gen' = [gen EXCEPT ![r] = @ + 1]
      /\ UNCHANGED <<runnerVars, finished, queue>>
      /\ ServingTypeOK /\ ServingInv'
  BY SubmitStep DEF Submit, HistoryInv, ServingInv
<1>2. \A q \in Req : q # r => target'[q] = target[q]
  BY <1>1 DEF Submit, ServingTypeOK
<1>3. Running' = Running
  BY <1>1 DEF Running, ServingTypeOK
<1>4. Bookkeeping'
  <2>1. phase' = "serving"
    BY <1>1 DEF runnerVars
  <2>2. \A q \in Req : status'[q] = "waiting" => gen'[q] >= 1
    BY <1>1, BoundAssumption DEF HistoryInv, Bookkeeping, ServingTypeOK
  <2> QED
    BY <1>3, <2>1, <2>2 DEF HistoryInv, Bookkeeping
<1>5. ASSUME NEW v \in Views, Believed(v)
      PROVE  Believed(v)'
  <2>1. \A q \in Running : q # r /\ q \in Req
    BY <1>1 DEF Running
  <2>2. \A q \in Req : status'[q] \in {"running", "preempted"} =>
                         status[q] \in {"running", "preempted"}
    BY <1>1 DEF ServingTypeOK
  <2> QED
    BY <1>1, <1>2, <1>3, <1>5, <2>1, <2>2 DEF Believed
<1> QED
  BY <1>1, <1>4, <1>5, WorkerUntouched

LEMMA RunningIsFinite ==
  /\ IsFiniteSet(Running) /\ Cardinality(Running) \in Nat
  /\ IsFiniteSet(Running') /\ Cardinality(Running') \in Nat
<1>1. Running \subseteq Req /\ Running' \subseteq Req
  BY DEF Running
<1> QED
  BY <1>1, ReqAssumption, FS_Subset, FS_CardinalityType

LEMMA FinishHistory ==
  ASSUME HistoryInv, NEW r \in Req, Finish(r)
  PROVE  HistoryInv'
<1>1. /\ status[r] # "idle"
      /\ status' = [status EXCEPT ![r] = "idle"]
      /\ finished' = finished \cup {r}
      /\ UNCHANGED <<runnerVars, gen, queue>>
      /\ ServingTypeOK /\ ServingInv'
  BY FinishStep DEF Finish, HistoryInv, ServingInv
<1>2. \A q \in Req : q # r => target'[q] = target[q]
  BY <1>1 DEF Finish, ServingTypeOK
<1>3. Running' = Running \ {r}
  BY <1>1 DEF Running, ServingTypeOK
<1>4. Bookkeeping'
  <2>1. phase # "warmup" /\ phase' = phase
    BY <1>1 DEF HistoryInv, Bookkeeping, runnerVars
  <2>2. \A q \in Req : status'[q] = "waiting" => gen'[q] >= 1
    BY <1>1 DEF HistoryInv, Bookkeeping, ServingTypeOK
  <2>3. Cardinality(Running') <= Cardinality(Running)
    BY <1>3, RunningIsFinite, FS_Subset
  <2>4. Cardinality(Running') <= MaxNumSeqs
    BY <2>3, RunningIsFinite, SchedulerAssumption DEF HistoryInv, Bookkeeping
  <2> QED
    BY <2>1, <2>2, <2>4 DEF Bookkeeping
<1>5. ASSUME NEW v \in Views, Believed(v)
      PROVE  Believed(v)'
  <2>1. \A q \in Req : status'[q] \in {"running", "preempted"} =>
                         q # r /\ status[q] \in {"running", "preempted"}
    BY <1>1 DEF ServingTypeOK
  <2>2. v.held \subseteq Running' \cup finished'
    BY <1>1, <1>3, <1>5 DEF Believed
  <2>3. \A q \in Running' : /\ q \in v.held \ finished'
                            /\ v.cache[q].fed = target'[q] - 1
    <3>1. \A q \in Running' : q \in Req /\ q \in Running /\ q # r
      BY <1>3 DEF Running
    <3> QED
      BY <1>1, <1>2, <1>5, <3>1 DEF Believed
  <2> QED
    BY <1>1, <1>5, <2>1, <2>2, <2>3 DEF Believed
<1> QED
  BY <1>1, <1>4, <1>5, WorkerUntouched

(* A scheduling step: the plan grows by one output that fits its end.      *)
LEMMA WorkerScheduled ==
  ASSUME HistoryInv, UNCHANGED runnerVars, phase = "serving",
         ServingInv', Bookkeeping',
         NEW so \in SchedulerOutput, Enqueue(so),
         \A v \in Views : Believed(v) => Fits(v, so) /\ Believed(After(v, so))'
  PROVE  HistoryInv'
<1>1. RowsOwned' /\ SlotsSuffice'
  BY DEF HistoryInv, RowsOwned, RowHoldsOwnTokens, SlotsSuffice, runnerVars
<1>2. PICK views : Plan(views) /\ Believed(views[Len(queue) + 1])
  BY DEF HistoryInv, Planned
<1>3. PICK v : v = views[Len(queue) + 1]
  OBVIOUS
<1>4. v \in Views
  BY <1>2, <1>3, PlanEnd DEF HistoryInv, ServingInv
<1>5. Fits(v, so) /\ Believed(After(v, so))'
  BY <1>2, <1>3, <1>4
<1>6. PICK more : Plan(more)' /\ more[Len(queue') + 1] = After(v, so)
  BY <1>2, <1>3, <1>5, PlanExtended DEF HistoryInv, ServingInv
<1>7. Planned'
  BY <1>5, <1>6 DEF Planned
<1> QED
  BY <1>1, <1>7 DEF HistoryInv

(* A prompt's bucket is one the code compiles: more than one token.        *)
LEMMA BucketExceedsThreshold ==
  ASSUME NEW n \in 1 .. MaxLen
  PROVE  Bucket(n) \in Nat /\ Bucket(n) > DecodeTokenThreshold
<1>1. \E b \in Buckets : n <= b /\ \A k \in Buckets : n <= k => b <= k
  BY SchedulerAssumption
<1>2. Bucket(n) \in Buckets
  BY <1>1 DEF Bucket
<1> QED
  BY <1>2, SchedulerAssumption

LEMMA SchedulePrefillHistory ==
  ASSUME HistoryInv, NEW r \in Req, SchedulePrefill(r)
  PROVE  HistoryInv'
<1>1. PICK so :
      /\ so = [finished |-> finished, preempted |-> {},
               new |-> IF status[r] = "waiting" THEN {r} ELSE {},
               toks |-> [Nothing EXCEPT ![r] = target[r]],
               padded |-> [Nothing EXCEPT ![r] = Bucket(target[r])],
               computed |-> Nothing,
               gen |-> [Nothing EXCEPT ![r] = gen[r]]]
      /\ phase = "serving"
      /\ status[r] \in {"waiting", "preempted"} /\ target[r] <= MaxLen
      /\ Cardinality(Running) < MaxNumSeqs
      /\ Enqueue(so)
      /\ status' = [status EXCEPT ![r] = "running"]
      /\ target' = [target EXCEPT ![r] = @ + 1]
      /\ UNCHANGED runnerVars /\ gen' = gen /\ finished' = {}
  BY DEF SchedulePrefill, Enqueue
<1>2. ServingTypeOK /\ ServingInv'
  BY SchedulePrefillStep DEF HistoryInv, ServingInv
<1>3. /\ target[r] \in 1 .. MaxLen /\ MaxLen \in Nat /\ MaxGen \in Nat
      /\ gen[r] \in 0 .. MaxGen /\ finished \in SUBSET Req
      /\ status[r] = "waiting" => gen[r] >= 1
  BY <1>1, <1>2, BoundAssumption
     DEF HistoryInv, ServingInv, ServingTypeOK, Bookkeeping
<1>4. Bucket(target[r]) \in Nat /\ Bucket(target[r]) > DecodeTokenThreshold
  BY <1>3, BucketExceedsThreshold
<1>5. /\ so \in SchedulerOutput
      /\ Leaving(so) = finished /\ so.finished = finished
      /\ Scheduled(so) = {r} /\ so.padded[r] = Bucket(target[r])
      /\ so.toks[r] = target[r] /\ so.computed[r] = 0 /\ so.gen[r] = gen[r]
      /\ r \in so.new <=> status[r] = "waiting"
      /\ \A q \in Req : q # r => so.toks[q] = 0
  <2>1. /\ so.toks \in [Req -> 0 .. MaxLen]
        /\ so.padded \in [Req -> Nat]
        /\ so.computed \in [Req -> 0 .. MaxLen]
        /\ so.gen \in [Req -> 0 .. MaxGen]
    BY <1>1, <1>3, <1>4 DEF Nothing
  <2>2. \A q \in Req : so.computed[q] + so.toks[q] <= MaxLen
    BY <1>1, <1>3 DEF Nothing
  <2>3. so \in SchedulerOutput
    BY <1>1, <1>3, <2>1, <2>2 DEF SchedulerOutput
  <2>4. /\ so.toks[r] = target[r] /\ so.computed[r] = 0 /\ so.gen[r] = gen[r]
        /\ so.padded[r] = Bucket(target[r])
        /\ \A q \in Req : q # r => so.toks[q] = 0
    BY <1>1 DEF Nothing
  <2>5. Scheduled(so) = {r}
    BY <1>3, <2>4 DEF Scheduled
  <2> QED
    BY <1>1, <2>3, <2>4, <2>5 DEF Leaving
<1>6. /\ r \notin Running
      /\ Running' = Running \cup {r}
      /\ \A q \in Running : q \in Req /\ target'[q] = target[q]
      /\ target'[r] = target[r] + 1
      /\ \A q \in Req : q # r => status'[q] = status[q]
  BY <1>1, <1>2 DEF Running, ServingTypeOK
<1>7. Bookkeeping'
  <2>1. \A q \in Req : status'[q] = "waiting" => gen'[q] >= 1
    BY <1>1, <1>2 DEF HistoryInv, Bookkeeping, ServingTypeOK
  <2>2. Cardinality(Running') = Cardinality(Running) + 1
    BY <1>6, RunningIsFinite, FS_AddElement
  <2>3. Cardinality(Running') <= MaxNumSeqs
    BY <1>1, <2>2, RunningIsFinite, SchedulerAssumption
  <2>4. phase' = "serving"
    BY <1>1 DEF runnerVars
  <2> QED
    BY <2>1, <2>3, <2>4 DEF Bookkeeping
<1>8. ASSUME NEW v \in Views, Believed(v)
      PROVE  Fits(v, so) /\ Believed(After(v, so))'
  <2>1. PICK w \in Views : w = After(v, so)
    BY <1>5, AfterType
  <2>2. /\ w.held = (v.held \ finished) \cup {r}
        /\ w.cache[r].fed = target[r]
        /\ w.cache[r].gen = IF status[r] = "waiting" THEN gen[r] ELSE v.cache[r].gen
        /\ \A q \in Req : q # r /\ q \notin finished => w.cache[q] = v.cache[q]
    BY <1>3, <1>5, <2>1, AfterType
  <2>3. v.held \ finished \subseteq Running
    BY <1>8 DEF Believed
  <2>4. w.cache[r].gen >= 1
    BY <1>1, <1>3, <1>8, <2>2 DEF Believed
  <2>5. Cardinality(v.held \ finished) < MaxNumSeqs
    <3>1. Cardinality(v.held \ finished) <= Cardinality(Running)
      BY <2>3, RunningIsFinite, FS_Subset
    <3>2. Cardinality(v.held \ finished) \in Nat
      BY <2>3, RunningIsFinite, FS_Subset, FS_CardinalityType
    <3> QED
      BY <1>1, <3>1, <3>2, RunningIsFinite, SchedulerAssumption
  <2>6. PrefillOf(v, so, r)
    <3>1. CacheAfter(v.cache, so)[r].gen >= 1
      BY <2>1, <2>4 DEF After
    <3> QED
      BY <1>4, <1>5, <1>6, <2>3, <2>5, <3>1 DEF PrefillOf
  <2>7. Believed(w)'
    <3>1. w.held \subseteq Running' \cup finished'
      BY <1>6, <2>2, <2>3
    <3>2. \A q \in Running' : /\ q \in w.held \ finished'
                              /\ w.cache[q].fed = target'[q] - 1
      <4>1. r \in w.held \ finished' /\ w.cache[r].fed = target'[r] - 1
        BY <1>1, <1>3, <1>6, <2>2
      <4>2. ASSUME NEW q \in Running
            PROVE  q \in w.held \ finished' /\ w.cache[q].fed = target'[q] - 1
        <5>1. q # r /\ q \in Req /\ target'[q] = target[q]
          BY <1>6
        <5>2. q \in v.held \ finished /\ v.cache[q].fed = target[q] - 1
          BY <1>8 DEF Believed
        <5> QED
          BY <1>1, <2>2, <5>1, <5>2
      <4> QED
        BY <1>6, <4>1, <4>2
    <3>3. \A q \in Req : status'[q] \in {"running", "preempted"} =>
                           q \notin finished' /\ w.cache[q].gen >= 1
      <4> SUFFICES ASSUME NEW q \in Req, q # r, status'[q] \in {"running", "preempted"}
                   PROVE  w.cache[q].gen >= 1
        BY <1>1, <2>4
      <4>1. q \notin finished /\ v.cache[q].gen >= 1
        BY <1>6, <1>8 DEF Believed
      <4> QED
        BY <2>2, <4>1
    <3> QED
      BY <3>1, <3>2, <3>3 DEF Believed
  <2> QED
    BY <2>1, <2>6, <2>7 DEF Fits
<1> QED
  BY <1>1, <1>2, <1>5, <1>7, <1>8, WorkerScheduled

LEMMA ScheduleDecodeHistory ==
  ASSUME HistoryInv, NEW P \in SUBSET Req, ScheduleDecode(P)
  PROVE  HistoryInv'
<1> DEFINE S == {r \in Running \ P : target[r] <= MaxLen}
           one == [r \in Req |-> IF r \in S THEN 1 ELSE 0]
           before == [r \in Req |-> IF r \in S THEN target[r] - 1 ELSE 0]
<1>1. PICK so :
      /\ so = [finished |-> finished, preempted |-> P, new |-> {},
               toks |-> one, padded |-> one, computed |-> before,
               gen |-> Nothing]
      /\ phase = "serving" /\ P \subseteq Running
      /\ Enqueue(so)
      /\ status' = [r \in Req |-> IF r \in P THEN "preempted" ELSE status[r]]
      /\ target' = [r \in Req |-> IF r \in S THEN target[r] + 1 ELSE target[r]]
      /\ UNCHANGED runnerVars /\ gen' = gen /\ finished' = {}
  BY DEF ScheduleDecode, Enqueue
<1>2. ServingTypeOK /\ ServingInv'
  BY ScheduleDecodeStep DEF HistoryInv, ServingInv
<1>3. /\ S \subseteq Running /\ S \cap P = {} /\ Running \subseteq Req
      /\ \A r \in S : target[r] \in 1 .. MaxLen
      /\ \A r \in Req : target[r] \in Nat
      /\ MaxLen \in Nat \ {0} /\ MaxGen \in Nat /\ finished \in SUBSET Req
  BY <1>2, BoundAssumption DEF HistoryInv, ServingInv, ServingTypeOK, Running
<1> HIDE DEF S
<1>4. /\ so \in SchedulerOutput
      /\ Leaving(so) = finished \cup P /\ so.finished = finished
      /\ Scheduled(so) = S /\ so.new = {}
      /\ \A r \in S : so.toks[r] = 1 /\ so.padded[r] = 1 /\ so.computed[r] = target[r] - 1
      /\ \A r \in Req \ S : so.toks[r] = 0
  <2>1. /\ one \in [Req -> 0 .. MaxLen]
        /\ one \in [Req -> Nat]
        /\ before \in [Req -> 0 .. MaxLen]
        /\ Nothing \in [Req -> 0 .. MaxGen]
    BY <1>3 DEF Nothing
  <2>2. \A q \in Req : before[q] + one[q] <= MaxLen
    BY <1>3
  <2>3. /\ \A r \in S : one[r] = 1 /\ before[r] = target[r] - 1
        /\ \A r \in Req \ S : one[r] = 0
    BY <1>3
  <2> HIDE DEF one, before
  <2>4. so \in SchedulerOutput
    BY <1>1, <1>3, <2>1, <2>2 DEF SchedulerOutput
  <2>5. Scheduled(so) = S
    BY <1>1, <1>3, <2>3 DEF Scheduled
  <2> QED
    BY <1>1, <2>3, <2>4, <2>5 DEF Leaving
<1>5. /\ Running' = Running \ P
      /\ \A q \in S : target'[q] = target[q] + 1
      /\ \A q \in Req \ S : target'[q] = target[q]
      /\ \A q \in Req : status'[q] \in {"running", "preempted"} =>
                          status[q] \in {"running", "preempted"}
      /\ \A q \in Req : status'[q] = "waiting" => status[q] = "waiting"
  BY <1>1, <1>2, <1>3 DEF Running, ServingTypeOK
<1>6. Bookkeeping'
  <2>1. \A q \in Req : status'[q] = "waiting" => gen'[q] >= 1
    BY <1>1, <1>5 DEF HistoryInv, Bookkeeping
  <2>2. Cardinality(Running') <= Cardinality(Running)
    BY <1>5, RunningIsFinite, FS_Subset
  <2>3. Cardinality(Running') <= MaxNumSeqs
    BY <2>2, RunningIsFinite, SchedulerAssumption DEF HistoryInv, Bookkeeping
  <2>4. phase' = "serving"
    BY <1>1 DEF runnerVars
  <2> QED
    BY <2>1, <2>3, <2>4 DEF Bookkeeping
<1>7. ASSUME NEW v \in Views, Believed(v)
      PROVE  Fits(v, so) /\ Believed(After(v, so))'
  <2>1. PICK w \in Views : w = After(v, so)
    BY <1>4, AfterType
  <2>2. /\ w.held = (v.held \ (finished \cup P)) \cup S
        /\ \A q \in S : /\ w.cache[q].fed = target[q]
                        /\ w.cache[q].gen = v.cache[q].gen
        /\ \A q \in Req \ S : q \notin finished => w.cache[q] = v.cache[q]
    <3>1. w.held = (v.held \ (finished \cup P)) \cup S
      BY <1>4, <2>1, AfterType
    <3>2. ASSUME NEW q \in S
          PROVE  w.cache[q].fed = target[q] /\ w.cache[q].gen = v.cache[q].gen
      <4>1. /\ q \in Req /\ so.toks[q] = 1 /\ so.computed[q] = target[q] - 1
            /\ q \notin so.new /\ target[q] \in Nat
        BY <1>3, <1>4
      <4>2. /\ w.cache[q].fed = so.computed[q] + so.toks[q]
            /\ w.cache[q].gen = v.cache[q].gen
        BY <1>4, <2>1, <4>1, AfterType
      <4> QED
        BY <4>1, <4>2
    <3>3. ASSUME NEW q \in Req \ S, q \notin finished
          PROVE  w.cache[q] = v.cache[q]
      BY <1>4, <2>1, <3>3, AfterType
    <3> QED
      BY <3>1, <3>2, <3>3
  <2>3. \A q \in Running : q \in v.held \ finished /\ v.cache[q].fed = target[q] - 1
    BY <1>7 DEF Believed
  <2>4. DecodeOf(v, so)
    BY <1>3, <1>4, <2>3 DEF DecodeOf
  <2>5. Believed(w)'
    <3>1. w.held \subseteq Running' \cup finished'
      <4>1. v.held \subseteq Running \cup finished
        BY <1>7 DEF Believed
      <4> QED
        BY <1>3, <1>5, <2>2, <4>1
    <3>2. ASSUME NEW q \in Running'
          PROVE  q \in w.held \ finished' /\ w.cache[q].fed = target'[q] - 1
      <4>1. q \in Running /\ q \notin P /\ q \in Req
        BY <1>3, <1>5
      <4>2. q \in v.held \ finished /\ v.cache[q].fed = target[q] - 1
        BY <2>3, <4>1
      <4>3. CASE q \in S
        BY <1>1, <1>3, <1>5, <2>2, <4>1, <4>3
      <4>4. CASE q \notin S
        BY <1>1, <1>5, <2>2, <4>1, <4>2, <4>4
      <4> QED
        BY <4>3, <4>4
    <3>3. \A q \in Req : status'[q] \in {"running", "preempted"} =>
                           q \notin finished' /\ w.cache[q].gen >= 1
      <4> SUFFICES ASSUME NEW q \in Req, status'[q] \in {"running", "preempted"}
                   PROVE  w.cache[q].gen >= 1
        BY <1>1
      <4>1. q \notin finished /\ v.cache[q].gen >= 1
        BY <1>5, <1>7 DEF Believed
      <4> QED
        BY <2>2, <4>1
    <3> QED
      BY <3>1, <3>2, <3>3 DEF Believed
  <2> QED
    BY <2>1, <2>4, <2>5 DEF Fits
<1> QED
  BY <1>1, <1>2, <1>4, <1>6, <1>7, WorkerScheduled

(* The oldest output of a plan is one that fits what the worker holds now. *)
LEMMA PlanHead ==
  ASSUME ServingTypeOK, NEW views, Plan(views), queue # << >>
  PROVE  /\ Head(queue) \in SchedulerOutput
         /\ Fits(Now, Head(queue))
         /\ views[2] = After(Now, Head(queue))
<1> DEFINE SO == SchedulerOutput
<1>1. queue \in Seq(SO)
  BY DEF ServingTypeOK
<1> HIDE DEF SO
<1>2. 1 \in 1 .. Len(queue) /\ Head(queue) = queue[1] /\ Head(queue) \in SO
  BY <1>1
<1>3. Fits(views[1], queue[1]) /\ views[1 + 1] = After(views[1], queue[1]) /\ views[1] = Now
  BY <1>2 DEF Plan
<1> QED
  BY <1>2, <1>3 DEF SO

(* A step that fits, whichever kind it is.                                 *)
LEMMA FittingStep ==
  ASSUME SlotsInv, RowsOwned, NEW so \in SchedulerOutput, ExecuteModel(so),
         Fits(Now, so)
  PROVE  /\ RowsOwned'
         /\ requests' = CacheAfter(requests, so)
         /\ phase' # "failed" => /\ phase' = phase
                                 /\ Now'.held = After(Now, so).held
         /\ phase' = "failed" => Now'.held = Now.held \ Leaving(so)
         /\ MaxNumSeqs <= Capacity => phase' # "failed"
<1>1. CASE DecodeOf(Now, so)
  BY <1>1, DecodeStep
<1>2. CASE \E p \in Req : PrefillOf(Now, so, p)
  BY <1>2, PrefillStep
<1> QED
  BY <1>1, <1>2 DEF Fits

LEMMA ExecuteHistory ==
  ASSUME HistoryInv, Execute
  PROVE  HistoryInv'
<1>1. /\ queue # << >> /\ ExecuteModel(Head(queue)) /\ queue' = Tail(queue)
      /\ UNCHANGED <<status, gen, target, finished>>
      /\ phase = "serving" /\ ServingTypeOK /\ SlotsInv /\ RowsOwned
      /\ ServingInv'
  BY ExecuteStep DEF Execute, ExecuteModel, HistoryInv, ServingInv
<1>2. PICK views : Plan(views) /\ Believed(views[Len(queue) + 1])
  BY <1>1 DEF HistoryInv, Planned
<1>3. PICK so \in SchedulerOutput : so = Head(queue)
  BY <1>1, <1>2, PlanHead
<1>4. Fits(Now, so) /\ views[2] = After(Now, so)
  BY <1>1, <1>2, <1>3, PlanHead
<1>5. /\ RowsOwned'
      /\ requests' = CacheAfter(requests, so)
      /\ phase' # "failed" => phase' = phase /\ Now'.held = After(Now, so).held
      /\ MaxNumSeqs <= Capacity => phase' # "failed"
  BY <1>1, <1>3, <1>4, FittingStep
<1>6. phase' # "warmup"
  BY <1>1, <1>5
<1>7. Bookkeeping'
  BY <1>1, <1>6 DEF HistoryInv, Bookkeeping, Running
<1>8. Planned'
  <2> SUFFICES ASSUME phase' # "failed"
               PROVE  \E rest : Plan(rest)' /\ (Believed(rest[Len(queue) + 1]))'
    BY DEF Planned
  <2>1. Now' = views[2]
    BY <1>4, <1>5 DEF Now, After
  <2>2. PICK rest : Plan(rest)' /\ rest[Len(queue') + 1] = views[Len(queue) + 1]
    BY <1>1, <1>2, <2>1, PlanAdvanced
  <2>3. PICK v : v = views[Len(queue) + 1]
    OBVIOUS
  <2>4. Believed(v)'
    BY <1>1, <1>2, <2>3 DEF Believed, Running
  <2> QED
    BY <2>2, <2>3, <2>4
<1> QED
  BY <1>1, <1>5, <1>7, <1>8 DEF HistoryInv, SlotsSuffice

LEMMA DummyHistory ==
  ASSUME HistoryInv, Dummy
  PROVE  HistoryInv'
<1>1. /\ UNCHANGED schedulerVars /\ UNCHANGED <<phase, slotByReq, requests, batch>>
      /\ ServingInv' /\ TypeOK
  BY DummyStep DEF Dummy, ExecuteDummyBatch, HistoryInv, ServingInv, ServingTypeOK
<1>2. \A s \in Slots : rows'[s] = rows[s]
  <2>1. PICK width \in 1 .. Capacity : rows' = JunkRows(DummyTensor(width))
    BY DEF Dummy, ExecuteDummyBatch
  <2> QED
    BY <1>1, <2>1, JunkRowsType, CapacityAssumption
       DEF DummyTensor, Slots, Rows, Scratch
<1>3. RowsOwned'
  <2> SUFFICES ASSUME NEW r \in Req, slotByReq[r] # NoSlot
               PROVE  rows'[slotByReq[r]] = rows[slotByReq[r]]
    BY <1>1 DEF HistoryInv, RowsOwned, RowHoldsOwnTokens
  <2> QED
    BY <1>1, <1>2 DEF TypeOK
<1>4. SlotsSuffice' /\ Bookkeeping'
  BY <1>1 DEF HistoryInv, SlotsSuffice, Bookkeeping, Running, schedulerVars
<1>5. Planned'
  BY <1>1 DEF HistoryInv, Planned, Plan, Now, Believed, Running, schedulerVars
<1> QED
  BY <1>1, <1>3, <1>4, <1>5 DEF HistoryInv

(* Before serving nothing is held, nothing runs and nothing is queued.     *)
LEMMA StartupHistory ==
  ASSUME HistoryInv, Startup
  PROVE  HistoryInv'
<1>1. /\ UNCHANGED schedulerVars /\ phase = "warmup"
      /\ phase' \in {"warmup", "serving"}
      /\ ServingInv' /\ TypeOK'
      /\ queue = << >> /\ \A r \in Req : status[r] = "idle"
      /\ \A r \in Req : slotByReq'[r] = NoSlot
  BY StartupServingStep DEF Startup, Warmup, ResetState, HistoryInv, ServingInv,
     ServingTypeOK, SlotsInv, Bookkeeping
<1>2. RowsOwned' /\ SlotsSuffice' /\ Bookkeeping'
  BY <1>1 DEF HistoryInv, RowsOwned, RowHoldsOwnTokens, SlotsSuffice,
              Bookkeeping, Running, schedulerVars
<1>3. Planned'
  <2>1. PICK now \in Views : now = Now'
    BY <1>1 DEF TypeOK, Now, Views
  <2>2. PICK views \in [1 .. 0 + 1 -> Views] : views = [k \in 1 .. 0 + 1 |-> now]
    BY <2>1
  <2>3. Len(queue') = 0 /\ views[0 + 1] = now
    BY <1>1, <2>2 DEF schedulerVars
  <2>4. Plan(views)'
    BY <2>1, <2>2, <2>3 DEF Plan
  <2>5. Believed(now)'
    BY <1>1, <2>1 DEF Believed, Now, Running, schedulerVars
  <2> QED
    BY <2>3, <2>4, <2>5 DEF Planned
<1> QED
  BY <1>1, <1>2, <1>3 DEF HistoryInv

LEMMA InitHistory == ServingInit => HistoryInv
<1> SUFFICES ASSUME ServingInit PROVE HistoryInv
  OBVIOUS
<1>1. ServingInv
  BY InitServingInv
<1>2. /\ phase = "warmup" /\ queue = << >> /\ TypeOK
      /\ \A r \in Req : slotByReq[r] = NoSlot /\ status[r] = "idle"
  BY <1>1 DEF ServingInit, Init, ServingInv, ServingTypeOK
<1>3. RowsOwned /\ SlotsSuffice
  BY <1>2 DEF RowsOwned, RowHoldsOwnTokens, SlotsSuffice
<1>4. Bookkeeping
  <2>1. Running = {}
    BY <1>2 DEF Running
  <2> QED
    BY <1>2, <2>1, FS_EmptySet, SchedulerAssumption DEF Bookkeeping
<1>5. Planned
  <2>1. PICK now \in Views : now = Now
    BY <1>2, NowType
  <2>2. PICK views \in [1 .. 0 + 1 -> Views] : views = [k \in 1 .. 0 + 1 |-> now]
    BY <2>1
  <2>3. Len(queue) = 0 /\ views[0 + 1] = now
    BY <1>2, <2>2
  <2>4. Plan(views)
    BY <2>1, <2>2, <2>3 DEF Plan
  <2>5. Believed(now)
    BY <1>2, <2>1 DEF Believed, Now, Running
  <2> QED
    BY <2>3, <2>4, <2>5 DEF Planned
<1> QED
  BY <1>1, <1>3, <1>4, <1>5 DEF HistoryInv

LEMMA HistoryNextStep ==
  ASSUME HistoryInv, [ServingNext]_servingVars
  PROVE  HistoryInv'
<1>1. CASE UNCHANGED servingVars
  <2>1. UNCHANGED <<runnerVars, queue, status, gen, target, finished, phase>>
    BY <1>1 DEF servingVars, schedulerVars, runnerVars
  <2>2. ServingInv'
    BY <1>1, ServingNextStep DEF HistoryInv
  <2>3. Bookkeeping'
    BY <2>1 DEF HistoryInv, Bookkeeping, Running
  <2>4. \A v \in Views : Believed(v) => Believed(v)'
    BY <2>1 DEF Believed, Running
  <2> QED
    BY <2>1, <2>2, <2>3, <2>4, WorkerUntouched
<1>2. CASE ServingNext
  BY <1>2, SubmitHistory, FinishHistory, SchedulePrefillHistory,
     ScheduleDecodeHistory, ExecuteHistory, DummyHistory, StartupHistory
     DEF ServingNext, Schedule
<1> QED
  BY <1>1, <1>2

LEMMA HistoryInvariant == ServingSpec => []HistoryInv
BY InitHistory, HistoryNextStep, PTL DEF ServingSpec

(* The state row of every request that holds a slot is the history of      *)
(* exactly its own tokens, however far the scheduler runs ahead and        *)
(* whichever ids are aborted, preempted or resubmitted meanwhile.          *)
THEOREM ServingRowsOwn == ServingSpec => []RowHoldsOwnTokens
<1>1. HistoryInv => RowHoldsOwnTokens
  BY DEF HistoryInv, RowsOwned
<1> QED
  BY <1>1, HistoryInvariant, PTL

(* With a row for each of max_num_seqs requests, _acquire_state_slot never *)
(* raises, although releases reach the worker QueueDepth outputs late.     *)
THEOREM ServingSlotsSuffice == ServingSpec => []SlotsSuffice
<1>1. HistoryInv => SlotsSuffice
  BY DEF HistoryInv
<1> QED
  BY <1>1, HistoryInvariant, PTL

-----------------------------------------------------------------------------
(* The refinement: the slots implement a private history per request. *)

(* The history a request has in the abstract specification. *)
Mapped(r) == IF slotByReq[r] = NoSlot THEN [gen |-> 0, len |-> 0]
             ELSE [gen |-> requests[r].gen, len |-> requests[r].fed]

(* While rows are owned, a row's contents are what the request cache says. *)
LEMMA MappedHistory ==
  /\ RowsOwned => \A r \in Req : HistoryOf(r) = Mapped(r)
  /\ RowsOwned' => \A r \in Req : HistoryOf(r)' = Mapped(r)'
BY DEF RowsOwned, RowHoldsOwnTokens, HistoryOf, Mapped

LEMMA MappedHistoryType ==
  ASSUME ServingTypeOK', RowsOwned', NEW r \in Req, slotByReq'[r] # NoSlot,
         requests'[r].gen >= 1
  PROVE  [gen |-> requests'[r].gen, len |-> requests'[r].fed] \in Private!History
<1>1. requests'[r] \in [gen : 0 .. MaxGen, fed : 0 .. MaxLen] /\ requests'[r].fed >= 1
  BY DEF ServingTypeOK, TypeOK, RowsOwned
<1> QED
  BY <1>1, BoundAssumption DEF Private!History

(* A worker step that leaves who holds what and the cache alone.           *)
LEMMA HistoriesKept ==
  ASSUME RowsOwned, RowsOwned',
         \A r \in Req : Mapped(r)' = Mapped(r)
  PROVE  [r \in Req |-> HistoryOf(r)]' = [r \in Req |-> HistoryOf(r)]
BY MappedHistory

LEMMA PrefillRefines ==
  ASSUME HistoryInv, NEW so \in SchedulerOutput, ExecuteModel(so),
         NEW p \in Req, PrefillOf(Now, so, p), ServingTypeOK'
  PROVE  Private!Next
<1>1. /\ RowsOwned /\ RowsOwned' /\ TypeOK
      /\ requests' = CacheAfter(requests, so)
      /\ phase' # "failed" => Now'.held = After(Now, so).held
      /\ phase' = "failed" => Now'.held = Now.held \ Leaving(so)
      /\ Leaving(so) \in SUBSET Req
      /\ Scheduled(so) = {p}
      /\ requests'[p].gen >= 1
  <2>1. SlotsInv /\ RowsOwned /\ TypeOK
    BY DEF HistoryInv, ServingInv, SlotsInv
  <2>2. /\ Scheduled(so) = {p}
        /\ CacheAfter(requests, so)[p].gen >= 1
    BY DEF PrefillOf, Now
  <2>3. Leaving(so) \in SUBSET Req
    BY DEF Leaving, SchedulerOutput
  <2> QED
    BY <2>1, <2>2, <2>3, PrefillStep
<1>2. \A r \in Req : r # p /\ r \notin Leaving(so) => requests'[r] = requests[r]
  <2> SUFFICES ASSUME NEW r \in Req, r # p, r \notin Leaving(so)
               PROVE  requests'[r] = requests[r]
    OBVIOUS
  <2>1. ~(so.toks[r] > 0) /\ r \notin so.finished
    BY <1>1 DEF Scheduled, Leaving
  <2> QED
    BY <1>1, <2>1 DEF CacheAfter
<1> DEFINE left(r) == IF r \in Leaving(so) THEN [gen |-> 0, len |-> 0] ELSE Mapped(r)
<1>3. CASE phase' = "failed"
  <2>1. \A r \in Req : slotByReq'[r] # NoSlot <=> slotByReq[r] # NoSlot /\ r \notin Leaving(so)
    BY <1>1, <1>3 DEF Now
  <2>2. slotByReq'[p] = NoSlot
    BY <1>1, <2>1 DEF PrefillOf, Now
  <2>3. \A r \in Req : Mapped(r)' = left(r)
    BY <1>2, <2>1, <2>2 DEF Mapped
  <2>4. Private!Decode(Leaving(so), {})
    BY <1>1, <2>3, MappedHistory
       DEF Private!Decode, Private!Dropped, Private!NoHistory
  <2> QED
    BY <1>1, <2>4 DEF Private!Next
<1>4. CASE phase' # "failed"
  <2> DEFINE h == [gen |-> requests'[p].gen, len |-> requests'[p].fed]
  <2>1. \A r \in Req : slotByReq'[r] # NoSlot <=>
                         r = p \/ (slotByReq[r] # NoSlot /\ r \notin Leaving(so))
    BY <1>1, <1>4 DEF Now, After
  <2>2. h \in Private!History
    BY <1>1, <2>1, MappedHistoryType
  <2>3. \A r \in Req : Mapped(r)' = IF r = p THEN h ELSE left(r)
    BY <1>2, <2>1 DEF Mapped
  <2> HIDE DEF h
  <2>4. [r \in Req |-> HistoryOf(r)]' = [[r \in Req |-> left(r)] EXCEPT ![p] = h]
    BY <1>1, <2>3, MappedHistory
  <2>5. Private!Dropped(Leaving(so)) = [r \in Req |-> left(r)]
    BY <1>1, MappedHistory DEF Private!Dropped, Private!NoHistory
  <2>6. Private!Prefill(Leaving(so), p)
    BY <2>2, <2>4, <2>5 DEF Private!Prefill
  <2> QED
    BY <1>1, <2>6 DEF Private!Next
<1> QED
  BY <1>3, <1>4

LEMMA DecodeRefines ==
  ASSUME HistoryInv, NEW so \in SchedulerOutput, ExecuteModel(so),
         DecodeOf(Now, so)
  PROVE  Private!Next
<1>1. /\ RowsOwned /\ RowsOwned' /\ TypeOK
      /\ requests' = CacheAfter(requests, so)
      /\ Now'.held = After(Now, so).held
  BY DecodeStep DEF HistoryInv, ServingInv, SlotsInv
<1>2. Leaving(so) \in SUBSET Req /\ Scheduled(so) \in SUBSET Req
  BY DEF Leaving, SchedulerOutput, Scheduled
<1>3. \A r \in Scheduled(so) :
        /\ slotByReq[r] # NoSlot /\ r \notin Leaving(so)
        /\ requests[r].fed >= 1 /\ requests[r].fed \in Nat
        /\ requests'[r].gen = requests[r].gen
        /\ requests'[r].fed = requests[r].fed + 1
  <2> SUFFICES ASSUME NEW r \in Scheduled(so)
               PROVE  /\ slotByReq[r] # NoSlot /\ r \notin Leaving(so)
                      /\ requests[r].fed >= 1 /\ requests[r].fed \in Nat
                      /\ requests'[r].gen = requests[r].gen
                      /\ requests'[r].fed = requests[r].fed + 1
    OBVIOUS
  <2>1. /\ r \in Req /\ so.toks[r] = 1 /\ r \notin so.new
        /\ slotByReq[r] # NoSlot /\ r \notin Leaving(so)
        /\ so.computed[r] = requests[r].fed
    BY <1>2 DEF DecodeOf, Now
  <2>2. requests[r].fed >= 1 /\ requests[r].fed \in Nat
    BY <1>1, <2>1, ScheduledFields DEF RowsOwned
  <2>3. requests'[r] = [gen |-> requests[r].gen, fed |-> requests[r].fed + 1]
    BY <1>1, <2>1, <2>2 DEF CacheAfter
  <2> QED
    BY <2>1, <2>2, <2>3
<1>4. \A r \in Req : r \notin Scheduled(so) /\ r \notin Leaving(so)
                       => requests'[r] = requests[r]
  <2> SUFFICES ASSUME NEW r \in Req, r \notin Scheduled(so), r \notin Leaving(so)
               PROVE  requests'[r] = requests[r]
    OBVIOUS
  <2>1. ~(so.toks[r] > 0) /\ r \notin so.finished
    BY DEF Scheduled, Leaving
  <2> QED
    BY <1>1, <2>1 DEF CacheAfter
<1>5. \A r \in Req : slotByReq'[r] # NoSlot <=>
                       r \in Scheduled(so) \/ (slotByReq[r] # NoSlot /\ r \notin Leaving(so))
  BY <1>1 DEF Now, After
<1> DEFINE left(r) == IF r \in Leaving(so) THEN [gen |-> 0, len |-> 0] ELSE Mapped(r)
<1>6. \A r \in Req \ Scheduled(so) : Mapped(r)' = left(r)
  BY <1>4, <1>5 DEF Mapped
<1>7. \A r \in Scheduled(so) : /\ Mapped(r)' = [Mapped(r) EXCEPT !.len = @ + 1]
                               /\ left(r) # [gen |-> 0, len |-> 0]
  <2> SUFFICES ASSUME NEW r \in Scheduled(so)
               PROVE  /\ Mapped(r)' = [Mapped(r) EXCEPT !.len = @ + 1]
                      /\ left(r) # [gen |-> 0, len |-> 0]
    OBVIOUS
  <2>1. Mapped(r) = [gen |-> requests[r].gen, len |-> requests[r].fed]
    BY <1>3 DEF Mapped
  <2>2. Mapped(r)' = [gen |-> requests[r].gen, len |-> requests[r].fed + 1]
    BY <1>2, <1>3, <1>5 DEF Mapped
  <2>3. left(r) = Mapped(r)
    BY <1>3
  <2> HIDE DEF left
  <2> QED
    BY <1>3, <2>1, <2>2, <2>3
<1>8. Private!Dropped(Leaving(so)) = [r \in Req |-> left(r)]
  BY <1>1, MappedHistory DEF Private!Dropped, Private!NoHistory
<1> HIDE DEF left
<1>9. [r \in Req |-> HistoryOf(r)]' =
        [r \in Req |-> IF r \in Scheduled(so) THEN [HistoryOf(r) EXCEPT !.len = @ + 1]
                                              ELSE left(r)]
  BY <1>1, <1>6, <1>7, MappedHistory
<1>10. Private!Decode(Leaving(so), Scheduled(so))
  BY <1>2, <1>7, <1>8, <1>9 DEF Private!Decode, Private!NoHistory
<1> QED
  BY <1>2, <1>10 DEF Private!Next

LEMMA RefinementStep ==
  ASSUME HistoryInv, HistoryInv', [ServingNext]_servingVars
  PROVE  [Private!Next]_([r \in Req |-> HistoryOf(r)])
<1>1. CASE UNCHANGED runnerVars
  BY <1>1, Zenon DEF runnerVars, HistoryOf
<1>2. CASE Dummy
  <2>1. \A r \in Req : Mapped(r)' = Mapped(r)
    BY <1>2 DEF Dummy, ExecuteDummyBatch, Mapped
  <2> QED
    BY <2>1, HistoriesKept DEF HistoryInv
<1>3. CASE Startup
  <2>1. \A r \in Req : slotByReq[r] = NoSlot /\ slotByReq'[r] = NoSlot
    BY <1>3 DEF Startup, Warmup, ResetState, HistoryInv, ServingInv, SlotsInv
  <2> QED
    BY <2>1, HistoriesKept DEF HistoryInv, Mapped
<1>4. CASE Execute
  <2>1. /\ queue # << >> /\ ExecuteModel(Head(queue)) /\ phase = "serving"
        /\ ServingTypeOK /\ ServingTypeOK'
    BY <1>4 DEF Execute, ExecuteModel, HistoryInv, ServingInv
  <2>2. PICK views : Plan(views)
    BY <2>1 DEF HistoryInv, Planned
  <2>3. PICK so \in SchedulerOutput : so = Head(queue)
    BY <2>1, <2>2, PlanHead
  <2>4. Fits(Now, so) /\ ExecuteModel(so)
    BY <2>1, <2>2, <2>3, PlanHead
  <2> QED
    BY <2>1, <2>4, PrefillRefines, DecodeRefines DEF Fits
<1> QED
  <2>1. CASE (\E r \in Req : Submit(r) \/ Finish(r)) \/ Schedule
    BY <1>1, <2>1 DEF Submit, Finish, Schedule, SchedulePrefill, ScheduleDecode
  <2>2. CASE UNCHANGED servingVars
    BY <1>1, <2>2 DEF servingVars
  <2> QED
    BY <1>2, <1>3, <1>4, <2>1, <2>2 DEF ServingNext

(* The slot map, the state buffers, the queue and the scheduler together   *)
(* implement PrivateState: each live request has a recurrent history of    *)
(* its own, started by its prefill, extended by one token per decode and   *)
(* dropped when it finishes or is preempted; every other step, a dummy     *)
(* batch or another request's prefill included, leaves it as it was.       *)
THEOREM ServingRefinesPrivate == ServingSpec => PrivateSpec
<1>1. ServingInit => Private!Init
  BY DEF ServingInit, Init, Private!Init, Private!NoHistory, HistoryOf
<1>2. HistoryInv /\ HistoryInv' /\ [ServingNext]_servingVars
        => [Private!Next]_([r \in Req |-> HistoryOf(r)])
  BY RefinementStep
<1> QED
  BY <1>1, <1>2, HistoryInvariant, PTL DEF ServingSpec, PrivateSpec, Private!Spec
=============================================================================
