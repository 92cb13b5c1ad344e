------------------------- MODULE StateSlots_proofs --------------------------
(***************************************************************************)
(* Theorems of StateSlots, for every set of requests, every capacity and   *)
(* every sequence of SchedulerOutputs.  The inductive invariant adds to    *)
(* type correctness and slot distinctness that no slot is held before      *)
(* serving, when warmup writes rows with identity slots.                   *)
(***************************************************************************)
EXTENDS StateSlots, FiniteSetTheorems, TLAPS

SlotsInv ==
  /\ TypeOK
  /\ SlotsDistinct
  /\ phase = "warmup" => \A r \in Req : slotByReq[r] = NoSlot

(* What a step's batch is: a sequence of the scheduled requests.           *)
LEMMA BatchIsSequence ==
  ASSUME NEW so \in SchedulerOutput,
         NEW b \in [1 .. Cardinality(Scheduled(so)) -> Scheduled(so)]
  PROVE  /\ b \in Seq(Req)
         /\ Len(b) \in Nat
         /\ DOMAIN b = 1 .. Len(b)
         /\ \A p \in 1 .. Len(b) : b[p] \in Scheduled(so) /\ b[p] \in Req
<1>1. Scheduled(so) \subseteq Req
  BY DEF Scheduled
<1>2. IsFiniteSet(Scheduled(so))
  BY <1>1, ReqAssumption, FS_Subset
<1>3. Cardinality(Scheduled(so)) \in Nat
  BY <1>2, FS_CardinalityType
<1> DEFINE n == Cardinality(Scheduled(so))
<1>4. b \in [1 .. n -> Req]
  BY <1>1
<1> HIDE DEF n
<1>5. n \in Nat
  BY <1>3 DEF n
<1>6. b \in Seq(Req) /\ Len(b) = n
  BY <1>4, <1>5
<1> QED
  BY <1>1, <1>5, <1>6 DEF n

(* Every entry of the per-step tensor is a row of the buffers.             *)
LEMMA TensorType ==
  ASSUME NEW so \in SchedulerOutput,
         NEW b \in [1 .. Cardinality(Scheduled(so)) -> Scheduled(so)],
         NEW s2 \in [Req -> Slots \cup {NoSlot}],
         ~Exhausted(b, s2),
         NEW width \in Len(b) .. Capacity
  PROVE  /\ DOMAIN StateSlotsTensor(b, s2, width) = 1 .. width
         /\ \A p \in 1 .. width :
              /\ StateSlotsTensor(b, s2, width)[p] \in Rows
              /\ p <= Len(b) => /\ StateSlotsTensor(b, s2, width)[p] = s2[b[p]]
                                /\ StateSlotsTensor(b, s2, width)[p] \in Slots
              /\ p > Len(b) => StateSlotsTensor(b, s2, width)[p] = Scratch
<1>1. /\ Len(b) \in Nat
      /\ DOMAIN b = 1 .. Len(b)
      /\ \A p \in 1 .. Len(b) : b[p] \in Req
  BY BatchIsSequence
<1>2. width \in Nat
  BY <1>1, CapacityAssumption
<1>3. ASSUME NEW p \in 1 .. width, p <= Len(b)
      PROVE  s2[b[p]] \in Slots
  <2>1. p \in DOMAIN b /\ b[p] \in Req /\ b[p] \in InBatch(b)
    BY <1>1, <1>2, <1>3 DEF InBatch
  <2> QED
    BY <2>1 DEF Exhausted
<1>4. Slots \subseteq Rows /\ Scratch \in Rows
  BY CapacityAssumption DEF Slots, Rows, Scratch
<1> QED
  BY <1>1, <1>2, <1>3, <1>4 DEF StateSlotsTensor

(* The contents a prefill or a decode leaves are well-typed.               *)
LEMMA ContentsType ==
  ASSUME TypeOK, NEW so \in SchedulerOutput, NEW r \in Req
  PROVE  /\ RequestsAfter(so) \in [Req -> [gen : 0 .. MaxGen, fed : 0 .. MaxLen]]
         /\ AfterPrefill(so, r) \in Contents
         /\ \A old \in Contents : AfterDecode(old, so, r) \in Contents
<1>1. Junk \in Contents
  BY BoundAssumption DEF Junk, Contents
<1>2. /\ so.toks \in [Req -> 0 .. MaxLen]
      /\ so.computed \in [Req -> 0 .. MaxLen]
      /\ so.padded \in [Req -> Nat]
      /\ so.gen \in [Req -> 0 .. MaxGen]
      /\ \A q \in Req : so.computed[q] + so.toks[q] <= MaxLen
  BY DEF SchedulerOutput
<1>3. ASSUME NEW q \in Req
      PROVE  so.computed[q] + so.toks[q] \in 0 .. MaxLen
  BY <1>2, BoundAssumption
<1>4. RequestsAfter(so) \in [Req -> [gen : 0 .. MaxGen, fed : 0 .. MaxLen]]
  <2> SUFFICES ASSUME NEW q \in Req
               PROVE  RequestsAfter(so)[q] \in [gen : 0 .. MaxGen, fed : 0 .. MaxLen]
    BY DEF RequestsAfter
  <2>1. requests[q] \in [gen : 0 .. MaxGen, fed : 0 .. MaxLen]
    BY DEF TypeOK
  <2>2. Absent \in [gen : 0 .. MaxGen, fed : 0 .. MaxLen]
    BY BoundAssumption DEF Absent
  <2>3. requests[q].gen \in 0 .. MaxGen /\ so.gen[q] \in 0 .. MaxGen
    BY <2>1, <1>2
  <2> QED
    BY <2>1, <2>2, <2>3, <1>3 DEF RequestsAfter
<1>5. RequestsAfter(so)[r].gen \in 0 .. MaxGen
  BY <1>4
<1>6. AfterPrefill(so, r) \in Contents
  BY <1>1, <1>2, <1>5 DEF AfterPrefill, Contents
<1>7. ASSUME NEW old \in Contents
      PROVE  AfterDecode(old, so, r) \in Contents
  BY <1>1, <1>3 DEF AfterDecode, Contents
<1> QED
  BY <1>4, <1>6, <1>7

(* The forward of a step that found a slot for every row keeps the buffers *)
(* well-typed and writes only rows held by requests of the batch, and the  *)
(* scratch row.                                                            *)
LEMMA ForwardWritesOwnRows ==
  ASSUME TypeOK, NEW so \in SchedulerOutput, Scheduled(so) # {},
         NEW b \in [1 .. Cardinality(Scheduled(so)) -> Scheduled(so)],
         InBatch(b) = Scheduled(so),
         NEW s2 \in [Req -> Slots \cup {NoSlot}],
         ~Exhausted(b, s2),
         NEW width \in Len(b) .. Capacity,
         Forward(so, b, StateSlotsTensor(b, s2, width))
  PROVE  /\ rows' \in [Rows -> Contents]
         /\ \A s \in Slots : (\A r \in InBatch(b) : s2[r] # s) => rows'[s] = rows[s]
<1> DEFINE tensor == StateSlotsTensor(b, s2, width)
<1>1. /\ Len(b) \in Nat
      /\ DOMAIN b = 1 .. Len(b)
      /\ \A p \in 1 .. Len(b) : b[p] \in Req /\ b[p] \in InBatch(b)
  BY BatchIsSequence DEF InBatch
<1>2. 1 \in 1 .. Len(b) /\ width \in Nat /\ Len(b) <= width
  BY <1>1, CapacityAssumption DEF InBatch
<1>3. /\ DOMAIN tensor = 1 .. width
      /\ \A p \in 1 .. width :
           /\ tensor[p] \in Rows
           /\ p <= Len(b) => tensor[p] = s2[b[p]] /\ tensor[p] \in Slots
           /\ p > Len(b) => tensor[p] = Scratch
  BY TensorType
<1>4. rows \in [Rows -> Contents] /\ Slots \subseteq Rows /\ Scratch \notin Slots
  BY CapacityAssumption DEF TypeOK, Slots, Rows, Scratch
<1> HIDE DEF tensor
<1>5. CASE IsPrefill(so) /\ rows' = PrefillRows(so, b, tensor)
  <2>1. tensor[1] = s2[b[1]] /\ tensor[1] \in Slots /\ b[1] \in Req /\ b[1] \in InBatch(b)
    BY <1>1, <1>2, <1>3
  <2>2. AfterPrefill(so, b[1]) \in Contents
    BY <2>1, ContentsType
  <2>3. rows' = [rows EXCEPT ![tensor[1]] = AfterPrefill(so, b[1])]
    BY <1>5 DEF PrefillRows
  <2> QED
    BY <2>1, <2>2, <2>3, <1>4
<1>6. CASE /\ ~IsPrefill(so)
           /\ \E writer \in Writers(tensor) : rows' = DecodeRows(so, b, tensor, writer)
  <2>1. PICK writer \in Writers(tensor) : rows' = DecodeRows(so, b, tensor, writer)
    BY <1>6
  <2>2. /\ DOMAIN writer = {tensor[p] : p \in 1 .. width}
        /\ \A s \in DOMAIN writer : writer[s] \in 1 .. width /\ tensor[writer[s]] = s
    BY <1>3 DEF Writers
  <2>3. ASSUME NEW s \in Rows
        PROVE  /\ rows'[s] \in Contents
               /\ s \in Slots /\ (\A r \in InBatch(b) : s2[r] # s) => rows'[s] = rows[s]
    <3>1. rows'[s] = IF s \notin DOMAIN writer THEN rows[s]
                     ELSE IF writer[s] <= Len(b)
                          THEN AfterDecode(rows[s], so, b[writer[s]]) ELSE Junk
      BY <2>1 DEF DecodeRows
    <3>2. rows[s] \in Contents /\ Junk \in Contents
      BY <1>4, BoundAssumption DEF Junk, Contents
    <3>3. CASE s \notin DOMAIN writer
      BY <3>1, <3>2, <3>3
    <3>4. CASE s \in DOMAIN writer /\ writer[s] <= Len(b)
      <4>1. writer[s] \in 1 .. Len(b) /\ tensor[writer[s]] = s
        BY <2>2, <3>4, <1>1, <1>2
      <4>2. b[writer[s]] \in Req /\ b[writer[s]] \in InBatch(b) /\ s2[b[writer[s]]] = s
        BY <4>1, <1>1, <1>2, <1>3, <2>2, <3>4
      <4>3. AfterDecode(rows[s], so, b[writer[s]]) \in Contents
        BY <4>2, <3>2, ContentsType
      <4> QED
        BY <3>1, <3>4, <4>2, <4>3
    <3>5. CASE s \in DOMAIN writer /\ ~(writer[s] <= Len(b))
      <4>1. s = Scratch
        BY <2>2, <3>5, <1>1, <1>2, <1>3
      <4> QED
        BY <4>1, <3>1, <3>2, <3>5, <1>4
    <3> QED
      BY <3>3, <3>4, <3>5
  <2>4. rows' \in [Rows -> Contents]
    <3>1. rows' = [s \in Rows |-> rows'[s]]
      BY <2>1 DEF DecodeRows
    <3> QED
      BY <3>1, <2>3
  <2> QED
    BY <2>3, <2>4, <1>4
<1> QED
  BY <1>5, <1>6 DEF Forward, tensor

(* Releasing keeps the map well-typed and injective; what is left of it is *)
(* what was there.                                                         *)
LEMMA ReleaseKeepsSlotsDistinct ==
  ASSUME TypeOK, SlotsDistinct, NEW so \in SchedulerOutput
  PROVE  /\ Released(slotByReq, so) \in [Req -> Slots \cup {NoSlot}]
         /\ \A r1, r2 \in Req :
              /\ Released(slotByReq, so)[r1] = Released(slotByReq, so)[r2]
              /\ Released(slotByReq, so)[r1] # NoSlot
              => r1 = r2
         /\ \A r \in Req : Released(slotByReq, so)[r] \in {NoSlot, slotByReq[r]}
BY DEF Released, TypeOK, SlotsDistinct

(* First-fit acquisition of a whole batch from an injective map: distinct  *)
(* requests end with distinct slots, those that had one keep it.           *)
LEMMA AcquireKeepsSlotsDistinct ==
  ASSUME NEW so \in SchedulerOutput,
         NEW b \in [1 .. Cardinality(Scheduled(so)) -> Scheduled(so)],
         NEW slots \in [Req -> Slots \cup {NoSlot}],
         NEW s2 \in [Req -> Slots \cup {NoSlot}],
         \A r1, r2 \in Req : slots[r1] = slots[r2] /\ slots[r1] # NoSlot => r1 = r2,
         Acquired(slots, b, s2)
  PROVE  /\ \A r1, r2 \in Req : s2[r1] = s2[r2] /\ s2[r1] # NoSlot => r1 = r2
         /\ \A r \in Req : slots[r] # NoSlot => s2[r] = slots[r]
         /\ \A r \in Req \ InBatch(b) : s2[r] = slots[r]
<1>1. /\ Len(b) \in Nat
      /\ DOMAIN b = 1 .. Len(b)
      /\ \A p \in 1 .. Len(b) : b[p] \in Req /\ b[p] \in InBatch(b)
  BY BatchIsSequence DEF InBatch
<1>2. \A r \in Req : (r \notin InBatch(b) \/ slots[r] # NoSlot) => s2[r] = slots[r]
  BY DEF Acquired
(* A newcomer's slot was not in use and no earlier row's.                  *)
<1>3. ASSUME NEW p \in 1 .. Len(b), slots[b[p]] = NoSlot, s2[b[p]] # NoSlot
      PROVE  /\ s2[b[p]] \notin InUse(slots)
             /\ \A q \in 1 .. p - 1 : s2[b[p]] # s2[b[q]]
  <2>1. s2[b[p]] \in Available(slots, b, s2, p)
    BY <1>1, <1>3 DEF Acquired
  <2> QED
    BY <2>1 DEF Available
<1>4. ASSUME NEW r \in Req, slots[r] = NoSlot, s2[r] # NoSlot
      PROVE  \E p \in 1 .. Len(b) : b[p] = r
  BY <1>1, <1>2, <1>4 DEF InBatch
<1>5. ASSUME NEW r1 \in Req, NEW r2 \in Req, s2[r1] = s2[r2], s2[r1] # NoSlot
      PROVE  r1 = r2
  <2>1. CASE slots[r1] # NoSlot /\ slots[r2] # NoSlot
    BY <1>2, <1>5, <2>1
  <2>2. CASE slots[r1] = NoSlot /\ slots[r2] # NoSlot
    <3>1. s2[r2] \in InUse(slots)
      BY <1>2, <2>2 DEF InUse
    <3> QED
      BY <3>1, <1>3, <1>4, <1>5, <2>2
  <2>3. CASE slots[r1] # NoSlot /\ slots[r2] = NoSlot
    <3>1. s2[r1] \in InUse(slots)
      BY <1>2, <2>3 DEF InUse
    <3> QED
      BY <3>1, <1>3, <1>4, <1>5, <2>3
  <2>4. CASE slots[r1] = NoSlot /\ slots[r2] = NoSlot
    <3>1. PICK p \in 1 .. Len(b) : b[p] = r1
      BY <1>4, <1>5, <2>4
    <3>2. PICK q \in 1 .. Len(b) : b[q] = r2
      BY <1>4, <1>5, <2>4
    <3>3. ~(p < q) /\ ~(q < p)
      BY <1>1, <1>3, <1>5, <2>4, <3>1, <3>2
    <3> QED
      BY <1>1, <3>1, <3>2, <3>3
  <2> QED
    BY <2>1, <2>2, <2>3, <2>4
<1> QED
  BY <1>2, <1>5

-----------------------------------------------------------------------------
(* The invariant, one step at a time. *)

LEMMA InitSlotsInv == Init => SlotsInv
<1> SUFFICES ASSUME Init PROVE SlotsInv
  OBVIOUS
<1>1. Zeroed \in Contents /\ Absent \in [gen : 0 .. MaxGen, fed : 0 .. MaxLen]
  BY BoundAssumption DEF Zeroed, Contents, Absent
<1>2. TypeOK
  BY <1>1 DEF Init, TypeOK
<1> QED
  BY <1>2 DEF Init, SlotsInv, SlotsDistinct

(* Whatever the scheduler asks for, a step of the runner keeps the         *)
(* invariant and the rows of requests outside its batch.                   *)
LEMMA ExecuteModelStep ==
  ASSUME SlotsInv, NEW so \in SchedulerOutput, ExecuteModel(so)
  PROVE  SlotsInv' /\ KeepsParkedRows
<1>1. TypeOK /\ SlotsDistinct
  BY DEF SlotsInv
<1>2. PICK b \in [1 .. Cardinality(Scheduled(so)) -> Scheduled(so)],
           s2 \in [Req -> Slots \cup {NoSlot}] :
        /\ phase = "serving"
        /\ requests' = RequestsAfter(so)
        /\ Arrangement(b, Scheduled(so))
        /\ batch' = b
        /\ Acquired(Released(slotByReq, so), b, s2)
        /\ slotByReq' = s2
        /\ \/ /\ Scheduled(so) = {}
              /\ UNCHANGED <<phase, rows>>
           \/ /\ Scheduled(so) # {}
              /\ Exhausted(b, s2)
              /\ phase' = "failed"
              /\ UNCHANGED rows
           \/ /\ Scheduled(so) # {}
              /\ ~Exhausted(b, s2)
              /\ UNCHANGED phase
              /\ \E width \in Len(b) .. Capacity :
                   Forward(so, b, StateSlotsTensor(b, s2, width))
  BY DEF ExecuteModel
<1> DEFINE slots == Released(slotByReq, so)
<1>3. /\ slots \in [Req -> Slots \cup {NoSlot}]
      /\ \A r1, r2 \in Req : slots[r1] = slots[r2] /\ slots[r1] # NoSlot => r1 = r2
      /\ \A r \in Req : slots[r] \in {NoSlot, slotByReq[r]}
  BY <1>1, ReleaseKeepsSlotsDistinct
<1> HIDE DEF slots
<1>4. /\ \A r1, r2 \in Req : s2[r1] = s2[r2] /\ s2[r1] # NoSlot => r1 = r2
      /\ \A r \in Req \ InBatch(b) : s2[r] = slots[r]
  BY <1>2, <1>3, AcquireKeepsSlotsDistinct DEF slots
<1>5. phase' \in {"serving", "failed"}
  BY <1>2
<1>6. SlotsDistinct'
  BY <1>2, <1>4 DEF SlotsDistinct
<1>7. /\ rows' \in [Rows -> Contents]
      /\ \A s \in Slots : (\A r \in InBatch(b) : s2[r] # s) => rows'[s] = rows[s]
  <2>1. CASE UNCHANGED rows
    BY <1>1, <2>1 DEF TypeOK
  <2>2. CASE /\ Scheduled(so) # {}
             /\ ~Exhausted(b, s2)
             /\ \E width \in Len(b) .. Capacity :
                  Forward(so, b, StateSlotsTensor(b, s2, width))
    <3>1. PICK width \in Len(b) .. Capacity :
                 Forward(so, b, StateSlotsTensor(b, s2, width))
      BY <2>2
    <3>2. InBatch(b) = Scheduled(so)
      BY <1>2 DEF Arrangement
    <3> QED
      BY <1>1, <2>2, <3>1, <3>2, ForwardWritesOwnRows
  <2> QED
    BY <1>2, <2>1, <2>2
<1>8. TypeOK'
  <2>1. batch' \in Seq(Req)
    BY <1>2, BatchIsSequence
  <2>2. requests' \in [Req -> [gen : 0 .. MaxGen, fed : 0 .. MaxLen]]
    <3>1. CASE Req = {}
      BY <1>2, <3>1 DEF RequestsAfter
    <3>2. CASE Req # {}
      BY <1>1, <1>2, <3>2, ContentsType
    <3> QED
      BY <3>1, <3>2
  <2> QED
    BY <1>2, <1>5, <1>7, <2>1, <2>2 DEF TypeOK
<1>9. KeepsParkedRows
  <2> SUFFICES ASSUME NEW r \in Req, slotByReq[r] # NoSlot,
                      slotByReq'[r] = slotByReq[r], r \notin InBatch(batch')
               PROVE  rows'[slotByReq[r]] = rows[slotByReq[r]]
    BY DEF KeepsParkedRows
  <2>1. slotByReq[r] \in Slots
    BY <1>1 DEF TypeOK
  <2>2. \A q \in InBatch(b) : q \in Req /\ q # r
    BY <1>2, BatchIsSequence DEF InBatch
  <2>3. \A q \in InBatch(b) : s2[q] # slotByReq[r]
    BY <1>2, <1>4, <2>2
  <2> QED
    BY <1>7, <2>1, <2>3
<1> QED
  BY <1>5, <1>6, <1>8, <1>9 DEF SlotsInv

(* A synthetic batch changes only the rows its tensor names.               *)
LEMMA JunkRowsType ==
  ASSUME TypeOK, NEW tensor
  PROVE  /\ JunkRows(tensor) \in [Rows -> Contents]
         /\ \A s \in Rows : (\A p \in DOMAIN tensor : tensor[p] # s)
                            => JunkRows(tensor)[s] = rows[s]
BY BoundAssumption DEF JunkRows, TypeOK, Junk, Contents

(* The dummy batch of an idle rank writes the scratch row alone.           *)
LEMMA ExecuteDummyBatchStep ==
  ASSUME SlotsInv, ExecuteDummyBatch
  PROVE  SlotsInv' /\ KeepsParkedRows
<1>1. PICK width \in 1 .. Capacity : rows' = JunkRows(DummyTensor(width))
  BY DEF ExecuteDummyBatch
<1>2. TypeOK /\ phase = "serving" /\ UNCHANGED <<phase, slotByReq, requests, batch>>
  BY DEF SlotsInv, ExecuteDummyBatch
<1>3. rows' \in [Rows -> Contents]
  BY <1>1, <1>2, JunkRowsType
<1>4. \A s \in Slots : s \in Rows /\ rows'[s] = rows[s]
  BY <1>1, <1>2, JunkRowsType, CapacityAssumption
     DEF DummyTensor, Slots, Rows, Scratch
<1>5. TypeOK'
  BY <1>2, <1>3 DEF TypeOK
<1>6. KeepsParkedRows
  BY <1>2, <1>4 DEF KeepsParkedRows, TypeOK
<1> QED
  BY <1>2, <1>5, <1>6 DEF SlotsInv, SlotsDistinct

(* Before serving no request holds a slot, so no row can be taken from one.*)
LEMMA StartupStep ==
  ASSUME SlotsInv, Warmup \/ ResetState
  PROVE  SlotsInv' /\ KeepsParkedRows
<1>1. TypeOK /\ \A r \in Req : slotByReq[r] = NoSlot
  BY DEF SlotsInv, Warmup, ResetState
<1>2. KeepsParkedRows
  BY <1>1 DEF KeepsParkedRows
<1>3. CASE Warmup
  <2>1. PICK width \in 1 .. Capacity : rows' = JunkRows(WarmupTensor(width))
    BY <1>3 DEF Warmup
  <2>2. rows' \in [Rows -> Contents]
    BY <1>1, <2>1, JunkRowsType
  <2> QED
    BY <1>1, <1>2, <1>3, <2>2 DEF Warmup, SlotsInv, TypeOK, SlotsDistinct
<1>4. CASE ResetState
  <2>1. Absent \in [gen : 0 .. MaxGen, fed : 0 .. MaxLen]
    BY BoundAssumption DEF Absent
  <2>2. TypeOK'
    BY <1>1, <1>4, <2>1 DEF ResetState, TypeOK
  <2> QED
    BY <1>2, <1>4, <2>2 DEF ResetState, SlotsInv, SlotsDistinct
<1> QED
  BY <1>3, <1>4

LEMMA NextStep ==
  ASSUME SlotsInv, [Next]_runnerVars
  PROVE  SlotsInv' /\ [KeepsParkedRows]_runnerVars
<1>1. CASE UNCHANGED runnerVars
  BY <1>1 DEF runnerVars, SlotsInv, TypeOK, SlotsDistinct
<1>2. CASE Next
  BY <1>2, ExecuteModelStep, ExecuteDummyBatchStep, StartupStep DEF Next
<1> QED
  BY <1>1, <1>2

(* Under any scheduler at all, no two requests share a state row and no    *)
(* request is given the scratch row (_acquire_state_slot).                 *)
THEOREM AnySchedulerSlotsDistinct == Spec => [](TypeOK /\ SlotsDistinct)
<1>1. SlotsInv => TypeOK /\ SlotsDistinct
  BY DEF SlotsInv
<1> QED
  BY <1>1, InitSlotsInv, NextStep, PTL DEF Spec

(* Under any scheduler at all, a step leaves the state rows of requests    *)
(* outside its batch as they were.                                         *)
THEOREM AnySchedulerParkedRowsKept == Spec => ParkedRowsKept
<1>1. Spec => []SlotsInv
  BY InitSlotsInv, NextStep, PTL DEF Spec
<1> QED
  BY <1>1, NextStep, PTL DEF Spec, ParkedRowsKept
=============================================================================
