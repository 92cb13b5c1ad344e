------------------------- MODULE DPLockstep_proofs --------------------------
(***************************************************************************)
(* Proofs about DPLockstep, for any number of ranks, any buckets and any   *)
(* number of drafts: ranks that were told the same dispatch the same.      *)
(***************************************************************************)
EXTENDS DPLockstep, SequenceTheorems, WellFoundedInduction, TLAPS

IsSmallest(b, S) == b \in S /\ \A k \in S : b <= k
IsLargest(m, S) == m \in S /\ \A k \in S : k <= m

-----------------------------------------------------------------------------
(* Smallest and largest members. *)

LEMMA HasSmallest ==
  ASSUME NEW S \in SUBSET Nat, S # {}
  PROVE  \E b \in S : \A k \in S : b <= k
<1>1. PICK b \in S : \A k \in S : ~ (<<k, b>> \in OpToRel(<, Nat))
  BY NatLessThanWellFounded, WFMin
<1>2. \A k \in S : ~ (k < b)
  BY <1>1 DEF OpToRel
<1> QED
  BY <1>2

LEMMA SmallestIs ==
  ASSUME NEW S \in SUBSET Nat, S # {}
  PROVE  IsSmallest(Smallest(S), S)
BY HasSmallest DEF Smallest, IsSmallest

LEMMA HasLargest ==
  ASSUME NEW S \in SUBSET Nat, S # {}, NEW bound \in Nat, \A k \in S : k <= bound
  PROVE  \E m \in S : \A k \in S : k <= m
<1> DEFINE T == {n \in Nat : \E k \in S : n = bound - k}
<1>1. T \in SUBSET Nat /\ T # {}
  <2>1. PICK k \in S : TRUE
    OBVIOUS
  <2>2. bound - k \in T
    BY DEF T
  <2> QED
    BY <2>2
<1>2. PICK n \in T : \A j \in T : n <= j
  BY <1>1, HasSmallest
<1>3. PICK m \in S : n = bound - m
  BY <1>2 DEF T
<1>4. \A k \in S : bound - k \in T
  BY DEF T
<1> QED
  BY <1>2, <1>3, <1>4

LEMMA LargestIs ==
  ASSUME NEW S \in SUBSET Nat, S # {}, NEW bound \in Nat, \A k \in S : k <= bound
  PROVE  IsLargest(MaxOf(S), S)
BY HasLargest DEF MaxOf, IsLargest

-----------------------------------------------------------------------------
(* The vote of a rank, and the agreement. *)

LEMMA ConstantsAre ==
  /\ \A b \in SeqBuckets : b \in Nat /\ b > 0
  /\ \A b \in CtxBuckets : b \in Nat
  /\ \A c \in CtxLens : c \in Nat /\ c + 1 + NumSpec <= MaxModelLen
  /\ MaxReqs \in Nat /\ MaxReqs > 0 /\ MaxModelLen \in Nat /\ NumSpec \in Nat
  /\ \E b \in SeqBuckets : MaxReqs <= b
<1>1. \A b \in SeqBuckets : b \in Nat /\ b > 0
  <2>1. SeqBuckets \subseteq Nat \ {0}
    BY BucketsAssumption
  <2> QED
    BY <2>1
<1>2. \A b \in CtxBuckets : b \in Nat
  BY BucketsAssumption
<1>3. \A c \in CtxLens : c \in Nat
  BY CtxAssumption
<1> QED
  BY <1>1, <1>2, <1>3, BucketsAssumption, CtxAssumption

LEMMA WorkIs ==
  ASSUME NEW w \in Work
  PROVE  /\ w.busy \in BOOLEAN /\ w.drafts \in Drafts
         /\ w.ctx \in CtxLens \cup {0}
         /\ w.busy => w.reqs \in 1 .. MaxReqs /\ w.ctx \in CtxLens
         /\ ~ w.busy => w.ctx = 0 /\ w.drafts = "none"
         /\ NumSpec = 0 => w.drafts = "none"
<1>1. CASE w = Idle
  BY <1>1 DEF Idle, Drafts
<1>2. CASE w # Idle
  <2>1. /\ w \in [busy : {TRUE}, reqs : 1 .. MaxReqs, ctx : CtxLens, drafts : Drafts]
        /\ NumSpec = 0 => w.drafts = "none"
    BY <1>2 DEF Work
  <2> QED
    BY <2>1
<1> QED
  BY <1>1, <1>2

LEMMA BucketIs ==
  ASSUME NEW n \in 0 .. MaxReqs
  PROVE  IsSmallest(BucketFor(n, SeqBuckets), {b \in SeqBuckets : n <= b})
<1>1. PICK b \in SeqBuckets : MaxReqs <= b
  BY ConstantsAre
<1>2. b \in {c \in SeqBuckets : n <= c}
  BY <1>1, ConstantsAre
<1> QED
  BY <1>2, ConstantsAre, SmallestIs DEF BucketFor

LEMMA WidthIs ==
  ASSUME NEW w \in Work
  PROVE  Width(w) \in SeqBuckets /\ Width(w) <= BucketFor(MaxReqs, SeqBuckets)
<1> DEFINE top == BucketFor(MaxReqs, SeqBuckets)
<1>1. top \in SeqBuckets /\ MaxReqs <= top
  BY BucketIs, ConstantsAre DEF IsSmallest
<1>2. CASE w.busy
  <2>1. w.reqs \in 1 .. MaxReqs /\ w.reqs \in 0 .. MaxReqs
    BY <1>2, WorkIs
  <2>2. Width(w) = BucketFor(w.reqs, SeqBuckets)
    BY <1>2 DEF Width
  <2>3. IsSmallest(Width(w), {b \in SeqBuckets : w.reqs <= b})
    BY <2>1, <2>2, BucketIs
  <2>4. top \in {b \in SeqBuckets : w.reqs <= b}
    BY <1>1, <2>1, ConstantsAre
  <2> QED
    BY <2>3, <2>4 DEF IsSmallest
<1>3. CASE ~ w.busy
  BY <1>1, <1>3, SmallestIs, ConstantsAre DEF Width, IsSmallest
<1> QED
  BY <1>2, <1>3

LEMMA ReducedIs ==
  ASSUME work \in [Ranks -> Work]
  PROVE  /\ Reduced \in Votes
         /\ Reduced.width \in SeqBuckets
         /\ \A r \in Ranks : work[r].busy => Reduced.ctx \in CtxLens
         /\ Reduced.spec <=> \E r \in Ranks : work[r].drafts # "none"
         /\ Reduced.force <=> \E r \in Ranks : ForcesNonspec(work[r])
<1> DEFINE votes == {Vote(work[r]) : r \in Ranks}
           widths == {v.width : v \in votes}
           ctxs == {v.ctx : v \in votes}
<1>0. ASSUME NEW r \in Ranks
      PROVE  /\ Vote(work[r]).width = Width(work[r]) /\ Vote(work[r]).ctx = work[r].ctx
             /\ Vote(work[r]).spec = (work[r].drafts # "none")
             /\ Vote(work[r]).force = ForcesNonspec(work[r])
  BY DEF Vote
<1>1. /\ widths = {Width(work[r]) : r \in Ranks}
      /\ ctxs = {work[r].ctx : r \in Ranks}
  BY <1>0
<1>2. \A r \in Ranks : work[r] \in Work
  OBVIOUS
<1>3. IsLargest(MaxOf(widths), widths)
  <2>1. widths \in SUBSET Nat /\ widths # {}
    BY <1>1, <1>2, WidthIs, ConstantsAre, RanksAssumption
  <2>2. BucketFor(MaxReqs, SeqBuckets) \in Nat
    BY BucketIs, ConstantsAre DEF IsSmallest
  <2>3. \A k \in widths : k <= BucketFor(MaxReqs, SeqBuckets)
    BY <1>1, <1>2, WidthIs
  <2> QED
    BY <2>1, <2>2, <2>3, LargestIs
<1>4. \A r \in Ranks : work[r].ctx \in CtxLens \cup {0} /\ (work[r].busy => work[r].ctx \in CtxLens)
  BY <1>2, WorkIs, ConstantsAre
<1>5. IsLargest(MaxOf(ctxs), ctxs)
  <2>1. ctxs \in SUBSET Nat /\ ctxs # {}
    <3>1. \A r \in Ranks : work[r].ctx \in Nat
      BY <1>4, ConstantsAre
    <3>2. PICK r \in Ranks : TRUE
      BY RanksAssumption
    <3>3. ctxs = {work[s].ctx : s \in Ranks}
      BY <1>1
    <3> HIDE DEF ctxs
    <3> QED
      BY <3>1, <3>2, <3>3
  <2>a. \A k \in CtxLens \cup {0} : k <= MaxModelLen
    BY ConstantsAre
  <2>2. \A k \in ctxs : k <= MaxModelLen
    BY <1>1, <1>4, <2>a
  <2> QED
    BY <2>1, <2>2, LargestIs, ConstantsAre
<1>6. Reduced.width \in SeqBuckets
  BY <1>1, <1>2, <1>3, WidthIs DEF Reduced, IsLargest
<1>7. Reduced.ctx \in CtxLens \cup {0} /\ \A r \in Ranks : work[r].ctx <= Reduced.ctx
  BY <1>1, <1>4, <1>5 DEF Reduced, IsLargest
<1>8. ASSUME NEW r \in Ranks, work[r].busy
      PROVE  Reduced.ctx \in CtxLens
  <2>1. CASE Reduced.ctx = 0
    <3>1. work[r].ctx \in CtxLens /\ work[r].ctx <= 0
      BY <1>4, <1>7, <1>8, <2>1
    <3>2. work[r].ctx = 0
      BY <3>1, ConstantsAre
    <3> QED
      BY <2>1, <3>1, <3>2
  <2> QED
    BY <1>7, <2>1
<1>9. /\ Reduced.spec <=> \E r \in Ranks : work[r].drafts # "none"
      /\ Reduced.force <=> \E r \in Ranks : ForcesNonspec(work[r])
  <2>1. /\ Reduced.spec = (\E v \in votes : v.spec)
        /\ Reduced.force = (\E v \in votes : v.force)
    BY DEF Reduced
  <2> HIDE DEF votes
  <2>2. \A v \in votes : \E r \in Ranks : v = Vote(work[r])
    BY DEF votes
  <2>3. \A r \in Ranks : Vote(work[r]) \in votes
    BY DEF votes
  <2> QED
    BY <1>0, <2>1, <2>2, <2>3
<1>10. Reduced \in Votes
  BY <1>6, <1>7 DEF Reduced, Votes
<1> QED
  BY <1>6, <1>8, <1>9, <1>10

(* What a rank dispatches, from its work and the agreement. *)
NeffFrom(w, a) == IF w.busy THEN BusyNeff(w, a) ELSE DummyNeff(a)
ForwardFrom(w, a) == [neff |-> NeffFrom(w, a), busy |-> w.busy, ctx |-> a.ctx]

LEMMA CtxBucketIs ==
  ASSUME NEW ctx \in CtxLens, NEW drafts \in {0, NumSpec}
  PROVE  CtxBucket(ctx, drafts) \in CtxBuckets \cup {MaxModelLen}
<1>1. ctx + 1 + drafts <= MaxModelLen
  BY ConstantsAre
<1>2. MaxModelLen \in {b \in CtxBuckets \cup {MaxModelLen} : ctx + 1 + drafts <= b}
  BY <1>1
<1> QED
  BY <1>2, ConstantsAre, SmallestIs DEF CtxBucket, BucketFor, IsSmallest

(* Busy or idle, the graphs that come of one agreement match. *)
LEMMA SameForward ==
  ASSUME work \in [Ranks -> Work]
  PROVE  /\ \A r \in Ranks : ForwardFrom(work[r], Reduced) \in Forwards
         /\ \A r, s \in Ranks :
              Match(ForwardFrom(work[r], Reduced), ForwardFrom(work[s], Reduced))
<1> DEFINE a == Reduced
           spec == a.spec /\ ~ a.force
           bucket == CtxBucket(a.ctx, IF spec THEN NumSpec ELSE 0)
           Graph(ctx) == [width |-> a.width, spec |-> spec, ctx |-> ctx]
<1>1. /\ a \in Votes /\ a.width \in SeqBuckets
      /\ \A r \in Ranks : work[r].busy => a.ctx \in CtxLens
      /\ a.spec <=> \E r \in Ranks : work[r].drafts # "none"
      /\ a.force <=> \E r \in Ranks : ForcesNonspec(work[r])
  BY ReducedIs
<1>2. ASSUME NEW r \in Ranks, work[r].busy
      PROVE  NeffFrom(work[r], a) = Graph(bucket)
  <2>1. Stripped(work[r], a) # "none" <=> spec
    <3>1. CASE NumSpec = 0
      BY <1>1, <3>1, WorkIs DEF Stripped, ForcesNonspec
    <3>2. CASE NumSpec > 0
      BY <1>1, <1>2, <3>2, WorkIs DEF Stripped, ForcesNonspec, Drafts
    <3> QED
      BY <3>1, <3>2, ConstantsAre
  <2>2. Width(work[r]) + (a.width - Width(work[r])) = a.width
    BY <1>1, WidthIs, ConstantsAre
  <2> QED
    BY <1>2, <2>1, <2>2 DEF NeffFrom, BusyNeff
<1>3. ASSUME NEW r \in Ranks, ~ work[r].busy
      PROVE  NeffFrom(work[r], a) = Graph(IF a.ctx > 0 THEN bucket ELSE MaxModelLen)
  BY <1>3 DEF NeffFrom, DummyNeff
<1>4. a.ctx \in CtxLens \cup {0} /\ spec \in BOOLEAN
  BY <1>1 DEF Votes
<1>5. /\ a.ctx \in CtxLens => Graph(bucket) \in Neffs
      /\ Graph(MaxModelLen) \in Neffs
  <2>1. a.ctx \in CtxLens => bucket \in CtxBuckets \cup {MaxModelLen}
    BY CtxBucketIs, ConstantsAre
  <2> QED
    BY <1>1, <1>4, <2>1 DEF Neffs
<1>6. ASSUME NEW r \in Ranks
      PROVE  NeffFrom(work[r], a) \in Neffs
  <2>1. CASE work[r].busy
    BY <1>1, <1>2, <1>5, <2>1
  <2>2. CASE ~ work[r].busy /\ a.ctx > 0
    BY <1>3, <1>4, <1>5, <2>2
  <2>3. CASE ~ work[r].busy /\ ~ (a.ctx > 0)
    BY <1>3, <1>5, <2>3
  <2> QED
    BY <2>1, <2>2, <2>3
<1>7. \A r \in Ranks : ForwardFrom(work[r], a) \in Forwards
  <2>1. \A r \in Ranks : work[r].busy \in BOOLEAN
    BY WorkIs
  <2> HIDE DEF a
  <2> QED
    BY <1>4, <1>6, <2>1 DEF ForwardFrom, Forwards
<1>8. ASSUME NEW r \in Ranks, NEW s \in Ranks
      PROVE  Match(ForwardFrom(work[r], a), ForwardFrom(work[s], a))
  <2>1. /\ NeffFrom(work[r], a).width = a.width /\ NeffFrom(work[r], a).spec = spec
        /\ NeffFrom(work[s], a).width = a.width /\ NeffFrom(work[s], a).spec = spec
    BY <1>2, <1>3
  <2>2. work[r].busy \in BOOLEAN /\ work[s].busy \in BOOLEAN
    BY WorkIs
  <2>3. CASE work[r].busy = work[s].busy \/ a.ctx > 0
    <3>1. NeffFrom(work[r], a) = NeffFrom(work[s], a)
      BY <1>2, <1>3, <2>2, <2>3
    <3> QED
      BY <2>1, <3>1 DEF Match, ForwardFrom
  <2>4. CASE ~ (work[r].busy = work[s].busy \/ a.ctx > 0)
    BY <2>1, <2>4 DEF Match, ForwardFrom
  <2> QED
    BY <2>3, <2>4
<1> QED
  BY <1>7, <1>8

-----------------------------------------------------------------------------
(* The steps of the ranks. *)

(* A rank that knows the agreement and has not dispatched. *)
Pending(r) == pc[r] \in {"prepared", "ready"}

(* The round a rank is in, counted from the oldest forward under way. *)
Round(r) == Len(forwards[r]) + (IF Pending(r) THEN 1 ELSE 0)

SameRound == \A r, s \in Ranks : Round(r) = Round(s)

(* What a rank is about to dispatch is what its peers are about to, or     *)
(* have dispatched last.                                                   *)
SameAhead ==
  \A r \in Ranks : Pending(r) =>
    /\ Dispatched(r) \in Forwards
    /\ \A s \in Ranks : Match(IF Pending(s) THEN Dispatched(s)
                              ELSE forwards[s][Len(forwards[s])], Dispatched(r))

IInv == TypeOK /\ SameRound /\ SameAhead /\ SameGraphs

LEMMA RoundIs ==
  ASSUME TypeOK, NEW r \in Ranks
  PROVE  /\ Len(forwards[r]) \in Nat
         /\ Pending(r) => Round(r) = Len(forwards[r]) + 1
         /\ ~ Pending(r) => Round(r) = Len(forwards[r])
<1>1. forwards[r] \in Seq(Forwards)
  BY DEF TypeOK
<1>2. Len(forwards[r]) \in Nat
  BY <1>1
<1>3. Round(r) = Len(forwards[r]) + (IF Pending(r) THEN 1 ELSE 0)
  BY DEF Round
<1>4. CASE Pending(r)
  BY <1>2, <1>3, <1>4
<1>5. CASE ~ Pending(r)
  <2>1. Round(r) = Len(forwards[r]) + 0
    BY <1>3, <1>5
  <2> QED
    BY <1>2, <1>5, <2>1
<1> QED
  BY <1>4, <1>5

LEMMA EqualRounds ==
  ASSUME IInv, NEW r \in Ranks, NEW s \in Ranks
  PROVE  Round(r) = Round(s)
BY DEF IInv, SameRound

LEMMA InitIInv == Init => IInv
<1> SUFFICES ASSUME Init PROVE IInv
  OBVIOUS
<1>1. Idle \in Work
  BY DEF Work
<1>2. NoVote \in Votes
  BY DEF NoVote, Votes
<1>3. TypeOK
  BY <1>1, <1>2, AheadAssumption DEF Init, TypeOK
<1> QED
  BY <1>3 DEF Init, IInv, SameRound, Round, Pending, SameAhead, SameGraphs

LEMMA StartStep ==
  ASSUME IInv, NEW r \in Ranks, Start(r)
  PROVE  IInv'
<1>1. TypeOK'
  BY DEF IInv, TypeOK, Start
<1>2. \A s \in Ranks : Pending(s)' = Pending(s)
  BY DEF IInv, TypeOK, Start, Pending
<1>3. \A s \in Ranks : Pending(s) => work'[s] = work[s] /\ agreed'[s] = agreed[s]
  BY DEF IInv, TypeOK, Start, Pending
<1>4. \A s \in Ranks : Pending(s) => Dispatched(s)' = Dispatched(s)
  BY <1>3 DEF Dispatched, Neff
<1>5. forwards' = forwards
  BY DEF Start
<1> QED
  BY <1>1, <1>2, <1>4, <1>5 DEF IInv, SameRound, Round, SameAhead, SameGraphs

LEMMA ReprepStep ==
  ASSUME IInv, NEW r \in Ranks, Reprep(r)
  PROVE  IInv'
<1>1. TypeOK'
  BY DEF IInv, TypeOK, Reprep
<1>2. \A s \in Ranks : Pending(s)' = Pending(s) /\ Dispatched(s)' = Dispatched(s)
  BY DEF IInv, TypeOK, Reprep, Pending, Dispatched, Neff
<1>3. forwards' = forwards
  BY DEF Reprep
<1> QED
  BY <1>1, <1>2, <1>3 DEF IInv, SameRound, Round, SameAhead, SameGraphs

LEMMA ReturnStep ==
  ASSUME IInv, NEW r \in Ranks, Return(r)
  PROVE  IInv'
<1>1. TypeOK'
  BY DEF IInv, TypeOK, Return
<1>2. \A s \in Ranks : Pending(s)' = Pending(s) /\ Dispatched(s)' = Dispatched(s)
  BY DEF IInv, TypeOK, Return, Pending, Dispatched, Neff
<1>3. forwards' = forwards
  BY DEF Return
<1> QED
  BY <1>1, <1>2, <1>3 DEF IInv, SameRound, Round, SameAhead, SameGraphs

(* After the reduce every rank is told the same. *)
LEMMA ReduceStep ==
  ASSUME IInv, Reduce
  PROVE  IInv'
<1>1. work \in [Ranks -> Work] /\ Reduced \in Votes
  BY ReducedIs DEF IInv, TypeOK
<1>2. TypeOK'
  BY <1>1 DEF IInv, TypeOK, Reduce
<1>3. \A s \in Ranks : Pending(s)' /\ ~ Pending(s)
  BY DEF Reduce, Pending
<1>4. \A s \in Ranks : Dispatched(s)' = ForwardFrom(work[s], Reduced)
  BY DEF Reduce, Dispatched, ForwardFrom, Neff, NeffFrom
<1>5. SameAhead'
  BY <1>1, <1>3, <1>4, SameForward DEF SameAhead
<1>6. forwards' = forwards
  BY DEF Reduce
<1>7. SameGraphs'
  BY <1>6 DEF IInv, SameGraphs
<1>8. \A s \in Ranks : Round(s) = Len(forwards[s])
  BY <1>3, RoundIs DEF IInv
<1>9. \A s \in Ranks : Round(s)' = Len(forwards[s]) + 1
  BY <1>2, <1>3, <1>6, RoundIs DEF Round
<1>10. SameRound'
  BY <1>8, <1>9, EqualRounds DEF SameRound
<1> QED
  BY <1>2, <1>5, <1>7, <1>10 DEF IInv

LEMMA MatchIs ==
  ASSUME NEW f, NEW g
  PROVE  Match(f, f) /\ (Match(f, g) => Match(g, f))
BY DEF Match

(* A rank dispatches what its peers dispatched, or will. *)
LEMMA DispatchStep ==
  ASSUME IInv, NEW r \in Ranks, Dispatch(r)
  PROVE  IInv'
<1>0. /\ \A s \in Ranks : forwards[s] \in Seq(Forwards) /\ Len(forwards[s]) \in Nat
      /\ Pending(r) /\ Dispatched(r) \in Forwards
  BY DEF IInv, TypeOK, Dispatch, Pending, SameAhead
<1>1. /\ forwards'[r] = Append(forwards[r], Dispatched(r))
      /\ \A s \in Ranks : s # r => forwards'[s] = forwards[s]
  BY DEF IInv, TypeOK, Dispatch
<1>2. /\ Len(forwards'[r]) = Len(forwards[r]) + 1
      /\ forwards'[r][Len(forwards'[r])] = Dispatched(r)
      /\ \A k \in 1 .. Len(forwards[r]) : forwards'[r][k] = forwards[r][k]
  BY <1>0, <1>1
<1>3. TypeOK'
  <2>1. forwards' \in [Ranks -> Seq(Forwards)]
    <3>1. Append(forwards[r], Dispatched(r)) \in Seq(Forwards)
      BY <1>0
    <3> QED
      BY <3>1 DEF IInv, TypeOK, Dispatch
  <2>2. \A s \in Ranks : Len(forwards'[s]) <= Ahead
    <3>1. Len(forwards[r]) + 1 <= Ahead
      BY <1>0, AheadAssumption DEF Dispatch
    <3> QED
      BY <1>1, <1>2, <3>1 DEF IInv, TypeOK
  <2>3. pc' \in [Ranks -> {"start", "reduce", "prepared", "ready", "wait"}]
    BY DEF IInv, TypeOK, Dispatch
  <2> QED
    BY <2>1, <2>2, <2>3 DEF IInv, TypeOK, Dispatch
<1>4. /\ ~ Pending(r)'
      /\ \A s \in Ranks : s # r => Pending(s)' = Pending(s)
      /\ \A s \in Ranks : Dispatched(s)' = Dispatched(s)
  BY DEF IInv, TypeOK, Dispatch, Pending, Dispatched, Neff
<1>5. ASSUME NEW s \in Ranks
      PROVE  Round(s)' = Round(s)
  <2>1. CASE s = r
    <3>1. Round(r) = Len(forwards[r]) + 1
      BY <1>0, RoundIs DEF IInv
    <3>2. Round(r)' = Len(forwards'[r]) + 0
      BY <1>4 DEF Round
    <3> QED
      BY <1>0, <1>2, <2>1, <3>1, <3>2
  <2>2. CASE s # r
    BY <1>1, <1>4, <2>2 DEF Round
  <2> QED
    BY <2>1, <2>2
<1>6. SameRound'
  BY <1>5 DEF IInv, SameRound
<1>7. SameAhead'
  BY <1>0, <1>1, <1>2, <1>4 DEF IInv, SameAhead
<1>8. ASSUME NEW s \in Ranks, s # r, NEW k \in DOMAIN forwards'[r] \cap DOMAIN forwards'[s]
      PROVE  Match(forwards'[s][k], forwards'[r][k])
  <2>1. k \in 1 .. Len(forwards[r]) + 1 /\ k \in 1 .. Len(forwards[s])
    BY <1>0, <1>1, <1>2, <1>8
  <2>2. CASE k <= Len(forwards[r])
    <3>1. k \in DOMAIN forwards[r] \cap DOMAIN forwards[s]
      BY <1>0, <2>1, <2>2
    <3> QED
      BY <1>1, <1>2, <1>8, <2>1, <2>2, <3>1 DEF IInv, SameGraphs
  <2>3. CASE k = Len(forwards[r]) + 1
    <3>1. ~ Pending(s) /\ Len(forwards[s]) = k
      <4>1. Round(s) = Len(forwards[r]) + 1
        BY <1>0, RoundIs, EqualRounds DEF IInv
      <4>2. ~ Pending(s)
        BY <1>0, <2>1, <2>3, <4>1, RoundIs DEF IInv
      <4> QED
        BY <2>3, <4>1, <4>2, RoundIs DEF IInv
    <3> QED
      BY <1>0, <1>1, <1>2, <1>8, <2>3, <3>1 DEF IInv, SameAhead
  <2> QED
    BY <1>0, <2>1, <2>2, <2>3
<1>9. SameGraphs'
  BY <1>1, <1>8, MatchIs DEF IInv, SameGraphs
<1> QED
  BY <1>3, <1>6, <1>7, <1>9 DEF IInv

(* The device takes the oldest forward of every rank. *)
LEMMA CompleteStep ==
  ASSUME IInv, Complete
  PROVE  IInv'
<1>0. \A r \in Ranks : /\ forwards[r] \in Seq(Forwards) /\ Len(forwards[r]) \in Nat
                       /\ Len(forwards[r]) > 0 /\ Len(forwards[r]) <= Ahead
  BY DEF IInv, TypeOK, Complete
<1>1. \A r \in Ranks :
        /\ forwards'[r] = Tail(forwards[r]) /\ forwards'[r] \in Seq(Forwards)
        /\ Len(forwards'[r]) = Len(forwards[r]) - 1
        /\ \A k \in 1 .. Len(forwards'[r]) : forwards'[r][k] = forwards[r][k + 1]
  BY <1>0 DEF Complete
<1>2. TypeOK'
  BY <1>0, <1>1, AheadAssumption DEF IInv, TypeOK, Complete
<1>3. \A r \in Ranks : Pending(r)' = Pending(r) /\ Dispatched(r)' = Dispatched(r)
  BY DEF Complete, Pending, Dispatched, Neff
<1>4. ASSUME NEW r \in Ranks
      PROVE  Round(r)' = Round(r) - 1
  <2>1. CASE Pending(r)
    <3>1. Round(r)' = Len(forwards'[r]) + 1
      BY <1>3, <2>1 DEF Round
    <3>2. Round(r) = Len(forwards[r]) + 1
      BY <2>1, RoundIs DEF IInv
    <3> QED
      BY <1>0, <1>1, <3>1, <3>2
  <2>2. CASE ~ Pending(r)
    <3>1. Round(r)' = Len(forwards'[r]) + 0
      BY <1>3, <2>2 DEF Round
    <3>2. Round(r) = Len(forwards[r])
      BY <2>2, RoundIs DEF IInv
    <3> QED
      BY <1>0, <1>1, <3>1, <3>2
  <2> QED
    BY <2>1, <2>2
<1>5. SameRound'
  BY <1>4 DEF IInv, SameRound
<1>6. SameAhead'
  <2> SUFFICES ASSUME NEW r \in Ranks, Pending(r), NEW s \in Ranks, ~ Pending(s)
               PROVE  Match(forwards'[s][Len(forwards'[s])], Dispatched(r))
    BY <1>3 DEF IInv, SameAhead
  <2>1. Len(forwards[s]) > 1
    <3>1. Len(forwards[s]) = Len(forwards[r]) + 1
      BY RoundIs, EqualRounds DEF IInv
    <3> QED
      BY <1>0, <3>1
  <2>2. forwards'[s][Len(forwards'[s])] = forwards[s][Len(forwards[s])]
    BY <1>0, <1>1, <2>1
  <2> QED
    BY <2>2 DEF IInv, SameAhead
<1>7. SameGraphs'
  <2> SUFFICES ASSUME NEW r \in Ranks, NEW s \in Ranks,
                      NEW k \in DOMAIN forwards'[r] \cap DOMAIN forwards'[s]
               PROVE  Match(forwards'[r][k], forwards'[s][k])
    BY DEF SameGraphs
  <2>1. k \in 1 .. Len(forwards'[r]) /\ k \in 1 .. Len(forwards'[s])
    BY <1>1
  <2>2. k + 1 \in DOMAIN forwards[r] \cap DOMAIN forwards[s]
    BY <1>0, <1>1, <2>1
  <2> QED
    BY <1>1, <2>1, <2>2 DEF IInv, SameGraphs
<1> QED
  BY <1>2, <1>5, <1>6, <1>7 DEF IInv

LEMMA StepIInv == IInv /\ [Next]_vars => IInv'
<1> SUFFICES ASSUME IInv, [Next]_vars PROVE IInv'
  OBVIOUS
<1>1. CASE UNCHANGED vars
  BY <1>1
  DEF vars, IInv, TypeOK, SameRound, Round, Pending, SameAhead, Dispatched, Neff, SameGraphs
<1> QED
  BY <1>1, StartStep, ReprepStep, ReturnStep, ReduceStep, DispatchStep, CompleteStep DEF Next

LEMMA AlwaysIInv == Spec => []IInv
BY InitIInv, StepIInv, PTL DEF Spec

-----------------------------------------------------------------------------
(* Batches, agreements and graphs stay in their ranges: every graph a rank *)
(* dispatches was compiled, and none runs further ahead than it may.       *)
THEOREM AlwaysTypeOK == Spec => []TypeOK
<1>1. IInv => TypeOK
  BY DEF IInv
<1> QED
  BY AlwaysIInv, <1>1, PTL

(* However many ranks are busy or idle, with or without drafts, prepared   *)
(* once or twice, all dispatch matching graphs in the same order: the same *)
(* graph, but for an idle rank beside busy ones without a computed token,  *)
(* which differs from theirs in the context bucket.                        *)
THEOREM AlwaysSameGraphs == Spec => []SameGraphs
<1>1. IInv => SameGraphs
  BY DEF IInv
<1> QED
  BY AlwaysIInv, <1>1, PTL

(* No rank is ever two forwards ahead of another. *)
THEOREM AlwaysLockstep == Spec => []Lockstep
<1>1. IInv => Lockstep
  BY DEF IInv, TypeOK, SameRound, Round, Lockstep
<1> QED
  BY AlwaysIInv, <1>1, PTL
=============================================================================
