------------------------- MODULE SpecServing_proofs -------------------------
(***************************************************************************)
(* Proofs about SpecServing, for any number of requests and drafts and any *)
(* model length: proposals stop in time, every row is fed its request's    *)
(* own latest token and drafts, and no count exceeds the model length,     *)
(* however late the scheduler hears of a declined proposal.  The step that *)
(* a late answer surprises is exempt from the token properties; that the   *)
(* steps after it are right again is part of what is proved.               *)
(*                                                                         *)
(* The inputs come from five places that lag behind the request by         *)
(* different amounts, and the scheduler's counts run ahead of it, so the   *)
(* invariant (TokensInv) says of each place whose token it holds, and of   *)
(* each count by how much the steps under way make it wrong.  The token    *)
(* theorems are about a server with one decode bucket: with several, the   *)
(* futures of a step of another size are not recognised (see OneBucket).   *)
(***************************************************************************)
EXTENDS SpecServing, FiniteSetTheorems, TLAPS

Good(row) == row.good \in 0 .. K

(* A batch as long as it has requests. *)
Numbered(b) == b \in Seq(Req) /\ DOMAIN b = 1 .. Cardinality(InBatch(b))

(* The draft future is as long as the batch it was made for, and no row    *)
(* of it or of the cache promises more drafts than were proposed.          *)
RunnerInv ==
  /\ Numbered(batch) /\ Numbered(last.reqs) /\ only = drafts
  /\ drafts # << >> =>
       /\ last # NoOutput
       /\ DOMAIN drafts = DOMAIN last.reqs
       /\ \A p \in DOMAIN drafts : Good(drafts[p])
  /\ \A r \in Req : Good(cache[r])

(* A step under way keeps between one token and all its drafts and one.    *)
Entries ==
  {o \in [reqs : Seq(Req), kept : Seq(1 .. K + 1), spec : BOOLEAN] :
     DOMAIN o.kept = DOMAIN o.reqs}

PromiseInv ==
  /\ status \in [Req -> {"new", "waiting", "running", "gone"}]
  /\ computed \in [Req -> Int] /\ known \in [Req -> Int]
  /\ \A r \in Req : status[r] \in {"new", "waiting"} => computed[r] = 0
  /\ promised \subseteq Req
  /\ \A r \in promised : computed[r] + (1 + K) < MaxLen - 1 - K

IInv == RunnerInv /\ pending \in Seq(Entries) /\ PromiseInv

-----------------------------------------------------------------------------
LEMMA NumbersAre == K \in Nat /\ K > 0 /\ PromptLen \in Nat /\ MaxLen \in Nat
BY SpecLengthAssumption

LEMMA SubsetCardinality ==
  ASSUME NEW S \in SUBSET Req
  PROVE  Cardinality(S) \in Nat
BY SpecReqAssumption, FS_Subset, FS_CardinalityType

LEMMA EmptyNumbered == Numbered(<< >>)
<1>1. InBatch(<< >>) = {}
  BY DEF InBatch
<1>2. Cardinality({}) = 0
  BY FS_EmptySet
<1>3. << >> \in Seq(Req) /\ DOMAIN << >> = 1 .. 0
  OBVIOUS
<1> QED
  BY <1>1, <1>2, <1>3 DEF Numbered

LEMMA InitIInv == ServingInit => IInv
<1> SUFFICES ASSUME ServingInit PROVE IInv
  OBVIOUS
<1>2. RunnerInv
  <2>1. \A r \in Req : Good(cache[r])
    BY NumbersAre DEF ServingInit, Init, NoDrafts, Good
  <2> QED
    BY EmptyNumbered, <2>1 DEF ServingInit, Init, RunnerInv, NoOutput
<1>3. PromiseInv
  BY DEF ServingInit, PromiseInv
<1> QED
  BY <1>2, <1>3 DEF ServingInit, IInv

-----------------------------------------------------------------------------
(* One step of the runner. *)

LEMMA OrdersNumbered ==
  ASSUME RunnerInv, NEW so, so.reqs \in SUBSET Req, NEW b \in Orders(so)
  PROVE  Numbered(b) /\ InBatch(b) = so.reqs
<1>1. CASE b = batch /\ InBatch(batch) = so.reqs
  BY <1>1 DEF RunnerInv
<1>2. CASE b \in [1 .. Cardinality(so.reqs) -> so.reqs] /\ InBatch(b) = so.reqs
  BY <1>2, SubsetCardinality DEF Numbered
<1> QED
  BY <1>1, <1>2 DEF Orders

(* What a row was fed promises no more drafts than there are. *)
LEMMA FedIsGood ==
  ASSUME RunnerInv, NEW so, so.reqs \in SUBSET Req,
         NEW b \in Orders(so), NEW p \in DOMAIN b
  PROVE  Good(Fed(so, b[p], p))
<1>1. Numbered(b) /\ InBatch(b) = so.reqs /\ b[p] \in Req
  BY OrdersNumbered DEF Numbered
<1>2. CASE Fills(so)
  <2>1. Fed(so, b[p], p) = cache[b[p]]
    BY <1>2 DEF Fed, Fills, HandsOver
  <2> QED
    BY <1>1, <2>1 DEF RunnerInv
<1>3. CASE ~ Fills(so) /\ HandsOver(so)
  <2>1. last # NoOutput /\ DOMAIN drafts = DOMAIN last.reqs
    BY <1>3 DEF HandsOver, RunnerInv
  <2>2. InBatch(last.reqs) = so.reqs
    BY <1>3, <2>1 DEF HandsOver, CompositionChanged
  <2>3. p \in DOMAIN drafts
    BY <1>1, <2>1, <2>2 DEF RunnerInv, Numbered
  <2> QED
    BY <1>3, <2>3 DEF Fed, HandsOver, RunnerInv
<1>4. CASE ~ Fills(so) /\ ~ HandsOver(so)
  BY <1>4, NumbersAre DEF Fed, Placeholder, Good
<1> QED
  BY <1>2, <1>3, <1>4

LEMMA KeptIs ==
  ASSUME NEW row, Good(row.fed)
  PROVE  Kept(row) \in 1 .. K + 1
<1>1. row.fed.good + 1 \in 1 .. K + 1 /\ 1 \in 1 .. K + 1
  BY NumbersAre DEF Good
<1> QED
  BY <1>1 DEF Kept

LEMMA EntryIs ==
  ASSUME NEW S, NEW s \in Seq(S), NEW p \in DOMAIN s
  PROVE  s[p] \in S
OBVIOUS

LEMMA IndexIs ==
  ASSUME NEW b, NEW r \in InBatch(b)
  PROVE  IndexIn(b, r) \in DOMAIN b
BY DEF InBatch, IndexIn

LEMMA RunStep ==
  ASSUME RunnerInv, NEW so, so.reqs \in SUBSET Req, Run(so)
  PROVE  /\ RunnerInv'
         /\ last'.reqs \in Seq(Req) /\ last'.kept \in Seq(1 .. K + 1)
         /\ DOMAIN last'.kept = DOMAIN last'.reqs
<1> DEFINE row(b) == [p \in DOMAIN b |-> Inputs(so, b[p], p)]
           kept(b) == [p \in DOMAIN b |-> Kept(row(b)[p])]
           sampled(b) == [p \in DOMAIN b |-> Tok(b[p], length[b[p]] + kept(b)[p] - 1)]
<1>1. PICK b \in Orders(so) :
        /\ batch' = b
        /\ last' = [reqs |-> b, kept |-> kept(b), toks |-> sampled(b),
                    before |-> [p \in DOMAIN b |-> length[b[p]]],
                    spec |-> so.spec, wide |-> Speculates(so), width |-> Width(so)]
        /\ drafts' \in
             IF Proposes(so)
             THEN {[p \in DOMAIN b |-> [of |-> sampled(b)[p], good |-> good[p]]] :
                     good \in [DOMAIN b -> 0 .. K]}
             ELSE {<< >>}
        /\ only' = Only(drafts')
        /\ cache' = CacheAfter(so, drafts', b)
  BY DEF Run
<1> HIDE DEF sampled
<1>2. Numbered(b) /\ InBatch(b) = so.reqs
  BY OrdersNumbered
<1>3. \A p \in DOMAIN b : Good(row(b)[p].fed)
  BY FedIsGood DEF Inputs
<1>4. kept(b) \in Seq(1 .. K + 1) /\ DOMAIN kept(b) = DOMAIN b
  <2>1. \A p \in DOMAIN b : kept(b)[p] \in 1 .. K + 1
    BY <1>3, KeptIs
  <2>2. DOMAIN b = 1 .. Len(b) /\ Len(b) \in Nat
    BY <1>2 DEF Numbered
  <2> QED
    BY <2>1, <2>2
<1> HIDE DEF kept
<1>5. last'.reqs = b /\ last'.kept = kept(b)
  BY <1>1
<1>6. drafts' # << >> => DOMAIN drafts' = DOMAIN b /\ \A p \in DOMAIN b : Good(drafts'[p])
  BY <1>1 DEF Good
<1>7. drafts' # << >> => last' # NoOutput
  <2> SUFFICES ASSUME last' = NoOutput, Proposes(so) PROVE drafts' = << >>
    BY <1>1
  <2>1. b = << >>
    BY <1>5 DEF NoOutput
  <2> QED
    BY <1>1, <2>1
<1>8. \A r \in Req : Good(cache'[r])
  <2>1. Good(NoDrafts)
    BY NumbersAre DEF Good, NoDrafts
  <2>2. \A r \in so.reqs : drafts' # << >> => Good(drafts'[IndexIn(b, r)])
    BY <1>2, <1>6, IndexIs
  <2> QED
    BY <1>1, <2>1, <2>2 DEF CacheAfter, RunnerInv
<1>9. only' = drafts'
  BY <1>1 DEF Only
<1> QED
  BY <1>1, <1>2, <1>4, <1>5, <1>6, <1>7, <1>8, <1>9 DEF RunnerInv, Numbered

(* A step that proposes leaves room for the steps that follow it. *)
LEMMA ExecuteStep ==
  ASSUME IInv, NEW so, so.reqs \in SUBSET Req, so.computed = computed, so.spec \in BOOLEAN,
         NEW advance \in Int, Execute(so, advance),
         so.prefill => advance = PromptLen, ~ so.prefill /\ so.spec => advance = 1 + K
  PROVE  /\ RunnerInv' /\ pending' \in Seq(Entries)
         /\ computed' \in [Req -> Int] /\ known' \in [Req -> Int]
         /\ promised' \subseteq Req
         /\ \A r \in promised' : computed'[r] + (1 + K) < MaxLen - 1 - K
         /\ \A r \in Req : r \notin so.reqs => computed'[r] = computed[r]
<1>1. /\ RunnerInv'
      /\ last'.reqs \in Seq(Req) /\ last'.kept \in Seq(1 .. K + 1)
      /\ DOMAIN last'.kept = DOMAIN last'.reqs
  BY RunStep DEF IInv, Execute
<1>2. pending' \in Seq(Entries)
  <2>1. [reqs |-> last'.reqs, kept |-> last'.kept, spec |-> so.spec] \in Entries
    BY <1>1 DEF Entries
  <2> QED
    BY <2>1 DEF IInv, Execute
<1>3. /\ computed \in [Req -> Int] /\ known \in [Req -> Int] /\ promised \subseteq Req
      /\ \A r \in promised : computed[r] + (1 + K) < MaxLen - 1 - K
  BY DEF IInv, PromiseInv
<1>4. /\ computed' = [r \in Req |-> IF r \in so.reqs THEN computed[r] + advance
                                    ELSE computed[r]]
      /\ promised' = IF Proposes(so) THEN promised \cup so.reqs ELSE promised \ so.reqs
      /\ known' = known
  BY DEF Execute
<1>5. ASSUME NEW r \in so.reqs, Proposes(so)
      PROVE  computed'[r] + (1 + K) < MaxLen - 1 - K
  <2>1. LastPosition(so, r) < MaxLen - K - 2 - (1 + K)
    BY <1>5 DEF Proposes, SpecLimit
  <2>2. computed'[r] = computed[r] + advance /\ computed[r] \in Int
    BY <1>3, <1>4, <1>5
  <2>3. CASE so.prefill
    <3>1. LastPosition(so, r) = computed[r] + (PromptLen - 1) /\ advance = PromptLen
      BY <2>3 DEF LastPosition
    <3> QED
      BY <2>1, <2>2, <3>1, NumbersAre
  <2>4. CASE ~ so.prefill
    <3>1. Speculates(so) /\ so.spec
      BY <1>5, <2>4 DEF Proposes, Speculates
    <3>2. LastPosition(so, r) = computed[r] + K /\ advance = 1 + K
      BY <2>4, <3>1 DEF LastPosition
    <3> QED
      BY <2>1, <2>2, <3>2, NumbersAre
  <2> QED
    BY <2>3, <2>4
<1>6. \A r \in Req : r \notin so.reqs => computed'[r] = computed[r]
  BY <1>4
<1>7. \A r \in promised' : computed'[r] + (1 + K) < MaxLen - 1 - K
  <2> SUFFICES ASSUME NEW r \in promised', ~ (r \in so.reqs /\ Proposes(so))
               PROVE  computed'[r] + (1 + K) < MaxLen - 1 - K
    BY <1>5
  <2>1. r \in promised /\ r \notin so.reqs
    BY <1>4
  <2>2. computed'[r] = computed[r]
    BY <1>3, <1>6, <2>1
  <2> QED
    BY <1>3, <2>1, <2>2
<1>8. computed' \in [Req -> Int]
  BY <1>3, <1>4
<1> QED
  BY <1>1, <1>2, <1>3, <1>4, <1>6, <1>7, <1>8

-----------------------------------------------------------------------------
(* The steps of the clients and the scheduler. *)

LEMMA RunnerStutters ==
  ASSUME UNCHANGED runnerVars
  PROVE  RunnerInv' <=> RunnerInv
BY DEF runnerVars, RunnerInv, Numbered

LEMMA SubmitStep ==
  ASSUME IInv, NEW r \in Req, Submit(r)
  PROVE  IInv'
BY RunnerStutters DEF IInv, PromiseInv, Submit

LEMMA FinishStep ==
  ASSUME IInv, NEW r \in Req, Finish(r)
  PROVE  IInv'
<1>1. RunnerInv' /\ pending' \in Seq(Entries)
  BY RunnerStutters DEF IInv, Finish
<1>2. PromiseInv'
  BY DEF IInv, PromiseInv, Finish
<1> QED
  BY <1>1, <1>2 DEF IInv

LEMMA PrefillStep ==
  ASSUME IInv, NEW r \in Req, SchedulePrefill(r)
  PROVE  IInv'
<1> DEFINE so == Step({r}, TRUE, FALSE)
<1>1. /\ so.reqs = {r} /\ so.computed = computed /\ so.spec = FALSE /\ so.prefill = TRUE
      /\ Execute(so, PromptLen) /\ PromptLen \in Int
  BY NumbersAre DEF Step, SchedulePrefill
<1> HIDE DEF so
<1>2. /\ RunnerInv' /\ pending' \in Seq(Entries)
      /\ computed' \in [Req -> Int] /\ known' \in [Req -> Int]
      /\ promised' \subseteq Req
      /\ \A s \in promised' : computed'[s] + (1 + K) < MaxLen - 1 - K
      /\ \A s \in Req : s # r => computed'[s] = computed[s]
  BY <1>1, ExecuteStep
<1>3. /\ status' \in [Req -> {"new", "waiting", "running", "gone"}]
      /\ \A s \in Req : status'[s] \in {"new", "waiting"} => s # r /\ status'[s] = status[s]
  BY DEF IInv, PromiseInv, SchedulePrefill
<1> QED
  BY <1>2, <1>3 DEF IInv, PromiseInv

(* A decode step with drafts, or without. *)
Scheduled(spec) ==
  /\ Decodable # {}
  /\ spec => \A r \in Decodable : r \in placed /\ computed[r] < MaxLen - 1 - K
  /\ Execute(Step(Decodable, FALSE, spec), IF spec THEN 1 + K ELSE 1)
  /\ UNCHANGED status

LEMMA DecodeIs ==
  ASSUME ScheduleDecode
  PROVE  \E spec \in BOOLEAN : Scheduled(spec)
<1>1. WithDrafts \in BOOLEAN
  BY DEF WithDrafts
<1>2. WithDrafts => \A r \in Decodable : r \in placed /\ computed[r] < MaxLen - 1 - K
  BY DEF WithDrafts
<1>3. Scheduled(WithDrafts)
  BY <1>2, Zenon DEF ScheduleDecode, Scheduled
<1> QED
  BY <1>1, <1>3

LEMMA DecodeStep ==
  ASSUME IInv, NEW spec \in BOOLEAN, Scheduled(spec)
  PROVE  IInv'
<1> DEFINE so == Step(Decodable, FALSE, spec)
           advance == IF spec THEN 1 + K ELSE 1
<1>1. /\ so.reqs = Decodable /\ so.computed = computed /\ so.spec = spec
      /\ so.prefill = FALSE
  BY DEF Step
<1>2. /\ Execute(so, advance) /\ Decodable \in SUBSET Req
      /\ \A s \in Decodable : status[s] = "running"
  BY DEF Scheduled, Decodable
<1>3. advance \in Int /\ (so.spec => advance = 1 + K)
  <2>1. advance \in Int
    BY NumbersAre
  <2> HIDE DEF so
  <2> QED
    BY <1>1, <2>1
<1> HIDE DEF so, advance
<1>4. /\ RunnerInv' /\ pending' \in Seq(Entries)
      /\ computed' \in [Req -> Int] /\ known' \in [Req -> Int]
      /\ promised' \subseteq Req
      /\ \A s \in promised' : computed'[s] + (1 + K) < MaxLen - 1 - K
      /\ \A s \in Req : s \notin Decodable => computed'[s] = computed[s]
  BY <1>1, <1>2, <1>3, ExecuteStep
<1>5. status' = status
  BY DEF Scheduled
<1> QED
  BY <1>2, <1>4, <1>5 DEF IInv, PromiseInv

LEMMA NothingStep ==
  ASSUME IInv, ScheduleNothing
  PROVE  IInv'
<1>1. batch' = << >> /\ UNCHANGED <<last, drafts, only, cache>>
  BY DEF ScheduleNothing, RunEmpty
<1>3. RunnerInv'
  BY <1>1, EmptyNumbered DEF IInv, RunnerInv, Numbered
<1> QED
  BY <1>3 DEF IInv, PromiseInv, ScheduleNothing

LEMMA AnswerStep ==
  ASSUME IInv, Answer
  PROVE  IInv'
BY RunnerStutters DEF IInv, PromiseInv, Answer

(* The scheduler takes back what was rejected, never more. *)
LEMMA ReceiveStep ==
  ASSUME IInv, Receive
  PROVE  IInv'
<1> DEFINE o == Head(pending)
           Count(r) == o.kept[IndexIn(o.reqs, r)]
           of == {r \in InBatch(o.reqs) : status[r] = "running"}
           done == {r \in of : known[r] + Count(r) >= MaxOut}
<1>1. /\ o \in Entries /\ Tail(pending) \in Seq(Entries)
      /\ pending' = Tail(pending) /\ UNCHANGED runnerVars
  BY DEF IInv, Receive
<1>2. /\ known' = [r \in Req |-> IF r \in done THEN 0
                                 ELSE IF r \in of THEN known[r] + Count(r) ELSE known[r]]
      /\ computed' = [r \in Req |-> IF r \in done THEN 0
                                    ELSE IF r \in of /\ o.spec
                                    THEN computed[r] - (K + 1 - Count(r))
                                    ELSE computed[r]]
      /\ promised' = promised \ done
      /\ status' = [r \in Req |-> IF r \in done THEN "gone" ELSE status[r]]
  BY DEF Receive
<1>3. \A r \in of : Count(r) \in 1 .. K + 1 /\ status[r] = "running"
  <2>1. o.kept \in Seq(1 .. K + 1) /\ DOMAIN o.kept = DOMAIN o.reqs
    BY <1>1 DEF Entries
  <2>2. \A r \in of : IndexIn(o.reqs, r) \in DOMAIN o.kept
    BY <2>1, IndexIs
  <2>3. \A p \in DOMAIN o.kept : o.kept[p] \in 1 .. K + 1
    BY <2>1, EntryIs
  <2> QED
    BY <2>2, <2>3
<1>4. done \subseteq of
  OBVIOUS
<1> HIDE DEF o, of, done, Count
<1>5. PromiseInv
  BY DEF IInv
<1>6. \A r \in of : Count(r) \in Int /\ K + 1 - Count(r) \in Nat
  BY <1>3, NumbersAre
<1>7. computed' \in [Req -> Int] /\ known' \in [Req -> Int]
  <2>1. \A r \in Req : computed[r] \in Int /\ known[r] \in Int
    BY <1>5 DEF PromiseInv
  <2> QED
    BY <1>2, <1>6, <2>1
<1>8. \A r \in promised' : computed'[r] + (1 + K) < MaxLen - 1 - K
  <2> SUFFICES ASSUME NEW r \in promised'
               PROVE  computed'[r] + (1 + K) < MaxLen - 1 - K
    OBVIOUS
  <2>1. /\ r \in promised /\ r \in Req /\ r \notin done /\ computed[r] \in Int
        /\ computed[r] + (1 + K) < MaxLen - 1 - K
    BY <1>2, <1>5 DEF PromiseInv
  <2>2. computed'[r] \in Int /\ computed'[r] <= computed[r]
    BY <1>2, <1>6, <2>1
  <2> QED
    BY <2>1, <2>2, NumbersAre
<1>9. /\ status' \in [Req -> {"new", "waiting", "running", "gone"}]
      /\ promised' \subseteq Req
  BY <1>2, <1>5 DEF PromiseInv
<1>10. \A r \in Req : status'[r] \in {"new", "waiting"} => computed'[r] = 0
  <2> SUFFICES ASSUME NEW r \in Req, status'[r] \in {"new", "waiting"}
               PROVE  computed'[r] = 0
    OBVIOUS
  <2>1. r \notin done /\ status[r] \in {"new", "waiting"}
    BY <1>2
  <2>2. r \notin of
    BY <1>3, <2>1
  <2> QED
    BY <1>2, <1>5, <2>1, <2>2 DEF PromiseInv
<1>11. RunnerInv'
  BY <1>1, RunnerStutters DEF IInv
<1> QED
  BY <1>1, <1>7, <1>8, <1>9, <1>10, <1>11 DEF IInv, PromiseInv

LEMMA StepIInv == IInv /\ [ServingNext]_servingVars => IInv'
<1> SUFFICES ASSUME IInv, [ServingNext]_servingVars PROVE IInv'
  OBVIOUS
<1>1. CASE UNCHANGED servingVars
  BY <1>1, RunnerStutters DEF servingVars, schedulerVars, IInv, PromiseInv
<1> QED
  BY <1>1, SubmitStep, FinishStep, PrefillStep, DecodeStep, DecodeIs, NothingStep,
     AnswerStep, ReceiveStep
  DEF ServingNext

(* Whatever the model agrees with and whoever enters or leaves, drafts are *)
(* promised only while two more steps fit below the scheduler's limit.     *)
THEOREM AlwaysDraftsFit == ServingSpec => []DraftsFit
<1>1. IInv => DraftsFit
  BY DEF IInv, PromiseInv, DraftsFit
<1> QED
  BY InitIInv, StepIInv, <1>1, PTL DEF ServingSpec

-----------------------------------------------------------------------------
(* The tokens. *)

(* One padded decode batch size, as a single num_seqs_buckets entry gives. *)
OneBucket == \E w \in Nat : Buckets = {w}

Running == {r \in Req : status[r] = "running"}

(* What the i-th of the steps under way will bring to r, and by how much   *)
(* it makes the scheduler's count run ahead.                               *)
Under(steps, i, r) == i \in DOMAIN steps /\ r \in InBatch(steps[i].reqs)
Got(steps, i, r) ==
  IF Under(steps, i, r) THEN steps[i].kept[IndexIn(steps[i].reqs, r)] ELSE 0
Ahead(steps, i, r) ==
  IF Under(steps, i, r) /\ steps[i].spec THEN K + 1 - Got(steps, i, r) ELSE 0

(* The last step's tokens are the latest of its requests; the drafts were  *)
(* proposed after them.                                                    *)
LastTokens ==
  /\ DOMAIN last.toks = DOMAIN last.reqs /\ DOMAIN last.kept = DOMAIN last.reqs
  /\ \A p \in DOMAIN last.reqs : /\ last.kept[p] \in 1 .. K + 1
                                 /\ last.toks[p] = Tok(last.reqs[p], length[last.reqs[p]] - 1)
  /\ \A p \in DOMAIN drafts : drafts[p].of = last.toks[p]
  /\ last.spec \in BOOLEAN /\ last.wide \in BOOLEAN /\ (last.wide => last.spec)
  /\ last.wide => accepted = last.toks

(* A request enters the runner with its prefill and leaves when reported. *)
Lives ==
  /\ \A r \in Req : status[r] \in {"new", "waiting"} =>
        /\ known[r] = 0 /\ length[r] = PromptLen
        /\ r \notin InBatch(last.reqs)
        /\ ~Under(pending, 1, r) /\ ~Under(pending, 2, r)
  /\ Running \subseteq requests
  /\ promised \subseteq Running /\ placed \subseteq Running
  /\ \A r \in finished : r \in Req /\ status[r] = "gone"
  /\ last = NoOutput => Running = {}

(* The last step was a prefill: the row's token has not been appended.     *)
LastIsPrefill ==
  /\ ~last.wide /\ DOMAIN last.reqs = {1}
  /\ last.before[1] = PromptLen /\ length[last.reqs[1]] = PromptLen + 1
  /\ batch = last.reqs => rows[last.reqs[1]] = PromptLen

(* The batch is the last step's, and the last step is the newest one under *)
(* way, as long as anything can be decoded.                                *)
Batches ==
  /\ batch = last.reqs \/ (batch = << >> /\ InBatch(last.reqs) \cap Decodable = {})
  /\ Len(pending) <= 2
  /\ pending = << >> => Decodable = {}
  /\ pending # << >> => /\ pending[Len(pending)].reqs = last.reqs
                        /\ pending[Len(pending)].kept = last.kept
                        /\ pending[Len(pending)].spec = last.spec
  /\ last # NoOutput => last.width \in Buckets \/ LastIsPrefill

Counts ==
  /\ length \in [Req -> Nat] /\ known \in [Req -> Nat]
  /\ \A r \in Running :
       /\ length[r] = PromptLen + known[r] + Got(pending, 1, r) + Got(pending, 2, r)
       /\ computed[r] = length[r] - 1 + Ahead(pending, 1, r) + Ahead(pending, 2, r)

(* A row in the cache is its request's own; a promised request has one,    *)
(* after its latest token.                                                 *)
Promises ==
  /\ \A r \in Req : cache[r] # NoDrafts => cache[r].of.req = r
  /\ \A r \in promised : cache[r] # NoDrafts /\ cache[r].of = Tok(r, length[r] - 1)
  /\ drafts = << >> => promised \cap InBatch(last.reqs) = {}

(* The scheduler has heard of every request what the runner last said, or  *)
(* an answer is under way; the newest is about the last step.              *)
Uncovered(i, r) ==
  r \in answers[i].reqs /\ \A j \in DOMAIN answers : j > i => r \notin answers[j].reqs
Heard ==
  /\ answers \in Seq([reqs : SUBSET Req, yes : BOOLEAN]) /\ Len(answers) <= 2
  /\ answers # << >> => /\ answers[Len(answers)].reqs = InBatch(last.reqs)
                        /\ drafts # << >> => answers[Len(answers)].yes
  /\ \A r \in placed : r \in promised \/ \E i \in DOMAIN answers : r \in answers[i].reqs
  /\ \A i \in DOMAIN answers : \A r \in Running :
       Uncovered(i, r) /\ answers[i].yes => r \in promised

TokensInv ==
  /\ IInv
  /\ LastTokens /\ Lives /\ Batches /\ Counts /\ Promises /\ Heard
  /\ InputsGenuine /\ DraftsOwn

-----------------------------------------------------------------------------
(* Batches. *)

(* A batch as long as it has requests has each of them once. *)
LEMMA NumberedInjective ==
  ASSUME NEW b, Numbered(b)
  PROVE  \A p, q \in DOMAIN b : b[p] = b[q] => p = q
<1> DEFINE n == Cardinality(InBatch(b))
<1>1. InBatch(b) \in SUBSET Req
  BY EntryIs DEF Numbered, InBatch
<1>2. n \in Nat /\ IsFiniteSet(InBatch(b))
  BY <1>1, SubsetCardinality, SpecReqAssumption, FS_Subset
<1>3. IsFiniteSet(1 .. n) /\ Cardinality(1 .. n) = n
  BY <1>2, FS_Interval
<1>4. b \in Surjection(1 .. n, InBatch(b))
  <2>1. /\ DOMAIN b = 1 .. n /\ b = [p \in DOMAIN b |-> b[p]]
        /\ \A p \in DOMAIN b : b[p] \in InBatch(b)
        /\ \A r \in InBatch(b) : \E p \in DOMAIN b : b[p] = r
    BY DEF InBatch, Numbered
  <2> HIDE DEF n
  <2>2. b \in [1 .. n -> InBatch(b)]
    BY <2>1
  <2> QED
    BY <2>1, <2>2 DEF Surjection
<1>5. b \in Injection(1 .. n, InBatch(b))
  BY <1>3, <1>4, FS_SurjSameCardinalityImpliesInj
<1> QED
  BY <1>5 DEF Injection, IsInjective, Numbered

LEMMA IndexOf ==
  ASSUME NEW b, Numbered(b)
  PROVE  /\ \A p \in DOMAIN b : b[p] \in InBatch(b) /\ b[p] \in Req /\ IndexIn(b, b[p]) = p
         /\ \A r \in InBatch(b) : /\ r \in Req /\ IndexIn(b, r) \in DOMAIN b
                                  /\ b[IndexIn(b, r)] = r
<1>1. \A r \in InBatch(b) : IndexIn(b, r) \in DOMAIN b /\ b[IndexIn(b, r)] = r
  BY DEF InBatch, IndexIn
<1>2. \A p \in DOMAIN b : b[p] \in InBatch(b) /\ b[p] \in Req
  BY EntryIs DEF InBatch, Numbered
<1>3. \A p \in DOMAIN b : IndexIn(b, b[p]) = p
  BY <1>1, <1>2, NumberedInjective
<1> QED
  BY <1>1, <1>2, <1>3 DEF InBatch

(* With one bucket every decode step has the same width. *)
LEMMA WidthIs ==
  ASSUME OneBucket, NEW so, so.reqs \in SUBSET Req, ~so.prefill
  PROVE  Width(so) \in Buckets /\ \A v \in Buckets : v = Width(so)
<1>1. PICK w \in Nat : Buckets = {w}
  BY DEF OneBucket
<1>2. w >= Cardinality(Req)
  BY <1>1, SpecBucketAssumption
<1>3. Cardinality(so.reqs) <= Cardinality(Req)
  BY SpecReqAssumption, FS_Subset
<1>4. Cardinality(so.reqs) \in Nat /\ Cardinality(Req) \in Nat
  BY SubsetCardinality
<1>5. w >= Cardinality(so.reqs)
  BY <1>2, <1>3, <1>4
<1>6. \E v \in Buckets : /\ v >= Cardinality(so.reqs)
                         /\ \A u \in Buckets : u >= Cardinality(so.reqs) => v <= u
  BY <1>1, <1>5
<1>7. Width(so) \in Buckets
  BY <1>6 DEF Width
<1> QED
  BY <1>1, <1>7

-----------------------------------------------------------------------------
(* The inputs of a step. *)

(* What the scheduler may send: a request's prefill, or a decode step of   *)
(* all that can be decoded.                                                *)
Prefills(so, r) ==
  r \in Waiting /\ so.reqs = {r} /\ so.prefill = TRUE /\ so.spec = FALSE
Decodes(so) ==
  /\ so.reqs = Decodable /\ Decodable # {} /\ so.prefill = FALSE /\ so.spec \in BOOLEAN
  /\ so.spec => \A r \in Decodable : r \in placed /\ computed[r] < MaxLen - 1 - K
Current(so) == so.computed = computed /\ so.known = known /\ so.finished = finished

(* A row's verified drafts are its own. *)
Owns(row) ==
  /\ row.verified = row.fed
  /\ \/ row.fed = Placeholder
     \/ /\ row.fed.of.req = row.req
        /\ row.surprised \/ row.fed.of = Tok(row.req, row.due)
Sound(row) == (row.surprised \/ Right(row)) /\ Owns(row)

LEMMA BatchIs ==
  ASSUME TokensInv
  PROVE  InBatch(batch) \subseteq InBatch(last.reqs)
BY DEF TokensInv, Batches, InBatch

(* A prefill has no row of drafts and starts at its first token. *)
LEMMA PrefillInputs ==
  ASSUME TokensInv, NEW so, NEW r \in Req, Prefills(so, r), Current(so), NEW p
  PROVE  /\ Right(Inputs(so, r, p)) /\ Owns(Inputs(so, r, p))
         /\ RowsAfter(so)[r] = PromptLen
<1>1. /\ status[r] = "waiting" /\ computed[r] = 0 /\ known[r] = 0
      /\ r \notin InBatch(last.reqs)
  BY DEF Prefills, Waiting, TokensInv, IInv, PromiseInv, Lives
<1>2. ~Speculates(so) /\ ~Fills(so) /\ ~HandsOver(so) /\ ~Reuses(so)
  BY DEF Prefills, Speculates, Fills, HandsOver, Reuses
<1>3. ~ToNonspec(so)
  BY <1>1 DEF Prefills, ToNonspec, CompositionChanged, NoOutput
<1>4. RowsAfter(so)[r] = PromptLen
  BY <1>1, BatchIs, NumbersAre DEF RowsAfter, Prefills, Current
<1>5. First(so, r, p) = Gathered(so, r)
  BY <1>2, <1>3 DEF First, Rebuilds, Rebuilt, Prefills
<1>6. Gathered(so, r) = Tok(r, 0)
  BY <1>1, <1>4, SpecLengthAssumption DEF Gathered, Current
<1>7. Position(so, r, p) = 0
  BY <1>1 DEF Position, Prefills, Current
<1>8. Fed(so, r, p) = Placeholder /\ Verified(so, r, p) = Placeholder
  BY <1>2 DEF Fed, Verified
<1> QED
  BY <1>4, <1>5, <1>6, <1>7, <1>8 DEF Right, Owns, Inputs, Prefills

LEMMA OnlyOne ==
  ASSUME NEW S, NEW s \in Seq(S), s # << >>, Len(s) < 2
  PROVE  Len(s) = 1 /\ DOMAIN s = {1}
<1>1. Len(s) \in Nat /\ DOMAIN s = 1 .. Len(s)
  OBVIOUS
<1>2. Len(s) # 0
  OBVIOUS
<1>3. Len(s) = 1
  BY <1>1, <1>2
<1> QED
  BY <1>1, <1>3

(* When a decode step is scheduled one step is under way, and it is the    *)
(* last one.                                                               *)
LEMMA DecodeContext ==
  ASSUME TokensInv, NEW so, Decodes(so), Current(so), Len(pending) < 2
  PROVE  /\ DOMAIN pending = {1} /\ pending \in Seq(Entries)
         /\ pending[1].reqs = last.reqs /\ pending[1].kept = last.kept
         /\ pending[1].spec = last.spec
         /\ last # NoOutput
         /\ ~CompositionChanged(so) =>
              so.reqs = InBatch(last.reqs) /\ batch = last.reqs /\ InBatch(batch) = so.reqs
<1>1. pending \in Seq(Entries) /\ pending # << >>
  BY DEF TokensInv, IInv, Batches, Decodes
<1>2. Len(pending) = 1 /\ DOMAIN pending = {1}
  BY <1>1, OnlyOne
<1>3. /\ pending[1].reqs = last.reqs /\ pending[1].kept = last.kept
      /\ pending[1].spec = last.spec
  BY <1>1, <1>2 DEF TokensInv, Batches
<1>4. last # NoOutput
  BY DEF TokensInv, Lives, Running, Decodes, Decodable
<1>5. ASSUME ~CompositionChanged(so)
      PROVE  so.reqs = InBatch(last.reqs) /\ batch = last.reqs
  <2>1. so.reqs = InBatch(last.reqs)
    BY <1>4, <1>5 DEF CompositionChanged
  <2>2. InBatch(last.reqs) \cap Decodable # {}
    BY <2>1 DEF Decodes
  <2> QED
    BY <2>1, <2>2 DEF TokensInv, Batches
<1> QED
  BY <1>1, <1>2, <1>3, <1>4, <1>5

(* Unless a late answer surprises it, a decode step with drafts follows a  *)
(* step that proposed some, and every request in it was promised some.     *)
LEMMA DecodeCalm ==
  ASSUME TokensInv, NEW so, Decodes(so), Current(so), Len(answers) < 2, ~Surprised(so)
  PROVE  /\ last.spec = last.wide
         /\ so.spec => so.reqs \subseteq promised /\ drafts # << >>
         /\ Speculates(so) = so.spec
<1>1. last.spec = last.wide
  BY DEF Surprised, TokensInv, LastTokens
<1>2. ASSUME so.spec
      PROVE  so.reqs \subseteq promised /\ drafts # << >>
  <2>1. drafts # << >>
    BY <1>2 DEF Surprised
  <2>2. ASSUME NEW r \in so.reqs, r \notin promised
        PROVE  FALSE
    <3>1. r \in placed /\ r \in Running
      BY <1>2, <2>2 DEF Decodes, TokensInv, Lives
    <3>2. PICK i \in DOMAIN answers : r \in answers[i].reqs
      BY <2>2, <3>1 DEF TokensInv, Heard
    <3>3. Len(answers) = 1 /\ DOMAIN answers = {1}
      BY <3>2, OnlyOne DEF TokensInv, Heard
    <3>4. i = 1 /\ Uncovered(1, r)
      BY <3>2, <3>3 DEF Uncovered
    <3>5. answers[1].yes
      BY <2>1, <3>2, <3>3 DEF TokensInv, Heard
    <3> QED
      BY <2>2, <3>1, <3>3, <3>4, <3>5 DEF TokensInv, Heard
  <2> QED
    BY <2>1, <2>2
<1>3. Speculates(so) = so.spec
  <2>1. CASE so.spec
    <3>1. \A r \in so.reqs : cache[r] # NoDrafts
      BY <1>2, <2>1 DEF TokensInv, Promises
    <3> QED
      BY <2>1, <3>1 DEF Speculates
  <2>2. CASE ~so.spec
    BY <2>2 DEF Speculates, Decodes
  <2> QED
    BY <2>1, <2>2
<1> QED
  BY <1>1, <1>2, <1>3

(* A step under way never makes the count run behind. *)
LEMMA AheadIs ==
  ASSUME NEW s \in Seq(Entries), NEW i, NEW r
  PROVE  Ahead(s, i, r) >= 0
<1>1. ASSUME Under(s, i, r)
      PROVE  s[i].kept[IndexIn(s[i].reqs, r)] \in 1 .. K + 1
  <2>1. s[i] \in Entries /\ r \in InBatch(s[i].reqs)
    BY <1>1, EntryIs DEF Under
  <2>2. s[i].kept \in Seq(1 .. K + 1) /\ IndexIn(s[i].reqs, r) \in DOMAIN s[i].kept
    BY <2>1, IndexIs DEF Entries
  <2> QED
    BY <2>2, EntryIs
<1> QED
  BY <1>1, NumbersAre DEF Got, Ahead

(* The correction takes back what the last step rejected, but not what it  *)
(* was counted for and dropped.                                            *)
LEMMA DecodePosition ==
  ASSUME OneBucket, TokensInv, NEW so, Decodes(so), Current(so), Len(pending) < 2,
         NEW r \in Decodable, NEW p
  PROVE  /\ length[r] \in Nat /\ length[r] >= PromptLen
         /\ computed[r] = length[r] - 1 + Ahead(pending, 1, r)
         /\ length[r] = PromptLen + known[r] + Got(pending, 1, r)
         /\ known[r] \in Nat
         /\ Position(so, r, p) \in Nat
         /\ last.spec = last.wide => Position(so, r, p) = length[r] - 1
<1>1. /\ DOMAIN pending = {1} /\ pending[1].reqs = last.reqs /\ pending[1].kept = last.kept
      /\ pending[1].spec = last.spec /\ last # NoOutput /\ pending \in Seq(Entries)
  BY DecodeContext
<1>2. ~Under(pending, 2, r) /\ (Under(pending, 1, r) <=> r \in InBatch(last.reqs))
  BY <1>1 DEF Under
<1>3. r \in Running /\ r \in Req
  BY DEF Decodable, Running
<1>4. Got(pending, 2, r) = 0 /\ Ahead(pending, 2, r) = 0
  BY <1>2 DEF Got, Ahead
<1>5. Got(pending, 1, r) \in Nat
  <2>1. CASE Under(pending, 1, r)
    <3>1. IndexIn(last.reqs, r) \in DOMAIN last.reqs
      BY <1>2, <2>1, IndexIs
    <3>2. last.kept[IndexIn(last.reqs, r)] \in 1 .. K + 1
      BY <3>1 DEF TokensInv, LastTokens
    <3> QED
      BY <1>1, <2>1, <3>2 DEF Got
  <2> QED
    BY <2>1 DEF Got
<1>6. Ahead(pending, 1, r) \in Int
  BY <1>5, NumbersAre DEF Ahead
<1>7. /\ length[r] \in Nat /\ known[r] \in Nat
      /\ length[r] = PromptLen + known[r] + Got(pending, 1, r)
      /\ computed[r] = length[r] - 1 + Ahead(pending, 1, r)
  <2>1. /\ length[r] \in Nat /\ known[r] \in Nat
        /\ length[r] = PromptLen + known[r] + Got(pending, 1, r) + Got(pending, 2, r)
        /\ computed[r] = length[r] - 1 + Ahead(pending, 1, r) + Ahead(pending, 2, r)
    BY <1>3 DEF TokensInv, Counts
  <2> QED
    BY <1>4, <1>5, <1>6, <2>1, NumbersAre
<1>8. length[r] >= PromptLen /\ computed[r] \in Nat
  <2>1. Ahead(pending, 1, r) >= 0
    BY <1>1, AheadIs
  <2> QED
    BY <1>5, <1>6, <1>7, <2>1, SpecLengthAssumption
<1>9. CASE last.wide
  <2>1. last.width \in Buckets /\ last.spec
    BY <1>1, <1>9 DEF TokensInv, LastTokens, Batches, LastIsPrefill
  <2>2. last.width = Width(so)
    BY <2>1, WidthIs DEF Decodes, Decodable
  <2>3. Position(so, r, p) = computed[r] - Rejected(so, r, p)
    BY <1>9, <2>2 DEF Position, Decodes, Current
  <2>4. Rejected(so, r, p) = Ahead(pending, 1, r)
    BY <1>1, <1>2, <2>1 DEF Rejected, Ahead, Got
  <2>5. Position(so, r, p) = length[r] - 1
    BY <1>6, <1>7, <2>3, <2>4
  <2> QED
    BY <1>7, <1>8, <2>5, SpecLengthAssumption
<1>10. CASE ~last.wide
  <2>1. Position(so, r, p) = computed[r]
    BY <1>10 DEF Position, Current
  <2>2. ASSUME last.spec = last.wide PROVE Position(so, r, p) = length[r] - 1
    <3>1. Ahead(pending, 1, r) = 0
      BY <1>1, <1>10, <2>2 DEF Ahead
    <3> QED
      BY <1>7, <2>1, <3>1
  <2> QED
    BY <1>7, <1>8, <2>1, <2>2
<1> QED
  BY <1>7, <1>8, <1>9, <1>10

(* Inputs rebuilt on the host come from a row the last prefill has just    *)
(* reached, from the fixup, or from a row the scheduler has received.      *)
LEMMA DecodeRebuilt ==
  ASSUME OneBucket, TokensInv, NEW so, Decodes(so), Current(so), Len(pending) < 2,
         Len(answers) < 2, ~Surprised(so), NEW r \in Decodable, Rebuilds(so)
  PROVE  Rebuilt(so, r) = Tok(r, length[r] - 1)
<1>1. /\ DOMAIN pending = {1} /\ pending[1].reqs = last.reqs
      /\ pending[1].spec = last.wide /\ last # NoOutput
      /\ Speculates(so) = so.spec
      /\ ~CompositionChanged(so) =>
              so.reqs = InBatch(last.reqs) /\ batch = last.reqs /\ InBatch(batch) = so.reqs
  BY DecodeContext, DecodeCalm
<1>2. /\ length[r] \in Nat /\ length[r] >= PromptLen
      /\ computed[r] = length[r] - 1 + Ahead(pending, 1, r)
      /\ length[r] = PromptLen + known[r] + Got(pending, 1, r)
      /\ known[r] \in Nat
  BY DecodePosition
<1>3. r \in Req /\ r \in so.reqs /\ Numbered(last.reqs)
  BY DEF Decodable, Decodes, TokensInv, IInv, RunnerInv
<1>4. CASE Speculates(so)
  <2>1. ~CompositionChanged(so)
    BY <1>4 DEF Rebuilds, Fills
  <2>2. drafts # << >>
    BY <1>1, <1>4, DecodeCalm
  <2>3. last.width # Width(so)
    BY <1>4, <2>1, <2>2 DEF Rebuilds, HandsOver
  <2>4. LastIsPrefill
    BY <1>1, <2>3, WidthIs DEF TokensInv, Batches, Decodes, Decodable
  <2>5. last.reqs[1] = r /\ IndexIn(last.reqs, r) = 1
    <3>1. r \in InBatch(last.reqs) /\ DOMAIN last.reqs = {1}
      BY <1>1, <1>3, <2>1, <2>4 DEF LastIsPrefill
    <3> QED
      BY <3>1 DEF InBatch, IndexIn
  <2>6. rows[r] = PromptLen /\ last.before[1] = PromptLen /\ length[r] = PromptLen + 1
    BY <1>1, <2>1, <2>4, <2>5 DEF LastIsPrefill
  <2>7. r \in InBatch(batch) /\ r \in InBatch(last.reqs)
    BY <1>1, <1>3, <2>1
  <2>8. Materialized(so, r) = PromptLen + 1
    BY <2>4, <2>5, <2>6, <2>7 DEF Materialized, LastIsPrefill
  <2>9. RowsAfter(so)[r] = PromptLen + 1
    BY <1>3, <2>7, <2>8 DEF RowsAfter
  <2>10. computed[r] = PromptLen
    <3>1. Ahead(pending, 1, r) = 0
      BY <1>1, <2>4 DEF Ahead, LastIsPrefill
    <3> QED
      BY <1>2, <2>6, <3>1, NumbersAre
  <2>11. Gathered(so, r) = Tok(r, length[r] - 1)
    BY <2>6, <2>9, <2>10, NumbersAre DEF Gathered, Current
  <2> QED
    BY <1>4, <2>11 DEF Rebuilt
<1>5. CASE ~Speculates(so) /\ r \in InBatch(last.reqs)
  <2>1. Rebuilt(so, r) = last.toks[IndexIn(last.reqs, r)]
    BY <1>5 DEF Rebuilt, Decodes
  <2> QED
    BY <1>3, <1>5, <2>1, IndexOf DEF TokensInv, LastTokens
<1>6. CASE ~Speculates(so) /\ r \notin InBatch(last.reqs)
  <2>1. Got(pending, 1, r) = 0 /\ Ahead(pending, 1, r) = 0
    BY <1>1, <1>6 DEF Got, Ahead, Under
  <2>2. RowsAfter(so)[r] = PromptLen + known[r]
    BY <1>3, <1>6, BatchIs DEF RowsAfter, Current
  <2>3. Gathered(so, r) = Tok(r, length[r] - 1)
    BY <1>2, <2>1, <2>2, NumbersAre DEF Gathered, Current
  <2> QED
    BY <1>6, <2>3 DEF Rebuilt
<1> QED
  BY <1>4, <1>5, <1>6

LEMMA OnlyIs ==
  ASSUME TokensInv
  PROVE  only = drafts
BY DEF TokensInv, IInv, RunnerInv

(* A step that is not surprised is fed right. *)
LEMMA DecodeRight ==
  ASSUME OneBucket, TokensInv, NEW so, Decodes(so), Current(so), Len(pending) < 2,
         Len(answers) < 2, ~Surprised(so), NEW b \in Orders(so), NEW p \in DOMAIN b
  PROVE  Sound(Inputs(so, b[p], p))
<1>1. /\ last # NoOutput /\ Speculates(so) = so.spec
      /\ ~CompositionChanged(so) =>
              so.reqs = InBatch(last.reqs) /\ batch = last.reqs /\ InBatch(batch) = so.reqs
  BY DecodeContext, DecodeCalm
<1>2. so.reqs \in SUBSET Req /\ so.reqs = Decodable /\ so.prefill = FALSE
  BY DEF Decodes, Decodable
<1>3. Numbered(b) /\ InBatch(b) = so.reqs /\ b[p] \in so.reqs
  BY <1>2, OrdersNumbered DEF TokensInv, IInv, InBatch
<1>4. PICK r \in Decodable : r = b[p]
  BY <1>2, <1>3
<1>5. ASSUME ~CompositionChanged(so) PROVE p \in DOMAIN last.reqs /\ last.reqs[p] = r
  BY <1>1, <1>4, <1>5 DEF Orders
<1>6. ASSUME ~CompositionChanged(so) PROVE last.toks[p] = Tok(r, length[r] - 1)
  BY <1>5, <1>6 DEF TokensInv, LastTokens
<1>7. Position(so, r, p) = length[r] - 1
  BY DecodePosition, DecodeCalm
<1>8. CASE Fills(so)
  <2>1. cache[r].of = Tok(r, length[r] - 1)
    BY <1>1, <1>2, <1>8, DecodeCalm DEF Fills, TokensInv, Promises
  <2>2. First(so, r, p) = cache[r].of /\ Fed(so, r, p) = cache[r] /\ Verified(so, r, p) = cache[r]
    BY <1>8 DEF First, Fed, Verified, Fills, HandsOver, ToNonspec, Reuses, Rebuilds
  <2> QED
    BY <1>2, <1>4, <1>7, <2>1, <2>2 DEF Sound, Right, Owns, Inputs, Tok
<1>9. CASE HandsOver(so)
  <2>1. drafts[p].of = last.toks[p] /\ ~CompositionChanged(so)
    <3>1. ~CompositionChanged(so) /\ p \in DOMAIN drafts
      BY <1>5, <1>9 DEF HandsOver, TokensInv, IInv, RunnerInv
    <3> QED
      BY <3>1 DEF TokensInv, LastTokens
  <2>2. First(so, r, p) = drafts[p].of /\ Fed(so, r, p) = drafts[p] /\ Verified(so, r, p) = drafts[p]
    BY <1>1, <1>9, OnlyIs DEF First, Fed, Verified, Fills, HandsOver, ToNonspec, Reuses, Rebuilds
  <2> QED
    BY <1>2, <1>4, <1>6, <1>7, <2>1, <2>2 DEF Sound, Right, Owns, Inputs, Tok
<1>10. CASE ~Fills(so) /\ ~HandsOver(so)
  <2>1. Fed(so, r, p) = Placeholder /\ Verified(so, r, p) = Placeholder
    BY <1>10, OnlyIs DEF Fed, Verified, Fills, HandsOver
  <2>2. First(so, r, p) = Tok(r, length[r] - 1)
    <3>1. CASE ToNonspec(so)
      <4>1. First(so, r, p) = accepted[p]
        BY <1>10, <3>1 DEF First, ToNonspec, Reuses, Rebuilds
      <4>2. ~CompositionChanged(so) /\ accepted = last.toks
        BY <3>1 DEF ToNonspec, TokensInv, LastTokens
      <4> QED
        BY <1>6, <4>1, <4>2
    <3>2. CASE Reuses(so)
      <4>1. First(so, r, p) = last.toks[IndexIn(last.reqs, r)]
        BY <1>10, <3>2 DEF First, ToNonspec, Reuses, Rebuilds
      <4>2. Numbered(last.reqs) /\ ~CompositionChanged(so)
        BY <3>2 DEF Reuses, TokensInv, IInv, RunnerInv
      <4>3. IndexIn(last.reqs, r) = p
        BY <1>5, <4>2, IndexOf
      <4> QED
        BY <1>6, <4>1, <4>2, <4>3
    <3>3. CASE ~ToNonspec(so) /\ ~Reuses(so)
      <4>1. First(so, r, p) = Rebuilt(so, r) /\ Rebuilds(so)
        BY <1>10, <3>3 DEF First, Rebuilds
      <4> QED
        BY <4>1, DecodeRebuilt
    <3> QED
      BY <3>1, <3>2, <3>3
  <2> QED
    BY <1>2, <1>4, <1>7, <2>1, <2>2 DEF Sound, Right, Owns, Inputs, Tok
<1> QED
  BY <1>8, <1>9, <1>10

(* ... and one that is verifies what it is fed, which is its request's.    *)
LEMMA DecodeInputs ==
  ASSUME OneBucket, TokensInv, NEW so, Decodes(so), Current(so), Len(pending) < 2,
         Len(answers) < 2, NEW b \in Orders(so), NEW p \in DOMAIN b
  PROVE  Sound(Inputs(so, b[p], p))
<1> SUFFICES ASSUME Surprised(so) PROVE Owns(Inputs(so, b[p], p))
  BY DecodeRight DEF Sound, Inputs
<1>1. so.reqs \in SUBSET Req
  BY DEF Decodes, Decodable
<1>2. Numbered(b) /\ InBatch(b) = so.reqs /\ b[p] \in so.reqs
  BY <1>1, OrdersNumbered DEF TokensInv, IInv, InBatch
<1>3. PICK r \in so.reqs : r = b[p]
  BY <1>2
<1>4. CASE Fills(so)
  <2>1. cache[r].of.req = r
    BY <1>1, <1>4 DEF Fills, Speculates, TokensInv, Promises
  <2>2. Fed(so, r, p) = cache[r] /\ Verified(so, r, p) = cache[r]
    BY <1>4 DEF Fed, Verified, Fills, HandsOver
  <2> QED
    BY <1>3, <2>1, <2>2 DEF Owns, Inputs
<1>5. CASE HandsOver(so)
  <2>1. batch = last.reqs /\ so.reqs = InBatch(last.reqs) /\ ~CompositionChanged(so)
    BY <1>5, DecodeContext DEF HandsOver
  <2>2. p \in DOMAIN last.reqs /\ last.reqs[p] = r
    BY <1>3, <2>1 DEF Orders
  <2>3. drafts[p].of = last.toks[p] /\ last.toks[p] = Tok(r, length[r] - 1)
    BY <1>5, <2>2 DEF HandsOver, TokensInv, IInv, RunnerInv, LastTokens
  <2>4. drafts[p].of.req = r
    BY <2>3 DEF Tok
  <2>5. Fed(so, r, p) = drafts[p] /\ Verified(so, r, p) = drafts[p]
    BY <1>5, <2>1, OnlyIs DEF Fed, Verified, Fills, HandsOver
  <2> QED
    BY <1>3, <2>4, <2>5 DEF Owns, Inputs
<1>6. CASE ~Fills(so) /\ ~HandsOver(so)
  <2>1. Fed(so, r, p) = Placeholder /\ Verified(so, r, p) = Placeholder
    BY <1>6, OnlyIs DEF Fed, Verified, Fills, HandsOver
  <2> QED
    BY <1>3, <2>1 DEF Owns, Inputs
<1> QED
  BY <1>4, <1>5, <1>6

-----------------------------------------------------------------------------
(* What a step with the right inputs leaves. *)

(* In terms of the new last output; Own are the facts that do not depend   *)
(* on what the model agreed with.                                          *)
LEMMA RunTokens ==
  ASSUME RunnerInv, length \in [Req -> Nat], NEW so, so.reqs \in SUBSET Req, Run(so),
         \A b \in Orders(so) : \A p \in DOMAIN b : Sound(Inputs(so, b[p], p))
  PROVE  /\ Numbered(last'.reqs) /\ InBatch(last'.reqs) = so.reqs /\ batch' = last'.reqs
         /\ last'.reqs \in Orders(so)
         /\ DOMAIN last'.toks = DOMAIN last'.reqs /\ DOMAIN last'.kept = DOMAIN last'.reqs
         /\ last'.spec = so.spec /\ last'.wide = Speculates(so) /\ last'.width = Width(so)
         /\ \A p \in DOMAIN last'.reqs :
              /\ last'.kept[p] \in 1 .. K + 1
              /\ ~Speculates(so) => last'.kept[p] = 1
              /\ last'.before[p] = length[last'.reqs[p]]
              /\ length'[last'.reqs[p]] = length[last'.reqs[p]] + last'.kept[p]
              /\ last'.toks[p] = Tok(last'.reqs[p], length'[last'.reqs[p]] - 1)
         /\ length' \in [Req -> Nat]
         /\ \A r \in Req : r \notin so.reqs =>
              length'[r] = IF r \in so.finished THEN PromptLen ELSE length[r]
         /\ Speculates(so) => accepted' = last'.toks
         /\ Proposes(so) => DOMAIN drafts' = DOMAIN last'.reqs
         /\ ~Proposes(so) => drafts' = << >>
         /\ \A p \in DOMAIN drafts' : drafts'[p].of = last'.toks[p]
         /\ cache' = CacheAfter(so, drafts', last'.reqs)
         /\ requests' = (requests \ so.finished) \cup so.reqs
         /\ rows' = RowsAfter(so)
         /\ \A p \in DOMAIN forward' : Sound(forward'[p])
<1> DEFINE Row(b) == [p \in DOMAIN b |-> Inputs(so, b[p], p)]
           KeptBy(b) == [p \in DOMAIN b |-> Kept(Row(b)[p])]
           SampledBy(b) == [p \in DOMAIN b |-> Tok(b[p], length[b[p]] + KeptBy(b)[p] - 1)]
           Outcome(b, row, kept, sampled) ==
        /\ requests' = (requests \ so.finished) \cup so.reqs
        /\ batch' = b
        /\ rows' = RowsAfter(so)
        /\ forward' = row
        /\ last' = [reqs |-> b, kept |-> kept, toks |-> sampled,
                    before |-> [p \in DOMAIN b |-> length[b[p]]],
                    spec |-> so.spec, wide |-> Speculates(so), width |-> Width(so)]
        /\ length' = [r \in Req |-> IF r \in so.reqs THEN length[r] + kept[IndexIn(b, r)]
                                    ELSE IF r \in so.finished THEN PromptLen ELSE length[r]]
        /\ accepted' = IF Speculates(so) THEN sampled ELSE accepted
        /\ drafts' \in
             IF Proposes(so)
             THEN {[p \in DOMAIN b |-> [of |-> sampled[p], good |-> good[p]]] :
                     good \in [DOMAIN b -> 0 .. K]}
             ELSE {<< >>}
        /\ only' = Only(drafts')
        /\ cache' = CacheAfter(so, drafts', b)
<1>b. PICK b \in Orders(so) : Outcome(b, Row(b), KeptBy(b), SampledBy(b))
  BY DEF Run
<1> HIDE DEF Outcome
<1>r. PICK row : row = Row(b)
  OBVIOUS
<1>k. PICK kept : kept = KeptBy(b)
  OBVIOUS
<1>s. PICK sampled : sampled = SampledBy(b)
  OBVIOUS
<1>1. /\ Outcome(b, row, kept, sampled)
      /\ row = [p \in DOMAIN b |-> Inputs(so, b[p], p)]
      /\ kept = [p \in DOMAIN b |-> Kept(row[p])]
      /\ sampled = [p \in DOMAIN b |-> Tok(b[p], length[b[p]] + kept[p] - 1)]
  BY <1>b, <1>r, <1>k, <1>s
<1> HIDE DEF Row, KeptBy, SampledBy
<1> USE DEF Outcome
<1>2. Numbered(b) /\ InBatch(b) = so.reqs
  BY OrdersNumbered
<1>3. \A p \in DOMAIN b : b[p] \in so.reqs /\ b[p] \in Req /\ IndexIn(b, b[p]) = p
  BY <1>2, IndexOf
<1>4. \A p \in DOMAIN b : Sound(row[p])
  BY <1>1
<1>5. \A p \in DOMAIN b : kept[p] \in 1 .. K + 1 /\ (~Speculates(so) => kept[p] = 1)
  <2> SUFFICES ASSUME NEW p \in DOMAIN b
               PROVE  kept[p] \in 1 .. K + 1 /\ (~Speculates(so) => kept[p] = 1)
    OBVIOUS
  <2>1. row[p] = Inputs(so, b[p], p) /\ kept[p] = Kept(row[p])
    BY <1>1
  <2>2. Good(row[p].fed)
    BY <2>1, FedIsGood DEF Inputs
  <2>3. ASSUME ~Speculates(so) PROVE Kept(row[p]) = 1
    <3>1. row[p].fed = Placeholder
      BY <2>1, <2>3 DEF Inputs, Fed, Fills, HandsOver
    <3> QED
      BY <3>1 DEF Kept, Placeholder
  <2> QED
    BY <2>1, <2>2, <2>3, KeptIs
<1>6. /\ last'.reqs = b /\ last'.kept = kept /\ last'.toks = sampled
      /\ last'.before = [p \in DOMAIN b |-> length[b[p]]] /\ last'.width = Width(so)
  BY <1>1
<1>7. last'.wide = Speculates(so) /\ last'.spec = so.spec
  <2>1. last' = [reqs |-> b, kept |-> kept, toks |-> sampled,
                 before |-> [p \in DOMAIN b |-> length[b[p]]],
                 spec |-> so.spec, wide |-> Speculates(so), width |-> Width(so)]
    BY <1>1
  <2> QED
    BY <2>1, Zenon
<1>8. DOMAIN kept = DOMAIN b /\ DOMAIN sampled = DOMAIN b
  BY <1>1
<1>l. length' = [r \in Req |-> IF r \in so.reqs THEN length[r] + kept[IndexIn(b, r)]
                               ELSE IF r \in so.finished THEN PromptLen ELSE length[r]]
  BY <1>1
<1>9. \A p \in DOMAIN b : /\ length'[b[p]] = length[b[p]] + kept[p]
                          /\ sampled[p] = Tok(b[p], length'[b[p]] - 1)
  <2> SUFFICES ASSUME NEW p \in DOMAIN b
               PROVE  /\ length'[b[p]] = length[b[p]] + kept[p]
                      /\ sampled[p] = Tok(b[p], length'[b[p]] - 1)
    OBVIOUS
  <2>1. length'[b[p]] = length[b[p]] + kept[IndexIn(b, b[p])]
    BY <1>3, <1>l
  <2>2. sampled[p] = Tok(b[p], length[b[p]] + kept[p] - 1)
    BY <1>1, <1>4
  <2>3. length'[b[p]] = length[b[p]] + kept[p]
    BY <1>3, <2>1
  <2>4. length[b[p]] + kept[p] - 1 = length'[b[p]] - 1
    <3>1. length[b[p]] \in Nat /\ kept[p] \in Nat
      BY <1>3, <1>5, NumbersAre
    <3> QED
      BY <2>3, <3>1
  <2> QED
    BY <2>2, <2>3, <2>4
<1>10. length' \in [Req -> Nat]
  <2>1. \A r \in so.reqs : kept[IndexIn(b, r)] \in Nat
    BY <1>2, <1>5, IndexIs, NumbersAre
  <2> QED
    BY <1>l, <2>1, NumbersAre
<1>11. \A r \in Req : r \notin so.reqs =>
         length'[r] = IF r \in so.finished THEN PromptLen ELSE length[r]
  BY <1>1
<1>12. /\ Speculates(so) => accepted' = sampled
       /\ Proposes(so) => DOMAIN drafts' = DOMAIN b
       /\ ~Proposes(so) => drafts' = << >>
       /\ \A p \in DOMAIN drafts' : drafts'[p].of = sampled[p]
  BY <1>1
<1>13. \A p \in DOMAIN forward' : Sound(forward'[p])
  BY <1>1, <1>4
<1>14. /\ requests' = (requests \ so.finished) \cup so.reqs /\ rows' = RowsAfter(so)
       /\ batch' = b /\ cache' = CacheAfter(so, drafts', b)
  BY <1>1
<1>15. \A p \in DOMAIN b : last'.before[p] = length[b[p]]
  BY <1>6
<1> QED
  BY <1>2, <1>5, <1>6, <1>7, <1>8, <1>9, <1>10, <1>11, <1>12, <1>13, <1>14, <1>15

-----------------------------------------------------------------------------
(* The steps under way. *)

LEMMA GotIs ==
  ASSUME NEW s \in Seq(Entries), NEW i, NEW r
  PROVE  /\ Got(s, i, r) \in Nat /\ Ahead(s, i, r) \in Int
         /\ Under(s, i, r) => Got(s, i, r) >= 1
         /\ ~Under(s, i, r) => Got(s, i, r) = 0 /\ Ahead(s, i, r) = 0
<1>1. ASSUME Under(s, i, r)
      PROVE  s[i].kept[IndexIn(s[i].reqs, r)] \in 1 .. K + 1
  <2>1. s[i] \in Entries /\ r \in InBatch(s[i].reqs)
    BY <1>1, EntryIs DEF Under
  <2>2. s[i].kept \in Seq(1 .. K + 1) /\ IndexIn(s[i].reqs, r) \in DOMAIN s[i].kept
    BY <2>1, IndexIs DEF Entries
  <2> QED
    BY <2>2, EntryIs
<1> QED
  BY <1>1, NumbersAre DEF Got, Ahead

(* t is s and one more step under way. *)
OneMore(s, t, e) ==
  s \in Seq(Entries) /\ t \in Seq(Entries) /\ Len(s) < 2 /\ t = Append(s, e)

LEMMA AppendIs ==
  ASSUME NEW s, NEW e, NEW t, OneMore(s, t, e)
  PROVE  /\ Len(s) \in {0, 1} /\ DOMAIN s = 1 .. Len(s)
         /\ Len(t) = Len(s) + 1 /\ DOMAIN t = 1 .. Len(s) + 1
         /\ t[Len(s) + 1] = e /\ \A i \in 1 .. Len(s) : t[i] = s[i]
<1>1. Len(s) \in Nat /\ DOMAIN s = 1 .. Len(s)
  BY DEF OneMore
<1>2. Len(s) = 0 \/ Len(s) = 1
  BY <1>1 DEF OneMore
<1>3. /\ Len(t) = Len(s) + 1 /\ DOMAIN t = 1 .. Len(s) + 1
      /\ t[Len(s) + 1] = e /\ \A i \in 1 .. Len(s) : t[i] = s[i]
  BY DEF OneMore
<1> QED
  BY <1>1, <1>2, <1>3

(* Another step under way changes nothing for who is not in it ...         *)
LEMMA AppendOther ==
  ASSUME NEW s, NEW e, NEW t, OneMore(s, t, e),
         NEW r \in Req, r \notin InBatch(e.reqs), NEW i \in {1, 2}
  PROVE  /\ Under(t, i, r) = Under(s, i, r)
         /\ Got(t, i, r) = Got(s, i, r) /\ Ahead(t, i, r) = Ahead(s, i, r)
<1>1. Under(t, i, r) = Under(s, i, r)
  BY AppendIs DEF Under
<1>2. Under(s, i, r) => t[i] = s[i]
  BY AppendIs DEF Under
<1> QED
  BY <1>1, <1>2 DEF Got, Ahead

(* ... and brings its tokens to who is. *)
LEMMA AppendOwn ==
  ASSUME NEW s, NEW e, NEW t, OneMore(s, t, e),
         NEW r \in InBatch(e.reqs), NEW g, g = e.kept[IndexIn(e.reqs, r)]
  PROVE  /\ g \in Nat
         /\ Got(t, 1, r) + Got(t, 2, r) = Got(s, 1, r) + Got(s, 2, r) + g
         /\ Ahead(t, 1, r) + Ahead(t, 2, r) =
              Ahead(s, 1, r) + Ahead(s, 2, r) + (IF e.spec THEN K + 1 - g ELSE 0)
<1>a. /\ Len(s) \in {0, 1} /\ DOMAIN s = 1 .. Len(s) /\ DOMAIN t = 1 .. Len(s) + 1
      /\ t[Len(s) + 1] = e /\ \A i \in 1 .. Len(s) : t[i] = s[i]
  BY AppendIs
<1>1. PICK n \in {0, 1} : /\ n = Len(s) /\ DOMAIN s = 1 .. n
                          /\ DOMAIN t = 1 .. n + 1
                          /\ t[n + 1] = e /\ \A i \in 1 .. n : t[i] = s[i]
  BY <1>a
<1>2. Under(t, n + 1, r)
  BY <1>1 DEF Under
<1>3. Got(t, n + 1, r) = g /\ Ahead(t, n + 1, r) = IF e.spec THEN K + 1 - g ELSE 0
  BY <1>1, <1>2 DEF Got, Ahead
<1>4. g \in Nat
  BY <1>3, GotIs DEF OneMore
<1>5. CASE n = 0
  <2>1. ~Under(s, 1, r) /\ ~Under(s, 2, r) /\ ~Under(t, 2, r)
    BY <1>1, <1>5 DEF Under
  <2>2. /\ Got(s, 1, r) = 0 /\ Got(s, 2, r) = 0 /\ Got(t, 2, r) = 0
        /\ Ahead(s, 1, r) = 0 /\ Ahead(s, 2, r) = 0 /\ Ahead(t, 2, r) = 0
    BY <2>1, GotIs DEF OneMore
  <2>3. n + 1 = 1
    BY <1>5
  <2> QED
    BY <1>3, <1>4, <2>2, <2>3, NumbersAre
<1>6. CASE n = 1
  <2>1. ~Under(s, 2, r) /\ t[1] = s[1] /\ (Under(t, 1, r) <=> Under(s, 1, r)) /\ n + 1 = 2
    BY <1>1, <1>6 DEF Under
  <2>2. Got(s, 2, r) = 0 /\ Ahead(s, 2, r) = 0
    BY <2>1, GotIs DEF OneMore
  <2>3. Got(t, 1, r) = Got(s, 1, r) /\ Ahead(t, 1, r) = Ahead(s, 1, r)
    BY <2>1 DEF Got, Ahead
  <2>4. Got(s, 1, r) \in Nat /\ Ahead(s, 1, r) \in Int
    BY GotIs DEF OneMore
  <2> QED
    BY <1>3, <1>4, <2>1, <2>2, <2>3, <2>4, NumbersAre
<1> QED
  BY <1>5, <1>6, <1>4

(* How many of at most two steps under way have r. *)
LEMMA UnderWayIs ==
  ASSUME NEW s \in Seq(Entries), Len(s) <= 2, NEW r
  PROVE  Cardinality({i \in DOMAIN s : r \in InBatch(s[i].reqs)}) =
           (IF Under(s, 1, r) THEN 1 ELSE 0) + (IF Under(s, 2, r) THEN 1 ELSE 0)
<1> DEFINE at == {i \in DOMAIN s : r \in InBatch(s[i].reqs)}
<1>1. at = {i \in {1, 2} : Under(s, i, r)}
  <2>1. Len(s) \in Nat /\ DOMAIN s = 1 .. Len(s)
    OBVIOUS
  <2>2. \A i \in DOMAIN s : i \in {1, 2}
    BY <2>1
  <2> QED
    BY <2>2 DEF Under
<1> HIDE DEF at
<1>2. Cardinality({}) = 0
  BY FS_EmptySet
<1>3. Cardinality({1}) = 1 /\ Cardinality({2}) = 1
  BY FS_Singleton
<1>4. Cardinality({1, 2}) = 2
  <2>1. {1, 2} = 1 .. 2
    OBVIOUS
  <2>2. Cardinality(1 .. 2) = 2
    <3>1. Cardinality(1 .. 2) = IF 1 > 2 THEN 0 ELSE 2 - 1 + 1
      BY 1 \in Int, 2 \in Int, FS_Interval
    <3> QED
      BY <3>1
  <2> QED
    BY <2>1, <2>2
<1>5. ASSUME Under(s, 1, r) /\ Under(s, 2, r)
      PROVE  Cardinality(at) = (IF Under(s, 1, r) THEN 1 ELSE 0) + (IF Under(s, 2, r) THEN 1 ELSE 0)
  <2>1. at = {1, 2}
    BY <1>1, <1>5
  <2> QED
    BY <1>4, <1>5, <2>1
<1>6. ASSUME Under(s, 1, r) /\ ~Under(s, 2, r)
      PROVE  Cardinality(at) = (IF Under(s, 1, r) THEN 1 ELSE 0) + (IF Under(s, 2, r) THEN 1 ELSE 0)
  <2>1. at = {1}
    BY <1>1, <1>6
  <2> QED
    BY <1>3, <1>6, <2>1
<1>7. ASSUME ~Under(s, 1, r) /\ Under(s, 2, r)
      PROVE  Cardinality(at) = (IF Under(s, 1, r) THEN 1 ELSE 0) + (IF Under(s, 2, r) THEN 1 ELSE 0)
  <2>1. at = {2}
    BY <1>1, <1>7
  <2> QED
    BY <1>3, <1>7, <2>1
<1>8. ASSUME ~Under(s, 1, r) /\ ~Under(s, 2, r)
      PROVE  Cardinality(at) = (IF Under(s, 1, r) THEN 1 ELSE 0) + (IF Under(s, 2, r) THEN 1 ELSE 0)
  <2>1. at = {}
    BY <1>1, <1>8
  <2> QED
    BY <1>2, <1>8, <2>1
<1>9. Cardinality(at) = (IF Under(s, 1, r) THEN 1 ELSE 0) + (IF Under(s, 2, r) THEN 1 ELSE 0)
  BY <1>5, <1>6, <1>7, <1>8
<1> QED
  BY <1>9 DEF at

-----------------------------------------------------------------------------
(* Scheduling a step. *)

Schedules(so, advance) ==
  \/ (\E r \in Req : Prefills(so, r)) /\ advance = PromptLen
  \/ Decodes(so) /\ advance = IF so.spec THEN 1 + K ELSE 1

(* What is sent is a known step: whose requests the invariant has as       *)
(* waiting or running, and which runs with drafts only if sent with some.  *)
LEMMA SchedulesIs ==
  ASSUME TokensInv, NEW so, NEW advance, Schedules(so, advance), Current(so), Len(pending) < 2
  PROVE  /\ so.reqs \in SUBSET Req /\ so.reqs # {}
         /\ so.spec \in BOOLEAN /\ (Speculates(so) => so.spec)
         /\ \A r \in so.reqs : status[r] \in {"waiting", "running"}
         /\ so.finished \cap so.reqs = {}
<1>1. CASE \E r \in Req : Prefills(so, r)
  <2>1. PICK r \in Req : Prefills(so, r)
    BY <1>1
  <2>2. Speculates(so) => so.spec
    BY DEF Speculates
  <2>3. \A q \in so.reqs : status[q] = "waiting"
    BY <2>1 DEF Prefills, Waiting
  <2> QED
    BY <2>1, <2>2, <2>3 DEF Prefills, Current, TokensInv, Lives
<1>2. CASE Decodes(so)
  <2>1. Speculates(so) => so.spec
    BY DEF Speculates
  <2>2. \A q \in so.reqs : q \in Req /\ status[q] = "running"
    BY <1>2 DEF Decodes, Decodable
  <2> QED
    BY <1>2, <2>1, <2>2 DEF Decodes, Current, TokensInv, Lives
<1> QED
  BY <1>1, <1>2 DEF Schedules

LEMMA SchedulesRun ==
  ASSUME OneBucket, TokensInv, NEW so, NEW advance, Schedules(so, advance), Current(so),
         Execute(so, advance)
  PROVE  /\ \A b \in Orders(so) : \A p \in DOMAIN b : Sound(Inputs(so, b[p], p))
         /\ length \in [Req -> Nat] /\ RunnerInv /\ Run(so)
<1>1. Len(pending) < 2 /\ Len(answers) < 2 /\ Run(so)
  BY DEF Execute
<1>2. length \in [Req -> Nat] /\ RunnerInv
  BY DEF TokensInv, Counts, IInv
<1>3. ASSUME NEW b \in Orders(so), NEW p \in DOMAIN b
      PROVE  Sound(Inputs(so, b[p], p))
  <2>1. InBatch(b) = so.reqs
    BY <1>1, <1>2, SchedulesIs, OrdersNumbered
  <2>2. ASSUME NEW r \in Req, Prefills(so, r)
        PROVE  Sound(Inputs(so, b[p], p))
    <3>1. b[p] = r
      BY <2>1, <2>2 DEF Prefills, InBatch
    <3> QED
      BY <2>2, <3>1, PrefillInputs DEF Sound
  <2>3. CASE Decodes(so)
    BY <1>1, <2>3, DecodeInputs
  <2> QED
    BY <2>2, <2>3 DEF Schedules
<1> QED
  BY <1>1, <1>2, <1>3

LEMMA ScheduleStep ==
  ASSUME OneBucket, TokensInv, NEW so, NEW advance, Schedules(so, advance), Current(so),
         Execute(so, advance), IInv',
         \A s \in Req : status'[s] = IF s \in so.reqs THEN "running" ELSE status[s]
  PROVE  TokensInv'
<1>1. /\ Len(pending) < 2 /\ finished' = {} /\ known' = known
      /\ pending' = Append(pending,
                           [reqs |-> last'.reqs, kept |-> last'.kept, spec |-> so.spec])
      /\ computed' = [r \in Req |-> IF r \in so.reqs THEN computed[r] + advance
                                    ELSE computed[r]]
      /\ promised' = IF Proposes(so) THEN promised \cup so.reqs ELSE promised \ so.reqs
      /\ placed' = placed \cup so.reqs /\ Len(answers) < 2
      /\ answers' = Append(answers, [reqs |-> so.reqs, yes |-> Proposes(so)])
  BY DEF Execute
<1>2. /\ so.reqs \in SUBSET Req /\ so.reqs # {}
      /\ so.spec \in BOOLEAN /\ (Speculates(so) => so.spec)
      /\ \A r \in so.reqs : status[r] \in {"waiting", "running"}
      /\ so.finished \cap so.reqs = {} /\ so.finished = finished
  BY <1>1, SchedulesIs DEF Current
<1>3. /\ Numbered(last'.reqs) /\ InBatch(last'.reqs) = so.reqs /\ batch' = last'.reqs
      /\ DOMAIN last'.toks = DOMAIN last'.reqs /\ DOMAIN last'.kept = DOMAIN last'.reqs
      /\ last'.spec = so.spec /\ last'.wide = Speculates(so) /\ last'.width = Width(so)
      /\ requests' = (requests \ so.finished) \cup so.reqs
      /\ rows' = RowsAfter(so)
      /\ cache' = CacheAfter(so, drafts', last'.reqs)
  BY <1>2, SchedulesRun, RunTokens
<1>4. /\ \A p \in DOMAIN last'.reqs :
           /\ last'.kept[p] \in 1 .. K + 1
           /\ ~Speculates(so) => last'.kept[p] = 1
           /\ last'.before[p] = length[last'.reqs[p]]
           /\ length'[last'.reqs[p]] = length[last'.reqs[p]] + last'.kept[p]
           /\ last'.toks[p] = Tok(last'.reqs[p], length'[last'.reqs[p]] - 1)
      /\ length \in [Req -> Nat] /\ length' \in [Req -> Nat]
      /\ \A r \in Req : r \notin so.reqs =>
           length'[r] = IF r \in so.finished THEN PromptLen ELSE length[r]
  BY <1>2, SchedulesRun, RunTokens
<1>5. /\ Speculates(so) => accepted' = last'.toks
      /\ Proposes(so) => DOMAIN drafts' = DOMAIN last'.reqs
      /\ ~Proposes(so) => drafts' = << >>
      /\ \A p \in DOMAIN drafts' : drafts'[p].of = last'.toks[p]
      /\ \A p \in DOMAIN forward' : Sound(forward'[p])
  BY <1>2, SchedulesRun, RunTokens
<1>6. \A r \in so.reqs : LET p == IndexIn(last'.reqs, r)
                         IN  p \in DOMAIN last'.reqs /\ last'.reqs[p] = r
  BY <1>3, IndexOf
<1>7. InputsGenuine' /\ DraftsOwn'
  BY <1>5 DEF InputsGenuine, DraftsOwn, Sound, Owns
<1>8. LastTokens'
  <2>1. Speculates(so) \in BOOLEAN
    BY <1>2 DEF Speculates
  <2> QED
    BY <1>2, <1>3, <1>4, <1>5, <2>1 DEF LastTokens
<1>9. \A r \in Req : status[r] \in {"running", "new", "waiting"} => r \notin so.finished
  BY <1>2 DEF TokensInv, Lives
<1>10. PICK e, t : /\ e = [reqs |-> last'.reqs, kept |-> last'.kept, spec |-> so.spec]
                   /\ t = pending'
  OBVIOUS
<1>11. /\ pending \in Seq(Entries) /\ t \in Seq(Entries) /\ t = Append(pending, e)
       /\ so.reqs = InBatch(e.reqs) /\ pending' = t
       /\ e.reqs = last'.reqs /\ e.kept = last'.kept /\ e.spec = so.spec
  <2>1. pending \in Seq(Entries) /\ t \in Seq(Entries)
    BY <1>10 DEF TokensInv, IInv
  <2>2. e.reqs = last'.reqs /\ e.kept = last'.kept
    BY <1>10
  <2>3. e.spec = so.spec
    BY <1>10, Zenon
  <2> QED
    BY <1>1, <1>3, <1>10, <2>1, <2>2, <2>3
<1>12. /\ Len(t) <= 2 /\ t # << >> /\ t[Len(t)] = e
       /\ \A r \in Req : r \notin so.reqs =>
            \A i \in {1, 2} : /\ Under(t, i, r) = Under(pending, i, r)
                              /\ Got(t, i, r) = Got(pending, i, r)
                              /\ Ahead(t, i, r) = Ahead(pending, i, r)
       /\ \A r \in so.reqs : \A g : g = e.kept[IndexIn(e.reqs, r)] =>
            /\ g \in Nat
            /\ Got(t, 1, r) + Got(t, 2, r) = Got(pending, 1, r) + Got(pending, 2, r) + g
            /\ Ahead(t, 1, r) + Ahead(t, 2, r) =
                 Ahead(pending, 1, r) + Ahead(pending, 2, r)
                   + (IF e.spec THEN K + 1 - g ELSE 0)
  <2>a. OneMore(pending, t, e)
    BY <1>1, <1>11 DEF OneMore
  <2>1. Len(t) <= 2 /\ t # << >> /\ t[Len(t)] = e
    <3>1. Len(t) = Len(pending) + 1 /\ Len(pending) \in {0, 1} /\ t[Len(pending) + 1] = e
      BY <2>a, AppendIs
    <3> QED
      BY <1>11, <3>1
  <2>2. ASSUME NEW r \in Req, r \notin so.reqs, NEW i \in {1, 2}
        PROVE  /\ Under(t, i, r) = Under(pending, i, r)
               /\ Got(t, i, r) = Got(pending, i, r)
               /\ Ahead(t, i, r) = Ahead(pending, i, r)
    <3>1. r \notin InBatch(e.reqs)
      BY <1>11, <2>2
    <3>2. Under(t, i, r) = Under(pending, i, r)
      BY <2>a, <3>1, AppendOther
    <3>3. Got(t, i, r) = Got(pending, i, r)
      BY <2>a, <3>1, AppendOther
    <3>4. Ahead(t, i, r) = Ahead(pending, i, r)
      BY <2>a, <3>1, AppendOther
    <3> QED
      BY <3>2, <3>3, <3>4, Zenon
  <2>3. ASSUME NEW r \in so.reqs, NEW g, g = e.kept[IndexIn(e.reqs, r)]
        PROVE  /\ g \in Nat
               /\ Got(t, 1, r) + Got(t, 2, r) = Got(pending, 1, r) + Got(pending, 2, r) + g
               /\ Ahead(t, 1, r) + Ahead(t, 2, r) =
                    Ahead(pending, 1, r) + Ahead(pending, 2, r)
                      + (IF e.spec THEN K + 1 - g ELSE 0)
    <3>1. r \in InBatch(e.reqs)
      BY <1>11
    <3>2. g \in Nat
      BY <2>a, <2>3, <3>1, AppendOwn
    <3>3. Got(t, 1, r) + Got(t, 2, r) = Got(pending, 1, r) + Got(pending, 2, r) + g
      BY <2>a, <2>3, <3>1, AppendOwn
    <3>4. Ahead(t, 1, r) + Ahead(t, 2, r) =
            Ahead(pending, 1, r) + Ahead(pending, 2, r) + (IF e.spec THEN K + 1 - g ELSE 0)
      BY <2>a, <2>3, <3>1, AppendOwn
    <3> QED
      BY <3>2, <3>3, <3>4, Zenon
  <2> QED
    BY <2>1, <2>2, <2>3
<1>13. Lives'
  <2>1. ASSUME NEW r \in Req, status'[r] \in {"new", "waiting"}
        PROVE  /\ known'[r] = 0 /\ length'[r] = PromptLen
               /\ r \notin InBatch(last'.reqs)
               /\ ~Under(t, 1, r) /\ ~Under(t, 2, r)
    <3>1. r \notin so.reqs /\ status[r] \in {"new", "waiting"}
      BY <2>1
    <3>2. /\ known[r] = 0 /\ length[r] = PromptLen
          /\ ~Under(pending, 1, r) /\ ~Under(pending, 2, r)
      BY <3>1 DEF TokensInv, Lives
    <3> QED
      BY <1>1, <1>3, <1>4, <1>9, <1>12, <3>1, <3>2
  <2>2. \A r \in Running' : r \in requests'
    <3> SUFFICES ASSUME NEW r \in Req, status'[r] = "running" PROVE r \in requests'
      BY DEF Running
    <3>1. CASE r \in so.reqs
      BY <1>3, <3>1
    <3>2. CASE r \notin so.reqs
      BY <1>3, <1>9, <3>2 DEF TokensInv, Lives, Running
    <3> QED
      BY <3>1, <3>2
  <2>3. promised' \subseteq Running'
    <3>1. \A r \in promised : r \in Req /\ status[r] = "running"
      BY DEF TokensInv, Lives, Running
    <3>2. \A r \in promised \cup so.reqs : r \in Req /\ status'[r] = "running"
      BY <1>2, <3>1
    <3> QED
      BY <1>1, <3>2 DEF Running
  <2>5. placed' \subseteq Running'
    <3>1. \A r \in placed : r \in Req /\ status[r] = "running"
      BY DEF TokensInv, Lives, Running
    <3>2. \A r \in placed \cup so.reqs : r \in Req /\ status'[r] = "running"
      BY <1>2, <3>1
    <3> QED
      BY <1>1, <3>2 DEF Running
  <2>4. last' # NoOutput
    BY <1>2, <1>3 DEF NoOutput, InBatch
  <2> QED
    BY <1>1, <1>11, <2>1, <2>2, <2>3, <2>4, <2>5 DEF Lives
<1>14. Promises'
  <2>1. ASSUME NEW r \in promised'
        PROVE  cache'[r] # NoDrafts /\ cache'[r].of = Tok(r, length'[r] - 1)
    <3>1. CASE r \in so.reqs
      <4>1. PICK p \in DOMAIN last'.reqs : p = IndexIn(last'.reqs, r) /\ last'.reqs[p] = r
        BY <1>6, <3>1
      <4>2. Proposes(so) /\ drafts' # << >> /\ p \in DOMAIN drafts'
        BY <1>1, <1>5, <3>1, <4>1
      <4>3. cache'[r] = drafts'[p]
        BY <1>2, <1>3, <3>1, <4>1, <4>2 DEF CacheAfter
      <4>4. cache'[r].of = Tok(r, length'[r] - 1)
        BY <1>4, <1>5, <4>1, <4>2, <4>3
      <4>5. Tok(r, length'[r] - 1) # Garbage
        BY <1>2, <3>1, SpecReqAssumption DEF Tok, Garbage
      <4> QED
        BY <4>4, <4>5 DEF NoDrafts
    <3>2. CASE r \notin so.reqs
      <4>1. r \in promised /\ r \in Req /\ status[r] = "running"
        BY <1>1, <3>2 DEF TokensInv, Lives, Running
      <4>2. r \notin so.finished /\ r \in requests
        BY <1>9, <4>1 DEF TokensInv, Lives, Running
      <4>3. cache'[r] = cache[r]
        BY <1>3, <3>2, <4>1, <4>2 DEF CacheAfter
      <4>4. length'[r] = length[r]
        BY <1>4, <3>2, <4>1, <4>2
      <4> QED
        BY <4>1, <4>3, <4>4 DEF TokensInv, Promises
    <3> QED
      BY <3>1, <3>2
  <2>2. ASSUME drafts' = << >>
        PROVE  promised' \cap InBatch(last'.reqs) = {}
    <3>1. CASE Proposes(so)
      <4>1. DOMAIN last'.reqs = {}
        BY <1>5, <2>2, <3>1
      <4> QED
        BY <4>1 DEF InBatch
    <3>2. CASE ~Proposes(so)
      BY <1>1, <1>3, <3>2
    <3> QED
      BY <3>1, <3>2
  <2>3. ASSUME NEW r \in Req, cache'[r] # NoDrafts
        PROVE  cache'[r].of.req = r
    <3>1. CASE r \in so.reqs /\ drafts' # << >>
      <4>1. PICK p \in DOMAIN last'.reqs : p = IndexIn(last'.reqs, r) /\ last'.reqs[p] = r
        BY <1>6, <3>1
      <4>2. p \in DOMAIN drafts' /\ cache'[r] = drafts'[p]
        BY <1>3, <1>5, <3>1, <4>1 DEF CacheAfter
      <4>3. cache'[r].of = Tok(r, length'[r] - 1)
        BY <1>4, <1>5, <4>1, <4>2
      <4> QED
        BY <4>3 DEF Tok
    <3>2. CASE r \notin so.reqs \/ drafts' = << >>
      <4>1. cache'[r] = cache[r]
        BY <1>3, <2>3, <3>2 DEF CacheAfter
      <4> QED
        BY <2>3, <4>1 DEF TokensInv, Promises
    <3> QED
      BY <3>1, <3>2
  <2> QED
    BY <2>1, <2>2, <2>3 DEF Promises
<1>h. Heard'
  <2> DEFINE n == Len(answers)
             a == [reqs |-> so.reqs, yes |-> Proposes(so)]
  <2>1. /\ answers \in Seq([reqs : SUBSET Req, yes : BOOLEAN]) /\ n \in {0, 1}
        /\ DOMAIN answers = 1 .. n
    <3>1. answers \in Seq([reqs : SUBSET Req, yes : BOOLEAN])
      BY DEF TokensInv, Heard
    <3>2. Len(answers) \in Nat /\ DOMAIN answers = 1 .. Len(answers)
      BY <3>1
    <3> QED
      BY <1>1, <3>1, <3>2
  <2>2. Proposes(so) \in BOOLEAN
    BY DEF Proposes
  <2>3. a \in [reqs : SUBSET Req, yes : BOOLEAN] /\ a.reqs = so.reqs
    BY <1>2, <2>2
  <2>4. a.yes = Proposes(so)
    BY Zenon
  <2> HIDE DEF a
  <2>5. /\ answers' \in Seq([reqs : SUBSET Req, yes : BOOLEAN])
        /\ Len(answers') = n + 1 /\ DOMAIN answers' = 1 .. n + 1
        /\ answers'[n + 1] = a /\ \A i \in 1 .. n : answers'[i] = answers[i]
    BY <1>1, <2>1, <2>3 DEF a
  <2> HIDE DEF n
  <2>6. \A r \in placed' : \/ r \in promised'
                           \/ \E i \in DOMAIN answers' : r \in answers'[i].reqs
    <3> SUFFICES ASSUME NEW r \in placed', r \notin promised'
                 PROVE  \E i \in DOMAIN answers' : r \in answers'[i].reqs
      OBVIOUS
    <3>1. CASE r \in so.reqs
      BY <2>1, <2>3, <2>5, <3>1
    <3>2. CASE r \notin so.reqs
      <4>1. r \in placed /\ r \notin promised
        BY <1>1, <3>2
      <4>2. PICK i \in DOMAIN answers : r \in answers[i].reqs
        BY <4>1 DEF TokensInv, Heard
      <4> QED
        BY <2>1, <2>5, <4>2
    <3> QED
      BY <3>1, <3>2
  <2>7. ASSUME NEW i \in DOMAIN answers', NEW r \in Running', answers'[i].yes,
               r \in answers'[i].reqs,
               \A j \in DOMAIN answers' : j > i => r \notin answers'[j].reqs
        PROVE  r \in promised'
    <3>1. CASE i = n + 1
      BY <1>1, <2>3, <2>4, <2>5, <2>7, <3>1
    <3>2. CASE i \in 1 .. n
      <4>1. n + 1 > i /\ n + 1 \in DOMAIN answers'
        BY <2>1, <2>5, <3>2
      <4>2. r \notin so.reqs
        BY <2>3, <2>5, <2>7, <4>1
      <4>3. r \in Running /\ i \in DOMAIN answers
        BY <2>1, <3>2, <4>2 DEF Running
      <4>4. answers[i].yes /\ r \in answers[i].reqs
        BY <2>5, <2>7, <3>2
      <4>5. \A j \in DOMAIN answers : j > i => r \notin answers[j].reqs
        BY <2>1, <2>5, <2>7
      <4>6. r \in promised
        BY <4>3, <4>4, <4>5 DEF TokensInv, Heard, Uncovered
      <4> QED
        BY <1>1, <4>2, <4>6
    <3> QED
      BY <2>1, <2>5, <3>1, <3>2
  <2>8. /\ answers' # << >> /\ answers'[Len(answers')].reqs = InBatch(last'.reqs)
        /\ drafts' # << >> => answers'[Len(answers')].yes
    BY <1>3, <1>5, <2>1, <2>3, <2>4, <2>5
  <2>9. Len(answers') <= 2
    BY <2>1, <2>5
  <2> QED
    BY <2>5, <2>6, <2>7, <2>8, <2>9 DEF Heard, Uncovered
<1>15. Batches'
  <2>1. last'.width \in Buckets \/ LastIsPrefill'
    <3>1. ASSUME NEW r \in Req, Prefills(so, r)
          PROVE  LastIsPrefill'
      <4>1. DOMAIN last'.reqs = {1} /\ last'.reqs[1] = r
        <5>1. Cardinality({r}) = 1
          BY FS_Singleton
        <5>2. DOMAIN last'.reqs = {1}
          BY <1>3, <3>1, <5>1 DEF Prefills, Numbered
        <5> QED
          BY <1>3, <3>1, <5>2 DEF Prefills, InBatch
      <4>2. length[r] = PromptLen
        BY <3>1 DEF Prefills, Waiting, TokensInv, Lives
      <4>3. last'.before[1] = PromptLen /\ length'[r] = PromptLen + 1 /\ ~last'.wide
        BY <1>2, <1>3, <1>4, <3>1, <4>1, <4>2 DEF Prefills
      <4>4. rows'[r] = PromptLen
        BY <1>3, <3>1, PrefillInputs
      <4> QED
        BY <4>1, <4>3, <4>4 DEF LastIsPrefill
    <3>2. ASSUME Decodes(so)
          PROVE  last'.width \in Buckets
      BY <1>2, <1>3, <3>2, WidthIs DEF Decodes
    <3> QED
      BY <3>1, <3>2 DEF Schedules
  <2> QED
    BY <1>3, <1>11, <1>12, <2>1 DEF Batches
<1>16. Counts'
  <2>1. known' \in [Req -> Nat]
    BY <1>1 DEF TokensInv, Counts
  <2>2. ASSUME NEW r \in Req, status'[r] = "running"
        PROVE  /\ length'[r] = PromptLen + known'[r] + Got(t, 1, r) + Got(t, 2, r)
               /\ computed'[r] = length'[r] - 1 + Ahead(t, 1, r) + Ahead(t, 2, r)
    <3>1. /\ Got(pending, 1, r) \in Nat /\ Ahead(pending, 1, r) \in Int
          /\ Got(pending, 2, r) \in Nat /\ Ahead(pending, 2, r) \in Int
      BY <1>11, GotIs
    <3>2. length[r] \in Nat /\ known[r] \in Nat /\ known'[r] = known[r] /\ computed[r] \in Int
      BY <1>1, <1>4 DEF TokensInv, Counts, IInv, PromiseInv
    <3>3. status[r] = "running" =>
            /\ length[r] = PromptLen + known[r] + Got(pending, 1, r) + Got(pending, 2, r)
            /\ computed[r] = length[r] - 1 + Ahead(pending, 1, r) + Ahead(pending, 2, r)
      BY DEF TokensInv, Counts, Running
    <3>4. CASE r \notin so.reqs
      <4>1. /\ Got(t, 1, r) = Got(pending, 1, r) /\ Got(t, 2, r) = Got(pending, 2, r)
            /\ Ahead(t, 1, r) = Ahead(pending, 1, r) /\ Ahead(t, 2, r) = Ahead(pending, 2, r)
        BY <1>12, <3>4
      <4>2. status[r] = "running" /\ r \notin so.finished
        BY <1>9, <2>2, <3>4
      <4>3. length'[r] = length[r] /\ computed'[r] = computed[r]
        BY <1>1, <1>4, <3>4, <4>2
      <4> QED
        BY <3>2, <3>3, <4>1, <4>2, <4>3
    <3>5. CASE r \in so.reqs
      <4>1. PICK g : g = e.kept[IndexIn(e.reqs, r)]
        OBVIOUS
      <4>2. /\ g \in Nat
            /\ Got(t, 1, r) + Got(t, 2, r) = Got(pending, 1, r) + Got(pending, 2, r) + g
            /\ Ahead(t, 1, r) + Ahead(t, 2, r) =
                 Ahead(pending, 1, r) + Ahead(pending, 2, r)
                   + (IF so.spec THEN K + 1 - g ELSE 0)
        BY <1>11, <1>12, <3>5, <4>1
      <4>3. length'[r] = length[r] + g /\ (~so.spec => g = 1)
        BY <1>2, <1>4, <1>6, <1>11, <3>5, <4>1
      <4>4. computed'[r] = computed[r] + advance
        BY <1>1, <3>5
      <4>5. /\ Got(t, 1, r) \in Nat /\ Ahead(t, 1, r) \in Int
            /\ Got(t, 2, r) \in Nat /\ Ahead(t, 2, r) \in Int
        BY <1>11, GotIs
      <4>6. CASE \E q \in Req : Prefills(so, q)
        <5>1. status[r] = "waiting" /\ so.spec = FALSE
          BY <3>5, <4>6 DEF Prefills, Waiting
        <5>2. /\ length[r] = PromptLen /\ known[r] = 0 /\ computed[r] = 0
              /\ ~Under(pending, 1, r) /\ ~Under(pending, 2, r)
          BY <5>1 DEF TokensInv, Lives, IInv, PromiseInv
        <5>3. /\ Got(pending, 1, r) = 0 /\ Got(pending, 2, r) = 0
              /\ Ahead(pending, 1, r) = 0 /\ Ahead(pending, 2, r) = 0
          BY <5>2 DEF Got, Ahead
        <5>4. advance = PromptLen
          BY <4>6 DEF Schedules, Prefills, Decodes
        <5>5. Ahead(t, 1, r) + Ahead(t, 2, r) = 0 /\ Got(t, 1, r) + Got(t, 2, r) = g
          BY <4>2, <5>1, <5>3
        <5>6. g = 1 /\ length'[r] = PromptLen + 1 /\ computed'[r] = PromptLen
          BY <4>2, <4>3, <4>4, <5>1, <5>2, <5>4, NumbersAre
        <5> QED
          BY <3>2, <4>5, <5>2, <5>5, <5>6, NumbersAre
      <4>7. CASE Decodes(so)
        <5>1. status[r] = "running" /\ advance = IF so.spec THEN 1 + K ELSE 1
          BY <3>5, <4>7 DEF Schedules, Prefills, Decodes, Decodable
        <5> QED
          BY <1>2, <3>1, <3>2, <3>3, <4>2, <4>3, <4>4, <4>5, <5>1, NumbersAre
      <4> QED
        BY <4>6, <4>7 DEF Schedules
    <3> QED
      BY <3>4, <3>5
  <2>3. \A r \in Running' : r \in Req /\ status'[r] = "running"
    BY DEF Running
  <2> QED
    BY <1>4, <1>11, <2>1, <2>2, <2>3 DEF Counts
<1> QED
  BY <1>7, <1>8, <1>13, <1>14, <1>15, <1>16, <1>h DEF TokensInv

-----------------------------------------------------------------------------
(* The other steps, which run no batch. *)

LEMMA InitTokens == ServingInit => TokensInv
<1> SUFFICES ASSUME ServingInit PROVE TokensInv
  OBVIOUS
<1>1. IInv
  BY InitIInv
<1>2. /\ last = NoOutput /\ drafts = << >> /\ forward = << >> /\ batch = << >>
      /\ pending = << >> /\ promised = {} /\ finished = {}
      /\ length = [r \in Req |-> PromptLen] /\ known = [r \in Req |-> 0]
      /\ status = [r \in Req |-> "new"]
      /\ cache = [r \in Req |-> NoDrafts] /\ placed = {} /\ answers = << >>
  BY DEF ServingInit, Init
<1>3. Running = {} /\ Decodable = {}
  BY <1>2 DEF Running, Decodable
<1>4. LastTokens
  BY <1>2 DEF LastTokens, NoOutput
<1>5. Lives
  BY <1>2, <1>3 DEF Lives, NoOutput, InBatch, Under
<1>6. Batches
  BY <1>2, <1>3 DEF Batches, NoOutput
<1>7. Counts
  BY <1>2, <1>3, NumbersAre DEF Counts
<1>8. Promises
  BY <1>2 DEF Promises
<1>9. InputsGenuine /\ DraftsOwn
  BY <1>2 DEF InputsGenuine, DraftsOwn
<1>10. Heard
  BY <1>2 DEF Heard
<1> QED
  BY <1>1, <1>4, <1>5, <1>6, <1>7, <1>8, <1>9, <1>10 DEF TokensInv

LEMMA SubmitTokens ==
  ASSUME TokensInv, NEW r \in Req, Submit(r), IInv'
  PROVE  TokensInv'
<1>1. /\ status[r] = "new" /\ status' = [status EXCEPT ![r] = "waiting"]
      /\ UNCHANGED <<requests, batch, rows, last, accepted, drafts, cache, forward, length,
                     computed, known, placed, answers, promised, finished, pending>>
  BY DEF Submit, runnerVars
<1>2. \A s \in Req : /\ status'[s] = "running" <=> status[s] = "running"
                     /\ status'[s] = "gone" <=> status[s] = "gone"
                     /\ status'[s] \in {"new", "waiting"} => status[s] \in {"new", "waiting"}
  BY <1>1 DEF TokensInv, IInv, PromiseInv
<1>3. Running' = Running /\ Decodable' = Decodable
  BY <1>1, <1>2 DEF Running, Decodable, UnderWay
<1>4. Lives'
  <2>1. \A s \in Req : status[s] = "gone" => status'[s] = "gone"
    BY <1>2
  <2>2. \A s \in finished : s \in Req => status'[s] = "gone"
    BY <1>2, <2>1 DEF TokensInv, Lives
  <2> QED
    BY <1>1, <1>2, <1>3, <2>2 DEF TokensInv, Lives
<1>5. LastTokens' /\ Counts' /\ Promises' /\ InputsGenuine' /\ DraftsOwn'
  BY <1>1, <1>3 DEF TokensInv, LastTokens, Counts, Promises, InputsGenuine, DraftsOwn
<1>6. Batches'
  BY <1>1, <1>3 DEF TokensInv, Batches, LastIsPrefill
<1>7. Heard'
  BY <1>1, <1>3 DEF TokensInv, Heard, Uncovered
<1> QED
  BY <1>4, <1>5, <1>6, <1>7 DEF TokensInv

LEMMA FinishTokens ==
  ASSUME TokensInv, NEW r \in Req, Finish(r), IInv'
  PROVE  TokensInv'
<1>1. /\ status[r] = "running" /\ status' = [status EXCEPT ![r] = "gone"]
      /\ finished' = finished \cup {r} /\ promised' = promised \ {r}
      /\ computed' = [computed EXCEPT ![r] = 0] /\ known' = [known EXCEPT ![r] = 0]
      /\ placed' = placed \ {r}
      /\ UNCHANGED <<requests, batch, rows, last, accepted, drafts, cache, forward, length,
                     answers, pending>>
  BY DEF Finish, runnerVars
<1>2. \A s \in Req : /\ status'[s] = IF s = r THEN "gone" ELSE status[s]
                     /\ known'[s] = IF s = r THEN 0 ELSE known[s]
                     /\ computed'[s] = IF s = r THEN 0 ELSE computed[s]
  BY <1>1 DEF TokensInv, IInv, PromiseInv
<1>3. Running' = Running \ {r} /\ Decodable' \subseteq Decodable
  BY <1>1, <1>2 DEF Running, Decodable, UnderWay
<1>4. Lives'
  BY <1>1, <1>2, <1>3 DEF TokensInv, Lives
<1>5. LastTokens' /\ Promises' /\ InputsGenuine' /\ DraftsOwn'
  BY <1>1 DEF TokensInv, LastTokens, Promises, InputsGenuine, DraftsOwn
<1>6. Counts'
  <2>1. known' \in [Req -> Nat]
    BY <1>1 DEF TokensInv, Counts
  <2>2. \A s \in Running' : s \in Running /\ known'[s] = known[s] /\ computed'[s] = computed[s]
    BY <1>2, <1>3 DEF Running
  <2> QED
    BY <1>1, <2>1, <2>2 DEF TokensInv, Counts
<1>7. Batches'
  BY <1>1, <1>3 DEF TokensInv, Batches, LastIsPrefill
<1>8. Heard'
  BY <1>1, <1>3 DEF TokensInv, Heard, Uncovered
<1> QED
  BY <1>4, <1>5, <1>6, <1>7, <1>8 DEF TokensInv

LEMMA PrefillTokens ==
  ASSUME OneBucket, TokensInv, NEW r \in Req, SchedulePrefill(r), IInv'
  PROVE  TokensInv'
<1> DEFINE so == Step({r}, TRUE, FALSE)
<1>1. Prefills(so, r) /\ Current(so)
  BY DEF SchedulePrefill, Prefills, Current, Step
<1>2. so.reqs = {r}
  BY DEF Step
<1>3. Execute(so, PromptLen) /\ status' = [status EXCEPT ![r] = "running"]
  BY DEF SchedulePrefill
<1> HIDE DEF so
<1>4. Schedules(so, PromptLen)
  BY <1>1 DEF Schedules
<1>5. \A s \in Req : status'[s] = IF s \in so.reqs THEN "running" ELSE status[s]
  BY <1>2, <1>3 DEF TokensInv, IInv, PromiseInv
<1> QED
  BY <1>1, <1>3, <1>4, <1>5, ScheduleStep

LEMMA DecodeTokens ==
  ASSUME OneBucket, TokensInv, NEW spec \in BOOLEAN, Scheduled(spec), IInv'
  PROVE  TokensInv'
<1> DEFINE so == Step(Decodable, FALSE, spec)
           advance == IF spec THEN 1 + K ELSE 1
<1>1. /\ so.reqs = Decodable /\ so.prefill = FALSE /\ Current(so)
  BY DEF Current, Step
<1>2. so.spec = spec
  BY DEF Step
<1>3. Execute(so, advance) /\ status' = status
  BY DEF Scheduled
<1>4. /\ Decodable # {}
      /\ spec => \A r \in Decodable : r \in placed /\ computed[r] < MaxLen - 1 - K
  BY DEF Scheduled
<1>5. advance = IF so.spec THEN 1 + K ELSE 1
  BY <1>2, Zenon
<1> HIDE DEF so, advance
<1>6. Decodes(so)
  BY <1>1, <1>2, <1>4 DEF Decodes
<1>7. Schedules(so, advance)
  BY <1>5, <1>6 DEF Schedules
<1>8. \A s \in Req : status'[s] = IF s \in so.reqs THEN "running" ELSE status[s]
  BY <1>1, <1>3 DEF Decodable
<1> QED
  BY <1>1, <1>3, <1>7, <1>8, ScheduleStep

LEMMA NothingTokens ==
  ASSUME TokensInv, ScheduleNothing, IInv'
  PROVE  TokensInv'
<1>1. /\ Decodable = {} /\ finished' = {}
      /\ UNCHANGED <<status, computed, known, placed, answers, promised, pending>>
      /\ requests' = requests \ finished /\ batch' = << >>
      /\ UNCHANGED <<last, accepted, drafts, cache, forward, length>>
  BY DEF ScheduleNothing, RunEmpty, Step
<1>2. Running' = Running /\ Decodable' = {}
  BY <1>1 DEF Running, Decodable, UnderWay
<1>3. Lives'
  <2>1. \A r \in Running : r \notin finished
    BY DEF TokensInv, Lives, Running
  <2> QED
    BY <1>1, <1>2, <2>1 DEF TokensInv, Lives
<1>4. LastTokens' /\ Counts' /\ Promises' /\ InputsGenuine' /\ DraftsOwn'
  BY <1>1, <1>2 DEF TokensInv, LastTokens, Counts, Promises, InputsGenuine, DraftsOwn
<1>5. Batches'
  <2>1. LastIsPrefill => LastIsPrefill'
    BY <1>1 DEF LastIsPrefill
  <2> QED
    BY <1>1, <1>2, <2>1 DEF TokensInv, Batches
<1>6. Heard'
  BY <1>1, <1>2 DEF TokensInv, Heard, Uncovered
<1> QED
  BY <1>3, <1>4, <1>5, <1>6 DEF TokensInv

(* An answer only tells the scheduler what the runner last said, unless a  *)
(* newer one is under way.                                                 *)
LEMMA AnswerTokens ==
  ASSUME TokensInv, Answer, IInv'
  PROVE  TokensInv'
<1> DEFINE a == Head(answers)
<1>1. /\ answers # << >> /\ answers' = Tail(answers)
      /\ placed' = IF a.yes THEN placed \cup {r \in a.reqs : status[r] = "running"}
                   ELSE placed \ a.reqs
      /\ UNCHANGED <<requests, batch, rows, last, accepted, drafts, cache, forward, length,
                     status, computed, known, promised, finished, pending>>
  BY DEF Answer, runnerVars
<1>2. Running' = Running /\ Decodable' = Decodable
  BY <1>1 DEF Running, Decodable, UnderWay
<1>3. /\ answers \in Seq([reqs : SUBSET Req, yes : BOOLEAN]) /\ Len(answers) \in {1, 2}
      /\ DOMAIN answers = 1 .. Len(answers) /\ a = answers[1]
  <2>1. answers \in Seq([reqs : SUBSET Req, yes : BOOLEAN]) /\ Len(answers) <= 2
    BY DEF TokensInv, Heard
  <2>2. Len(answers) \in Nat /\ DOMAIN answers = 1 .. Len(answers) /\ Len(answers) # 0
    BY <1>1, <2>1
  <2> QED
    BY <1>1, <2>1, <2>2
<1>4. a \in [reqs : SUBSET Req, yes : BOOLEAN]
  <2>1. 1 \in DOMAIN answers
    BY <1>3
  <2>2. answers[1] \in [reqs : SUBSET Req, yes : BOOLEAN]
    BY <1>3, <2>1, EntryIs
  <2> QED
    BY <1>3, <2>2
<1>5. /\ answers' \in Seq([reqs : SUBSET Req, yes : BOOLEAN])
      /\ Len(answers') = Len(answers) - 1 /\ DOMAIN answers' = 1 .. Len(answers) - 1
      /\ \A i \in DOMAIN answers' : answers'[i] = answers[i + 1]
      /\ answers' # << >> => Len(answers) = 2
  <2>1. /\ answers' \in Seq([reqs : SUBSET Req, yes : BOOLEAN])
        /\ Len(answers') = Len(answers) - 1 /\ DOMAIN answers' = 1 .. Len(answers) - 1
        /\ \A i \in DOMAIN answers' : answers'[i] = answers[i + 1]
    BY <1>1, <1>3
  <2>2. answers' # << >> => Len(answers') # 0
    BY <2>1
  <2> QED
    BY <1>3, <2>1, <2>2
<1> HIDE DEF a
<1>6. placed' \subseteq Running'
  BY <1>1, <1>2, <1>4 DEF TokensInv, Lives, Running
<1>7. Lives'
  BY <1>1, <1>2, <1>6 DEF TokensInv, Lives
<1>8. LastTokens' /\ Counts' /\ Promises' /\ InputsGenuine' /\ DraftsOwn'
  BY <1>1, <1>2 DEF TokensInv, LastTokens, Counts, Promises, InputsGenuine, DraftsOwn
<1>9. Batches'
  BY <1>1, <1>2 DEF TokensInv, Batches, LastIsPrefill
<1>10. ASSUME NEW r \in placed'
       PROVE  r \in promised \/ \E i \in DOMAIN answers' : r \in answers'[i].reqs
  <2> SUFFICES ASSUME \A i \in DOMAIN answers' : r \notin answers'[i].reqs
               PROVE  r \in promised
    OBVIOUS
  <2>1. \A j \in DOMAIN answers : j > 1 => r \notin answers[j].reqs
    <3> SUFFICES ASSUME NEW j \in DOMAIN answers, j > 1 PROVE r \notin answers[j].reqs
      OBVIOUS
    <3>1. j - 1 \in DOMAIN answers' /\ answers'[j - 1] = answers[j]
      BY <1>3, <1>5
    <3> QED
      BY <3>1
  <2>2. CASE r \in a.reqs
    <3>1. a.yes /\ r \in Running /\ 1 \in DOMAIN answers
      BY <1>1, <1>2, <1>3, <1>6, <2>2
    <3> QED
      BY <1>3, <2>1, <2>2, <3>1 DEF TokensInv, Heard, Uncovered
  <2>3. CASE r \notin a.reqs
    <3>1. r \in placed
      BY <1>1, <2>3
    <3>2. \A i \in DOMAIN answers : r \notin answers[i].reqs
      BY <1>3, <2>1, <2>3
    <3> QED
      BY <3>1, <3>2 DEF TokensInv, Heard
  <2> QED
    BY <2>2, <2>3
<1>11. ASSUME NEW i \in DOMAIN answers', NEW r \in Running', answers'[i].yes,
              r \in answers'[i].reqs,
              \A j \in DOMAIN answers' : j > i => r \notin answers'[j].reqs
       PROVE  r \in promised'
  <2>1. i + 1 \in DOMAIN answers /\ answers'[i] = answers[i + 1]
    BY <1>3, <1>5
  <2>2. \A j \in DOMAIN answers : j > i + 1 => r \notin answers[j].reqs
    <3> SUFFICES ASSUME NEW j \in DOMAIN answers, j > i + 1 PROVE r \notin answers[j].reqs
      OBVIOUS
    <3>1. j - 1 \in DOMAIN answers' /\ answers'[j - 1] = answers[j] /\ j - 1 > i
      BY <1>3, <1>5
    <3> QED
      BY <1>11, <3>1
  <2> QED
    BY <1>1, <1>2, <1>11, <2>1, <2>2 DEF TokensInv, Heard, Uncovered
<1>12. answers' # << >> => /\ answers'[Len(answers')].reqs = InBatch(last'.reqs)
                           /\ drafts' # << >> => answers'[Len(answers')].yes
  <2> SUFFICES ASSUME answers' # << >>
               PROVE  /\ answers'[Len(answers')].reqs = InBatch(last'.reqs)
                      /\ drafts' # << >> => answers'[Len(answers')].yes
    OBVIOUS
  <2>1. Len(answers') = 1 /\ answers'[1] = answers[2] /\ Len(answers) = 2
    BY <1>5
  <2> QED
    BY <1>1, <2>1 DEF TokensInv, Heard
<1>13. Heard'
  <2>1. Len(answers') <= 2
    BY <1>3, <1>5
  <2>2. \A r \in placed' : \/ r \in promised'
                           \/ \E i \in DOMAIN answers' : r \in answers'[i].reqs
    BY <1>1, <1>10
  <2>3. ASSUME NEW i \in DOMAIN answers', NEW r \in Running', Uncovered(i, r)', answers'[i].yes
        PROVE  r \in promised'
    BY <1>11, <2>3 DEF Uncovered
  <2> QED
    BY <1>5, <1>12, <2>1, <2>2, <2>3 DEF Heard
<1> QED
  BY <1>7, <1>8, <1>9, <1>13 DEF TokensInv

OneLess(s, t) == s \in Seq(Entries) /\ s # << >> /\ Len(s) <= 2 /\ t = Tail(s)

LEMMA TailIs ==
  ASSUME NEW s, NEW t, OneLess(s, t)
  PROVE  /\ Len(s) \in {1, 2} /\ DOMAIN s = 1 .. Len(s)
         /\ Len(t) = Len(s) - 1 /\ DOMAIN t = 1 .. Len(s) - 1
         /\ \A i \in DOMAIN t : t[i] = s[i + 1]
         /\ t = << >> <=> Len(s) = 1
<1>1. Len(s) \in Nat /\ DOMAIN s = 1 .. Len(s) /\ Len(s) # 0
  BY DEF OneLess
<1>2. Len(t) = Len(s) - 1 /\ DOMAIN t = 1 .. Len(s) - 1 /\ \A i \in DOMAIN t : t[i] = s[i + 1]
  BY DEF OneLess
<1>3. t \in Seq(Entries)
  BY DEF OneLess
<1>4. Len(s) = 1 \/ Len(s) = 2
  BY <1>1 DEF OneLess
<1>5. t = << >> <=> Len(t) = 0
  BY <1>3
<1> QED
  BY <1>1, <1>2, <1>4, <1>5

(* Without its head, the second step under way becomes the first. *)
LEMMA TailUnder ==
  ASSUME NEW s, NEW t, OneLess(s, t), NEW r
  PROVE  /\ Under(t, 1, r) = Under(s, 2, r) /\ ~Under(t, 2, r)
         /\ Got(t, 1, r) = Got(s, 2, r) /\ Got(t, 2, r) = 0
         /\ Ahead(t, 1, r) = Ahead(s, 2, r) /\ Ahead(t, 2, r) = 0
<1>1. /\ Len(s) \in {1, 2} /\ DOMAIN s = 1 .. Len(s)
      /\ DOMAIN t = 1 .. Len(s) - 1 /\ \A i \in DOMAIN t : t[i] = s[i + 1]
  BY TailIs
<1>2. (1 \in DOMAIN t <=> 2 \in DOMAIN s) /\ 2 \notin DOMAIN t
  BY <1>1
<1>3. 1 \in DOMAIN t => t[1] = s[2]
  BY <1>1
<1>4. Under(t, 1, r) <=> Under(s, 2, r)
  BY <1>2, <1>3 DEF Under
<1>5. ~Under(t, 2, r)
  BY <1>2 DEF Under
<1>6. Under(t, 1, r) => t[1] = s[2]
  BY <1>3 DEF Under
<1>7. Under(t, 1, r) = Under(s, 2, r)
  BY <1>4 DEF Under
<1>8. Got(t, 1, r) = Got(s, 2, r) /\ Got(t, 2, r) = 0
  BY <1>4, <1>5, <1>6 DEF Got
<1> QED
  BY <1>4, <1>5, <1>6, <1>7, <1>8 DEF Ahead

(* What is received was already counted: nobody becomes decodable, and     *)
(* both counts stay as far from the request's own length as before.        *)
LEMMA ReceiveTokens ==
  ASSUME TokensInv, Receive, IInv'
  PROVE  TokensInv'
<1> DEFINE o == Head(pending)
           Count(r) == o.kept[IndexIn(o.reqs, r)]
           of == {r \in InBatch(o.reqs) : status[r] = "running"}
           done == {r \in of : known[r] + Count(r) >= MaxOut}
<1>1. /\ known' = [r \in Req |-> IF r \in done THEN 0
                                 ELSE IF r \in of THEN known[r] + Count(r) ELSE known[r]]
      /\ computed' = [r \in Req |-> IF r \in done THEN 0
                                    ELSE IF r \in of /\ o.spec
                                    THEN computed[r] - (K + 1 - Count(r))
                                    ELSE computed[r]]
      /\ promised' = promised \ done /\ placed' = placed \ done
      /\ status' = [r \in Req |-> IF r \in done THEN "gone" ELSE status[r]]
      /\ finished' = finished \cup done
  BY DEF Receive
<1>2. /\ pending # << >> /\ pending' = Tail(pending)
      /\ Len(pending) = 2 \/ Decodable \cup Waiting = {}
      /\ UNCHANGED <<requests, batch, rows, last, accepted, drafts, cache, forward, length,
                     answers>>
  BY DEF Receive, runnerVars
<1>3. /\ pending \in Seq(Entries) /\ Len(pending) <= 2 /\ pending' \in Seq(Entries)
      /\ known \in [Req -> Nat] /\ computed \in [Req -> Int]
  BY DEF TokensInv, IInv, PromiseInv, Batches, Counts
<1>4. o = pending[1] /\ 1 \in DOMAIN pending
  BY <1>2, <1>3
<1>5. PICK s, t : s = pending /\ t = pending'
  OBVIOUS
<1>6. /\ s \in Seq(Entries) /\ s # << >> /\ Len(s) <= 2 /\ t = Tail(s) /\ t \in Seq(Entries)
  BY <1>2, <1>3, <1>5
<1>o. OneLess(s, t)
  BY <1>6 DEF OneLess
<1>7. ASSUME NEW r \in Req, status[r] = "running"
      PROVE  /\ r \in of <=> Under(s, 1, r)
             /\ r \in of => Count(r) = Got(s, 1, r)
  BY <1>4, <1>5, <1>7 DEF Under, Got
<1>8. /\ \A r \in of : r \in Req /\ status[r] = "running"
      /\ done \subseteq of
  <2>1. o.reqs \in Seq(Req)
    BY <1>3, <1>4, EntryIs DEF Entries
  <2> QED
    BY <2>1, EntryIs DEF InBatch
<1>a. o.spec = s[1].spec
  BY <1>4, <1>5
<1> HIDE DEF o, Count, of, done
<1>9. \A r \in Req : status'[r] = IF r \in done THEN "gone" ELSE status[r]
  BY <1>1
<1>10. Running' = Running \ done
  BY <1>8, <1>9 DEF Running
<1>11. ASSUME NEW r \in Req, status'[r] = "running"
       PROVE  /\ known'[r] = known[r] + Got(s, 1, r)
              /\ computed'[r] = computed[r] - Ahead(s, 1, r)
              /\ r \notin done /\ status[r] = "running"
  <2>1. r \notin done /\ status[r] = "running"
    BY <1>9, <1>11
  <2>2. Got(s, 1, r) \in Nat /\ Ahead(s, 1, r) \in Int /\ known[r] \in Nat /\ computed[r] \in Int
    BY <1>3, <1>6, GotIs
  <2>3. CASE r \in of
    <3>1. Count(r) = Got(s, 1, r) /\ Under(s, 1, r)
      BY <1>7, <2>1, <2>3
    <3>2. Ahead(s, 1, r) = IF o.spec THEN K + 1 - Count(r) ELSE 0
      BY <1>a, <3>1 DEF Ahead
    <3> QED
      BY <1>1, <2>1, <2>2, <2>3, <3>1, <3>2
  <2>4. CASE r \notin of
    <3>1. Got(s, 1, r) = 0 /\ Ahead(s, 1, r) = 0
      BY <1>6, <1>7, <2>1, <2>4, GotIs
    <3> QED
      BY <1>1, <2>1, <2>2, <2>4, <3>1
  <2> QED
    BY <2>1, <2>3, <2>4
<1>12. known' \in [Req -> Nat]
  <2>1. \A r \in of : Count(r) \in Nat
    BY <1>6, <1>7, <1>8, GotIs
  <2> QED
    BY <1>1, <1>3, <2>1
<1>13. Decodable' \subseteq Decodable
  <2> SUFFICES ASSUME NEW r \in Decodable' PROVE r \in Decodable
    OBVIOUS
  <2>1. /\ r \in Req /\ status'[r] = "running"
        /\ known'[r] + Cardinality({i \in DOMAIN t : r \in InBatch(t[i].reqs)}) < MaxOut
    BY <1>5 DEF Decodable, UnderWay
  <2>2. Len(t) <= 2
    BY <1>6
  <2>3. /\ Cardinality({i \in DOMAIN t : r \in InBatch(t[i].reqs)}) =
             (IF Under(t, 1, r) THEN 1 ELSE 0) + (IF Under(t, 2, r) THEN 1 ELSE 0)
        /\ Cardinality({i \in DOMAIN s : r \in InBatch(s[i].reqs)}) =
             (IF Under(s, 1, r) THEN 1 ELSE 0) + (IF Under(s, 2, r) THEN 1 ELSE 0)
    BY <1>6, <2>2, UnderWayIs
  <2>4. Under(t, 1, r) = Under(s, 2, r) /\ ~Under(t, 2, r)
    BY <1>o, TailUnder
  <2>5. /\ Got(s, 1, r) \in Nat /\ (Under(s, 1, r) => Got(s, 1, r) >= 1) /\ known[r] \in Nat
    BY <1>3, <1>6, <2>1, GotIs
  <2>6. known'[r] = known[r] + Got(s, 1, r) /\ status[r] = "running"
    BY <1>11, <2>1
  <2>7. known[r] + Cardinality({i \in DOMAIN s : r \in InBatch(s[i].reqs)}) < MaxOut
    BY <2>1, <2>3, <2>4, <2>5, <2>6, SpecLengthAssumption
  <2> QED
    BY <1>5, <2>1, <2>6, <2>7 DEF Decodable, UnderWay
<1>14. LastTokens' /\ InputsGenuine' /\ DraftsOwn'
  BY <1>2 DEF TokensInv, LastTokens, InputsGenuine, DraftsOwn
<1>15. Promises'
  BY <1>1, <1>2 DEF TokensInv, Promises
<1>16. Lives'
  <2>1. ASSUME NEW r \in Req, status'[r] \in {"new", "waiting"}
        PROVE  /\ known'[r] = 0 /\ length'[r] = PromptLen
               /\ r \notin InBatch(last'.reqs)
               /\ ~Under(t, 1, r) /\ ~Under(t, 2, r)
    <3>1. status[r] \in {"new", "waiting"} /\ r \notin done
      BY <1>9, <2>1
    <3>2. r \notin of
      BY <1>8, <3>1
    <3>3. known[r] = 0 /\ length[r] = PromptLen /\ r \notin InBatch(last.reqs) /\ ~Under(s, 2, r)
      BY <1>5, <3>1 DEF TokensInv, Lives
    <3>4. ~Under(t, 1, r) /\ ~Under(t, 2, r)
      BY <1>o, <3>3, TailUnder
    <3> QED
      BY <1>1, <1>2, <3>1, <3>2, <3>3, <3>4
  <2>3. \A r \in finished' : r \in Req /\ status'[r] = "gone"
    BY <1>1, <1>8, <1>9 DEF TokensInv, Lives
  <2>4. promised' \subseteq Running' /\ placed' \subseteq Running'
    BY <1>1, <1>10 DEF TokensInv, Lives
  <2> QED
    BY <1>2, <1>5, <1>10, <2>1, <2>3, <2>4 DEF TokensInv, Lives
<1>17. Counts'
  <2>1. ASSUME NEW r \in Req, status'[r] = "running"
        PROVE  /\ length'[r] = PromptLen + known'[r] + Got(t, 1, r) + Got(t, 2, r)
               /\ computed'[r] = length'[r] - 1 + Ahead(t, 1, r) + Ahead(t, 2, r)
    <3>1. /\ known'[r] = known[r] + Got(s, 1, r) /\ computed'[r] = computed[r] - Ahead(s, 1, r)
          /\ status[r] = "running"
      BY <1>11, <2>1
    <3>2. /\ length[r] = PromptLen + known[r] + Got(s, 1, r) + Got(s, 2, r)
          /\ computed[r] = length[r] - 1 + Ahead(s, 1, r) + Ahead(s, 2, r)
      BY <1>5, <3>1 DEF TokensInv, Counts, Running
    <3>3. /\ Got(t, 1, r) = Got(s, 2, r) /\ Got(t, 2, r) = 0
          /\ Ahead(t, 1, r) = Ahead(s, 2, r) /\ Ahead(t, 2, r) = 0
      BY <1>o, TailUnder
    <3>4. /\ Got(s, 1, r) \in Nat /\ Ahead(s, 1, r) \in Int
          /\ Got(s, 2, r) \in Nat /\ Ahead(s, 2, r) \in Int
      BY <1>6, GotIs
    <3>5. length[r] \in Nat /\ known[r] \in Nat /\ computed[r] \in Int
      BY <1>3 DEF TokensInv, Counts
    <3>6. length'[r] = length[r]
      BY <1>2
    <3> QED
      BY <3>1, <3>2, <3>3, <3>4, <3>5, <3>6, NumbersAre
  <2>2. length' \in [Req -> Nat]
    BY <1>2 DEF TokensInv, Counts
  <2> QED
    BY <1>5, <1>12, <2>1, <2>2 DEF Counts, Running
<1>18. Batches'
  <2>1. batch' = last'.reqs \/ (batch' = << >> /\ InBatch(last'.reqs) \cap Decodable' = {})
    BY <1>2, <1>13 DEF TokensInv, Batches
  <2>2. /\ Len(t) <= 2 /\ (t = << >> => Len(s) = 1)
        /\ t # << >> => Len(s) = 2 /\ t[Len(t)] = s[Len(s)]
    BY <1>o, TailIs
  <2>3. t = << >> => Decodable' = {}
    BY <1>2, <1>5, <1>13, <2>2
  <2>4. last' # NoOutput => last'.width \in Buckets \/ LastIsPrefill'
    BY <1>2 DEF TokensInv, Batches, LastIsPrefill
  <2>5. t # << >> => /\ t[Len(t)].reqs = last'.reqs /\ t[Len(t)].kept = last'.kept
                     /\ t[Len(t)].spec = last'.spec
    BY <1>2, <1>5, <1>6, <2>2 DEF TokensInv, Batches
  <2> QED
    BY <1>5, <2>1, <2>2, <2>3, <2>4, <2>5 DEF Batches
<1>19. Heard'
  <2>1. \A r \in placed' : r \in placed /\ r \notin done
    BY <1>1
  <2>2. \A r \in Running' : r \in Running /\ r \notin done
    BY <1>10
  <2> QED
    BY <1>1, <1>2, <2>1, <2>2 DEF TokensInv, Heard, Uncovered
<1> QED
  BY <1>14, <1>15, <1>16, <1>17, <1>18, <1>19 DEF TokensInv

-----------------------------------------------------------------------------

LEMMA StepTokens ==
  ASSUME OneBucket, TokensInv, [ServingNext]_servingVars
  PROVE  TokensInv'
<1>1. IInv'
  BY StepIInv DEF TokensInv
<1>2. CASE UNCHANGED servingVars
  <2>1. /\ UNCHANGED <<requests, batch, rows, last, accepted, drafts, cache, forward, length>>
        /\ UNCHANGED <<status, computed, known, placed, answers, promised, finished, pending>>
    BY <1>2 DEF servingVars, runnerVars, schedulerVars
  <2>2. Running' = Running /\ Decodable' = Decodable
    BY <2>1 DEF Running, Decodable, UnderWay
  <2>3. LastTokens' /\ Lives' /\ Counts' /\ Promises' /\ InputsGenuine' /\ DraftsOwn'
    BY <2>1, <2>2
    DEF TokensInv, LastTokens, Lives, Counts, Promises, InputsGenuine, DraftsOwn
  <2>4. Batches'
    BY <2>1, <2>2 DEF TokensInv, Batches, LastIsPrefill
  <2>5. Heard'
    BY <2>1, <2>2 DEF TokensInv, Heard, Uncovered
  <2> QED
    BY <1>1, <2>3, <2>4, <2>5 DEF TokensInv
<1>3. CASE ScheduleDecode
  BY <1>1, <1>3, DecodeIs, DecodeTokens
<1> QED
  BY <1>1, <1>2, <1>3, SubmitTokens, FinishTokens, PrefillTokens, NothingTokens,
     AnswerTokens, ReceiveTokens
  DEF ServingNext

(* Whatever the model agrees with, whoever enters, leaves or waits and     *)
(* however late the answers are, a row is fed its request's own latest     *)
(* token at that token's position, unless its step was scheduled with      *)
(* drafts that were declined, or follows one that dropped its drafts.      *)
THEOREM AlwaysInputsGenuine == OneBucket => (ServingSpec => []InputsGenuine)
<1> SUFFICES ASSUME OneBucket PROVE ServingSpec => []InputsGenuine
  OBVIOUS
<1>1. TokensInv /\ [ServingNext]_servingVars => TokensInv'
  BY StepTokens
<1>2. TokensInv => InputsGenuine
  BY DEF TokensInv
<1> QED
  BY InitTokens, <1>1, <1>2, PTL DEF ServingSpec

(* ... and the drafts it verifies are those it was fed and its own         *)
(* request's, also in a surprised step: there only their token may be an   *)
(* earlier one.                                                            *)
THEOREM AlwaysDraftsOwn == OneBucket => (ServingSpec => []DraftsOwn)
<1> SUFFICES ASSUME OneBucket PROVE ServingSpec => []DraftsOwn
  OBVIOUS
<1>1. TokensInv /\ [ServingNext]_servingVars => TokensInv'
  BY StepTokens
<1>2. TokensInv => DraftsOwn
  BY DEF TokensInv
<1> QED
  BY InitTokens, <1>1, <1>2, PTL DEF ServingSpec

-----------------------------------------------------------------------------
(* Types.  What needs an argument is that the scheduler's count, which     *)
(* takes every draft as accepted, never exceeds the model length.          *)

(* What is not running counts nothing. *)
Settled == \A r \in Req : status[r] # "running" => computed[r] = 0

(* A step without drafts keeps one token of each row. *)
PlainKeepOne ==
  \A i \in DOMAIN pending : ~pending[i].spec =>
    \A p \in DOMAIN pending[i].kept : pending[i].kept[p] = 1

(* The newest step leaves room for one more token before its drafts are    *)
(* taken back: more drafts are only scheduled where they fit.              *)
Newest(r) == Under(pending, Len(pending), r) /\ pending[Len(pending)].spec
Ceiling ==
  \A r \in Req :
    status[r] = "running" =>
      computed[r] <= MaxLen /\ (Newest(r) => computed[r] < MaxLen)

(* What the runner keeps. *)
RunnerTypes ==
  /\ requests \subseteq Req /\ rows \in [Req -> Nat]
  /\ last \in Outputs /\ accepted \in Seq(Token)
  /\ drafts \in Seq(DraftRows) /\ only \in Seq(DraftRows)
  /\ cache \in [Req -> DraftRows]
  /\ forward \in Seq(ForwardRows)

TypesInv == TokensInv /\ RunnerTypes /\ Settled /\ PlainKeepOne /\ Ceiling

(* A sequence over a set is one over any larger set. *)
LEMMA SequenceOfMore ==
  ASSUME NEW S, NEW T, S \subseteq T, NEW s \in Seq(S)
  PROVE  s \in Seq(T)
<1>1. s \in [1 .. Len(s) -> S] /\ Len(s) \in Nat
  OBVIOUS
<1>2. s \in [1 .. Len(s) -> T]
  BY <1>1
<1> QED BY <1>1, <1>2

(* The invariant is strong enough for the types the runs check. *)
LEMMA TypesSuffice ==
  ASSUME TypesInv
  PROVE  TypeOK
<1>1. batch \in Seq(Req) /\ length \in [Req -> Nat] /\ known \in [Req -> Nat]
  BY DEF TypesInv, TokensInv, IInv, RunnerInv, Numbered, Counts
<1>2. /\ status \in [Req -> {"new", "waiting", "running", "gone"}]
      /\ placed \subseteq Req /\ promised \subseteq Req /\ finished \subseteq Req
      /\ computed \in [Req -> Int] /\ pending \in Seq(Entries)
      /\ answers \in Seq([reqs : SUBSET Req, yes : BOOLEAN])
  BY DEF TypesInv, TokensInv, IInv, PromiseInv, Lives, Running, Heard
<1>3. computed \in [Req -> 0 .. MaxLen]
  <2> SUFFICES ASSUME NEW r \in Req PROVE computed[r] \in 0 .. MaxLen
    BY <1>2
  <2>1. CASE status[r] # "running"
    BY <2>1, NumbersAre DEF TypesInv, Settled
  <2>2. CASE status[r] = "running"
    <3>1. computed[r] <= MaxLen /\ computed[r] \in Int
      BY <1>2, <2>2 DEF TypesInv, Ceiling
    <3>2. computed[r] >= 0
      <4> PICK g1 \in Nat, g2 \in Nat : g1 = Got(pending, 1, r) /\ g2 = Got(pending, 2, r)
        BY <1>2, GotIs
      <4> PICK a1 \in Int, a2 \in Int : a1 = Ahead(pending, 1, r) /\ a2 = Ahead(pending, 2, r)
        BY <1>2, GotIs
      <4>1. a1 >= 0 /\ a2 >= 0
        BY <1>2, AheadIs
      <4>2. r \in Running
        BY <2>2 DEF Running
      <4>3. /\ length[r] = PromptLen + known[r] + g1 + g2
            /\ computed[r] = length[r] - 1 + a1 + a2
        BY <4>2 DEF TypesInv, TokensInv, Counts
      <4>4. PromptLen >= 1 /\ known[r] \in Nat
        BY <1>1, SpecLengthAssumption
      <4> QED BY <4>1, <4>3, <4>4, NumbersAre
    <3> QED BY <3>1, <3>2, NumbersAre
  <2> QED BY <2>1, <2>2
<1>4. pending \in Seq([reqs : Seq(Req), kept : Seq(1 .. K + 1), spec : BOOLEAN])
  <2> DEFINE all == [reqs : Seq(Req), kept : Seq(1 .. K + 1), spec : BOOLEAN]
  <2>1. Entries \subseteq all
    BY DEF Entries
  <2> HIDE DEF all
  <2>2. pending \in Seq(all)
    BY <1>2, <2>1, SequenceOfMore, Zenon
  <2> QED BY <2>2 DEF all
<1>5. RunnerTypes
  BY DEF TypesInv
<1> QED BY <1>1, <1>2, <1>3, <1>4, <1>5 DEF RunnerTypes, TypeOK

(* Tokens and rows of drafts. *)
LEMMA TokensAre ==
  /\ Garbage \in Token /\ Placeholder \in DraftRows /\ NoDrafts \in DraftRows
  /\ \A r \in Req, i \in Nat : Tok(r, i) \in Token
BY NumbersAre DEF Garbage, Token, Placeholder, NoDrafts, DraftRows, Tok

(* A function on the positions of a batch is a sequence. *)
LEMMA RowsOf ==
  ASSUME NEW b, Numbered(b), NEW S, NEW f, f = [p \in DOMAIN b |-> f[p]],
         \A p \in DOMAIN b : f[p] \in S
  PROVE  f \in Seq(S)
<1>1. DOMAIN b = 1 .. Len(b) /\ Len(b) \in Nat
  BY DEF Numbered
<1> QED BY <1>1

(* The rows fed come from drafts or the cache. *)
LEMMA FedIsRow ==
  ASSUME RunnerInv, RunnerTypes, NEW so, so.reqs \in SUBSET Req,
         NEW b \in Orders(so), NEW p \in DOMAIN b
  PROVE  Fed(so, b[p], p) \in DraftRows
<1>1. Numbered(b) /\ InBatch(b) = so.reqs /\ b[p] \in Req
  BY OrdersNumbered DEF Numbered
<1>2. CASE Fills(so)
  <2>1. Fed(so, b[p], p) = cache[b[p]]
    BY <1>2 DEF Fed, Fills, HandsOver
  <2> QED
    BY <1>1, <2>1 DEF RunnerTypes
<1>3. CASE ~ Fills(so) /\ HandsOver(so)
  <2>1. last # NoOutput /\ DOMAIN drafts = DOMAIN last.reqs
    BY <1>3 DEF HandsOver, RunnerInv
  <2>2. InBatch(last.reqs) = so.reqs
    BY <1>3, <2>1 DEF HandsOver, CompositionChanged
  <2>3. p \in DOMAIN drafts
    BY <1>1, <2>1, <2>2 DEF RunnerInv, Numbered
  <2>4. drafts[p] \in DraftRows
    BY <2>3, EntryIs DEF RunnerTypes
  <2> QED
    BY <1>3, <2>4 DEF Fed, HandsOver
<1>4. CASE ~ Fills(so) /\ ~ HandsOver(so)
  BY <1>4, TokensAre DEF Fed
<1> QED
  BY <1>2, <1>3, <1>4

(* Host rows are as long as tokens have been received or materialized. *)
LEMMA RowsAfterIs ==
  ASSUME RunnerTypes, NEW so, so.known \in [Req -> Nat]
  PROVE  RowsAfter(so) \in [Req -> Nat]
<1>1. \A r \in Req : rows[r] \in Nat /\ rows[r] + 1 \in Nat /\ PromptLen + so.known[r] \in Nat
  BY NumbersAre DEF RunnerTypes
<1>2. \A r \in Req : Materialized(so, r) \in Nat
  BY <1>1 DEF Materialized
<1> QED BY <1>1, <1>2 DEF RowsAfter

(* A row's first token is one, wherever it comes from. *)
LEMMA FirstIsToken ==
  ASSUME RunnerInv, RunnerTypes, LastTokens, NEW so, so.reqs \in SUBSET Req,
         so.computed \in [Req -> Nat], NEW b \in Orders(so), NEW p \in DOMAIN b
  PROVE  First(so, b[p], p) \in Token
<1>1. Numbered(b) /\ InBatch(b) = so.reqs /\ b[p] \in Req /\ b[p] \in so.reqs
  <2>1. Numbered(b) /\ InBatch(b) = so.reqs
    BY OrdersNumbered
  <2>2. b[p] \in so.reqs
    BY <2>1 DEF InBatch
  <2> QED BY <2>1, <2>2
<1>2. PICK r \in so.reqs : r = b[p]
  BY <1>1
<1>3. last.toks \in Seq(Token) /\ DOMAIN last.toks = DOMAIN last.reqs
  BY DEF RunnerTypes, Outputs, LastTokens
<1>4. ASSUME r \in InBatch(last.reqs)
      PROVE  last.toks[IndexIn(last.reqs, r)] \in Token
  <2>1. IndexIn(last.reqs, r) \in DOMAIN last.toks
    BY <1>3, <1>4, IndexIs
  <2> QED BY <1>3, <2>1, EntryIs
<1>5. ASSUME last # NoOutput, ~CompositionChanged(so)
      PROVE  so.reqs = InBatch(last.reqs) /\ p \in DOMAIN last.reqs
  <2>1. so.reqs = InBatch(last.reqs)
    BY <1>5 DEF CompositionChanged
  <2> QED BY <1>1, <2>1 DEF RunnerInv, Numbered
<1>6. CASE Fills(so)
  <2>1. First(so, r, p) = cache[r].of
    BY <1>6 DEF First, Fills, HandsOver, ToNonspec, Reuses, Rebuilds
  <2>2. cache[r] \in DraftRows
    BY DEF RunnerTypes
  <2> QED BY <1>2, <2>1, <2>2 DEF DraftRows
<1>7. CASE HandsOver(so)
  <2>1. First(so, r, p) = drafts[p].of
    BY <1>7 DEF First, Fills, HandsOver, Speculates, ToNonspec, Reuses, Rebuilds
  <2>2. p \in DOMAIN drafts
    BY <1>5, <1>7 DEF HandsOver, RunnerInv
  <2>3. drafts[p] \in DraftRows
    BY <2>2, EntryIs DEF RunnerTypes
  <2> QED BY <1>2, <2>1, <2>3 DEF DraftRows
<1>8. CASE ToNonspec(so)
  <2>1. First(so, r, p) = accepted[p]
    BY <1>8 DEF First, Fills, HandsOver, Speculates, ToNonspec, Reuses, Rebuilds
  <2>2. accepted = last.toks /\ last # NoOutput /\ ~CompositionChanged(so)
    BY <1>8 DEF ToNonspec, LastTokens, NoOutput
  <2>3. p \in DOMAIN last.toks
    BY <1>3, <1>5, <2>2
  <2> QED BY <1>2, <1>3, <2>1, <2>2, <2>3, EntryIs
<1>9. CASE Reuses(so)
  <2>1. First(so, r, p) = last.toks[IndexIn(last.reqs, r)]
    BY <1>9 DEF First, Fills, HandsOver, Speculates, ToNonspec, Reuses, Rebuilds
  <2>2. r \in InBatch(last.reqs)
    BY <1>5, <1>9 DEF Reuses
  <2> QED BY <1>2, <1>4, <2>1, <2>2
<1>10. CASE ~Fills(so) /\ ~HandsOver(so) /\ ~ToNonspec(so) /\ ~Reuses(so)
  <2>1. First(so, r, p) = Rebuilt(so, r)
    BY <1>10 DEF First, Rebuilds
  <2>2. Gathered(so, r) \in Token
    BY TokensAre DEF Gathered
  <2> QED BY <1>2, <1>4, <2>1, <2>2 DEF Rebuilt
<1> QED BY <1>6, <1>7, <1>8, <1>9, <1>10

(* A step leaves the runner well typed. *)
LEMMA RunTypes ==
  ASSUME RunnerInv, RunnerTypes, LastTokens, length \in [Req -> Nat],
         NEW so, so.reqs \in SUBSET Req, so.spec \in BOOLEAN,
         so.known \in [Req -> Nat], so.computed \in [Req -> Nat], Width(so) \in Nat,
         Run(so),
         \A r \in so.reqs : ~so.prefill => length[r] >= 1,
         \A b \in Orders(so) : \A p \in DOMAIN b :
           Owns(Inputs(so, b[p], p)) /\ Position(so, b[p], p) \in Nat
  PROVE  RunnerTypes'
<1> DEFINE row(b) == [p \in DOMAIN b |-> Inputs(so, b[p], p)]
           kept(b) == [p \in DOMAIN b |-> Kept(row(b)[p])]
           sampled(b) == [p \in DOMAIN b |-> Tok(b[p], length[b[p]] + kept(b)[p] - 1)]
           before(b) == [p \in DOMAIN b |-> length[b[p]]]
<1>1. PICK b \in Orders(so) :
        /\ requests' = (requests \ so.finished) \cup so.reqs
        /\ rows' = RowsAfter(so)
        /\ forward' = row(b)
        /\ last' = [reqs |-> b, kept |-> kept(b), toks |-> sampled(b), before |-> before(b),
                    spec |-> so.spec, wide |-> Speculates(so), width |-> Width(so)]
        /\ accepted' = IF Speculates(so) THEN sampled(b) ELSE accepted
        /\ drafts' \in
             IF Proposes(so)
             THEN {[p \in DOMAIN b |-> [of |-> sampled(b)[p], good |-> good[p]]] :
                     good \in [DOMAIN b -> 0 .. K]}
             ELSE {<< >>}
        /\ only' = drafts'
        /\ cache' = CacheAfter(so, drafts', b)
  BY DEF Run, Only
<1>2. Numbered(b) /\ InBatch(b) = so.reqs /\ \A p \in DOMAIN b : b[p] \in so.reqs /\ b[p] \in Req
  BY OrdersNumbered DEF InBatch
<1>3. ASSUME NEW p \in DOMAIN b
      PROVE  /\ row(b)[p] \in ForwardRows
             /\ kept(b)[p] \in 1 .. K + 1
             /\ sampled(b)[p] \in Token
             /\ before(b)[p] \in Nat
  <2> DEFINE in == Inputs(so, b[p], p)
  <2>1. /\ row(b)[p] = in /\ kept(b)[p] = Kept(in)
        /\ sampled(b)[p] = Tok(b[p], length[b[p]] + kept(b)[p] - 1)
        /\ before(b)[p] = length[b[p]]
    OBVIOUS
  <2>2. Owns(in) /\ in.first \in Token /\ in.at \in Nat
    BY FirstIsToken DEF Inputs
  <2>3. /\ in = [req |-> b[p], first |-> in.first, at |-> in.at, fed |-> in.fed,
                 verified |-> in.verified, due |-> in.due, surprised |-> in.surprised]
        /\ in.req = b[p] /\ in.fed = Fed(so, b[p], p)
        /\ in.due = IF so.prefill THEN 0 ELSE length[b[p]] - 1
    BY DEF Inputs
  <2> HIDE DEF in, row, kept, sampled, before
  <2>4. in.fed \in DraftRows
    BY <2>3, FedIsRow
  <2>5. in.due \in Nat /\ length[b[p]] \in Nat
    <3>1. b[p] \in so.reqs /\ length[b[p]] \in Nat
      BY <1>2
    <3> QED BY <2>3, <3>1
  <2>6. in.verified = in.fed
    BY <2>2 DEF Owns
  <2>7. in \in ForwardRows
    <3>1. in.surprised \in BOOLEAN
      BY DEF in, Inputs, Surprised
    <3> QED BY <1>2, <2>2, <2>3, <2>4, <2>5, <2>6, <3>1 DEF ForwardRows
  <2>8. Kept(in) \in 1 .. K + 1
    <3>1. Good(in.fed)
      BY <2>4 DEF DraftRows, Good
    <3> QED BY <3>1, KeptIs
  <2>9. length[b[p]] + kept(b)[p] - 1 \in Nat
    BY <2>1, <2>5, <2>8, NumbersAre
  <2>10. Tok(b[p], length[b[p]] + kept(b)[p] - 1) \in Token
    BY <1>2, <2>9, TokensAre
  <2> QED BY <2>1, <2>2, <2>5, <2>7, <2>8, <2>10
<1>4. /\ row(b) \in Seq(ForwardRows) /\ kept(b) \in Seq(1 .. K + 1)
      /\ sampled(b) \in Seq(Token) /\ before(b) \in Seq(Nat)
  <2>1. /\ row(b) = [p \in DOMAIN b |-> row(b)[p]]
        /\ kept(b) = [p \in DOMAIN b |-> kept(b)[p]]
        /\ sampled(b) = [p \in DOMAIN b |-> sampled(b)[p]]
        /\ before(b) = [p \in DOMAIN b |-> before(b)[p]]
    OBVIOUS
  <2> HIDE DEF row, kept, sampled, before
  <2> QED BY <1>2, <1>3, <2>1, RowsOf
<1> HIDE DEF row, kept, sampled, before
<1>5. last' \in Outputs
  <2>1. Speculates(so) \in BOOLEAN
    BY DEF Speculates
  <2>2. b \in Seq(Req)
    BY <1>2 DEF Numbered
  <2>3. so.spec \in BOOLEAN
    OBVIOUS
  <2> QED BY <1>1, <1>4, <2>1, <2>2, <2>3 DEF Outputs
<1>6. accepted' \in Seq(Token)
  BY <1>1, <1>4 DEF RunnerTypes
<1>7. /\ drafts' \in Seq(DraftRows)
      /\ drafts' # << >> => DOMAIN drafts' = DOMAIN b
  <2>1. CASE Proposes(so)
    <3>1. PICK good \in [DOMAIN b -> 0 .. K] :
            drafts' = [p \in DOMAIN b |-> [of |-> sampled(b)[p], good |-> good[p]]]
      BY <1>1, <2>1
    <3>2. \A p \in DOMAIN b : drafts'[p] \in DraftRows
      BY <1>3, <3>1 DEF DraftRows
    <3>3. drafts' = [p \in DOMAIN b |-> drafts'[p]] /\ DOMAIN drafts' = DOMAIN b
      BY <3>1
    <3> QED BY <1>2, <3>2, <3>3, RowsOf
  <2>2. CASE ~Proposes(so)
    BY <1>1, <2>2
  <2> QED BY <2>1, <2>2
<1>8. cache' \in [Req -> DraftRows]
  <2>1. \A r \in so.reqs : drafts' # << >> => drafts'[IndexIn(b, r)] \in DraftRows
    BY <1>2, <1>7, IndexIs, EntryIs
  <2>2. \A r \in Req : cache[r] \in DraftRows
    BY DEF RunnerTypes
  <2> QED BY <1>1, <2>1, <2>2, TokensAre DEF CacheAfter
<1>9. requests' \subseteq Req /\ rows' \in [Req -> Nat]
  BY <1>1, RowsAfterIs DEF RunnerTypes
<1>10. forward' \in Seq(ForwardRows)
  BY <1>1, <1>4
<1>11. only' \in Seq(DraftRows)
  BY <1>1, <1>7
<1> QED BY <1>5, <1>6, <1>7, <1>8, <1>9, <1>10, <1>11 DEF RunnerTypes

(* A scheduled step keeps the types, and the count below the model length: *)
(* with drafts because they are only scheduled where they fit, without     *)
(* because max_tokens does, or because the drafts before it did.           *)
LEMMA ScheduleTypes ==
  ASSUME OneBucket, TypesInv, TokensInv', NEW so, NEW advance,
         Schedules(so, advance), Current(so), Execute(so, advance),
         \A r \in Req : status'[r] = IF r \in so.reqs THEN "running" ELSE status[r]
  PROVE  TypesInv'
<1>1. /\ TokensInv /\ RunnerTypes /\ IInv
      /\ computed \in [Req -> Int] /\ known \in [Req -> Nat] /\ pending \in Seq(Entries)
      /\ pending' \in Seq(Entries)
  BY DEF TypesInv, TokensInv, IInv, PromiseInv, Counts
<1>2. /\ Len(pending) < 2 /\ Run(so)
      /\ pending' = Append(pending,
                           [reqs |-> last'.reqs, kept |-> last'.kept, spec |-> so.spec])
      /\ computed' = [r \in Req |-> IF r \in so.reqs THEN computed[r] + advance
                                    ELSE computed[r]]
  BY DEF Execute
<1>3. /\ so.reqs \in SUBSET Req
      /\ so.spec \in BOOLEAN /\ (Speculates(so) => so.spec)
  BY <1>1, <1>2, SchedulesIs
<1>4. /\ \A b \in Orders(so) : \A p \in DOMAIN b : Sound(Inputs(so, b[p], p))
      /\ length \in [Req -> Nat] /\ RunnerInv
  BY <1>1, SchedulesRun
<1>5. /\ DOMAIN last'.kept = DOMAIN last'.reqs /\ InBatch(last'.reqs) = so.reqs
      /\ ~so.spec => \A p \in DOMAIN last'.kept : last'.kept[p] = 1
  BY <1>2, <1>3, <1>4, RunTokens
<1>6. RunnerTypes'
  <2>1. so.known \in [Req -> Nat] /\ so.computed \in [Req -> Nat]
    <3>1. computed \in [Req -> 0 .. MaxLen]
      BY TypesSuffice DEF TypeOK
    <3> QED BY <1>1, <3>1, NumbersAre DEF Current
  <2>2. Width(so) \in Nat
    <3>1. CASE so.prefill
      BY <3>1 DEF Width
    <3>2. CASE ~so.prefill
      BY <1>3, <3>2, WidthIs, SpecBucketAssumption
    <3> QED BY <3>1, <3>2
  <2>3. ASSUME NEW r \in so.reqs, ~so.prefill  PROVE length[r] >= 1
    <3>1. Decodes(so) /\ r \in Decodable
      BY <2>3 DEF Schedules, Prefills, Decodes
    <3>2. length[r] \in Nat /\ length[r] >= PromptLen
      BY <1>1, <1>2, <3>1, DecodePosition
    <3>3. PromptLen >= 1 /\ PromptLen \in Nat
      BY SpecLengthAssumption
    <3> QED BY <3>2, <3>3
  <2>4. ASSUME NEW b \in Orders(so), NEW p \in DOMAIN b
        PROVE  Owns(Inputs(so, b[p], p)) /\ Position(so, b[p], p) \in Nat
    <3>1. Owns(Inputs(so, b[p], p))
      BY <1>4 DEF Sound
    <3>2. b[p] \in so.reqs
      BY <1>3, <1>4, OrdersNumbered DEF InBatch
    <3>3. CASE so.prefill
      <4>1. Position(so, b[p], p) = so.computed[b[p]]
        BY <3>3 DEF Position
      <4>2. so.computed[b[p]] \in Nat
        BY <1>3, <2>1, <3>2
      <4> QED BY <3>1, <4>1, <4>2
    <3>4. CASE ~so.prefill
      <4>1. Decodes(so) /\ b[p] \in Decodable
        BY <3>2, <3>4 DEF Schedules, Prefills, Decodes
      <4>2. PICK r \in Decodable : r = b[p]
        BY <4>1
      <4>3. Len(pending) < 2
        BY <1>2
      <4>4. Position(so, r, p) \in Nat
        BY <1>1, <4>1, <4>3, DecodePosition
      <4> QED BY <3>1, <4>2, <4>4
    <3> QED BY <3>3, <3>4
  <2>5. LastTokens
    BY <1>1 DEF TokensInv
  <2> QED BY <1>1, <1>2, <1>3, <1>4, <2>1, <2>2, <2>3, <2>4, <2>5, RunTypes
<1> PICK s, t, e : /\ s = pending /\ t = pending'
                   /\ e = [reqs |-> last'.reqs, kept |-> last'.kept, spec |-> so.spec]
  OBVIOUS
<1>7. OneMore(s, t, e)
  BY <1>1, <1>2 DEF OneMore
<1>8. /\ Len(s) \in {0, 1} /\ DOMAIN s = 1 .. Len(s)
      /\ Len(t) = Len(s) + 1 /\ DOMAIN t = 1 .. Len(s) + 1
      /\ t[Len(s) + 1] = e /\ \A i \in 1 .. Len(s) : t[i] = s[i]
  BY <1>7, AppendIs
<1>9. Settled'
  BY <1>2 DEF TypesInv, Settled
<1>10. PlainKeepOne'
  <2> SUFFICES ASSUME NEW i \in DOMAIN t, ~t[i].spec, NEW p \in DOMAIN t[i].kept
               PROVE  t[i].kept[p] = 1
    BY DEF PlainKeepOne
  <2>1. CASE i \in 1 .. Len(s)
    BY <1>8, <2>1 DEF TypesInv, PlainKeepOne
  <2>2. CASE i = Len(s) + 1
    BY <1>5, <1>8, <2>2
  <2> QED BY <1>8, <2>1, <2>2
<1>11. ASSUME NEW r \in Req, status'[r] = "running"
       PROVE  computed'[r] <= MaxLen /\ (r \in so.reqs /\ so.spec => computed'[r] < MaxLen)
  <2>1. computed[r] \in Int /\ K >= 1 /\ K \in Nat /\ MaxLen \in Nat
        /\ PromptLen \in Nat /\ MaxOut \in Nat /\ MaxOut >= 1 /\ PromptLen + MaxOut <= MaxLen
    BY <1>1, SpecLengthAssumption
  <2>2. computed'[r] = IF r \in so.reqs THEN computed[r] + advance ELSE computed[r]
    BY <1>2
  <2>3. CASE r \notin so.reqs
    <3>1. status[r] = "running"
      BY <1>11, <2>3
    <3> QED BY <2>2, <2>3, <3>1 DEF TypesInv, Ceiling
  <2>4. ASSUME NEW q \in Req, Prefills(so, q), advance = PromptLen, r \in so.reqs
        PROVE  computed'[r] <= MaxLen /\ ~so.spec
    <3>1. status[r] = "waiting" /\ so.spec = FALSE
      BY <2>4 DEF Prefills, Waiting
    <3>2. computed[r] = 0
      BY <1>1, <3>1 DEF IInv, PromiseInv
    <3> QED BY <2>1, <2>2, <2>4, <3>1, <3>2
  <2>5. CASE Decodes(so) /\ so.spec /\ advance = 1 + K /\ r \in so.reqs
    <3>1. computed[r] < MaxLen - 1 - K
      BY <2>5 DEF Decodes
    <3> QED BY <2>1, <2>2, <2>5, <3>1
  <2>6. CASE Decodes(so) /\ ~so.spec /\ advance = 1 /\ r \in so.reqs
    <3>1. r \in Decodable /\ status[r] = "running" /\ known[r] \in Nat
      BY <1>1, <2>6 DEF Decodes, Decodable
    <3>2. DOMAIN pending = {1} /\ Len(pending) = 1
      <4>1. DOMAIN pending = {1}
        BY <1>1, <1>2, <2>6, DecodeContext
      <4> QED BY <1>8, <4>1
    <3>3. /\ computed[r] = length[r] - 1 + Ahead(pending, 1, r)
          /\ length[r] = PromptLen + known[r] + Got(pending, 1, r)
          /\ length[r] \in Nat
      BY <1>1, <1>2, <2>6, <3>1, DecodePosition
    <3>4. CASE Newest(r)
      <4>1. computed[r] < MaxLen
        BY <3>1, <3>4 DEF TypesInv, Ceiling
      <4> QED BY <2>1, <2>2, <2>6, <4>1
    <3>5. CASE ~Newest(r)
      <4>1. Ahead(pending, 1, r) = 0
        BY <3>2, <3>5 DEF Newest, Ahead
      <4>2. Got(pending, 1, r) = IF Under(pending, 1, r) THEN 1 ELSE 0
        <5>1. CASE Under(pending, 1, r)
          <6>1. ~pending[1].spec
            BY <3>2, <3>5, <5>1 DEF Newest
          <6>2. pending[1] \in Entries
            BY <1>1, <3>2, EntryIs
          <6>3. IndexIn(pending[1].reqs, r) \in DOMAIN pending[1].kept
            BY <5>1, <6>2, IndexIs DEF Under, Entries
          <6>4. pending[1].kept[IndexIn(pending[1].reqs, r)] = 1
            BY <3>2, <6>1, <6>3 DEF TypesInv, PlainKeepOne
          <6> QED BY <5>1, <6>4 DEF Got
        <5>2. CASE ~Under(pending, 1, r)
          BY <5>2 DEF Got
        <5> QED BY <5>1, <5>2
      <4>3. UnderWay(r) = Got(pending, 1, r)
        <5>1. ~Under(pending, 2, r)
          BY <3>2 DEF Under
        <5>2. Len(pending) <= 2 /\ pending \in Seq(Entries)
          BY <1>1, <3>2
        <5>3. UnderWay(r) = (IF Under(pending, 1, r) THEN 1 ELSE 0)
                              + (IF Under(pending, 2, r) THEN 1 ELSE 0)
          BY <5>2, UnderWayIs, Zenon DEF UnderWay
        <5> QED BY <4>2, <5>1, <5>3
      <4>4. known[r] + UnderWay(r) < MaxOut
        BY <3>1 DEF Decodable
      <4> PICK g \in {0, 1} : g = Got(pending, 1, r)
        BY <4>2
      <4>5. computed[r] = PromptLen + known[r] + g - 1 /\ known[r] + g < MaxOut
        BY <2>1, <3>1, <3>3, <4>1, <4>3, <4>4
      <4> QED BY <2>1, <2>2, <2>6, <3>1, <4>5
    <3> QED BY <3>4, <3>5
  <2> QED BY <1>3, <2>3, <2>4, <2>5, <2>6 DEF Schedules
<1>12. Ceiling'
  <2>1. ASSUME NEW r \in Req, Newest(r)'  PROVE r \in so.reqs /\ so.spec
    <3>1. Under(t, Len(t), r) /\ t[Len(t)].spec
      BY <2>1 DEF Newest
    <3>2. t[Len(t)] = e
      BY <1>8
    <3> QED BY <1>5, <3>1, <3>2 DEF Under
  <2> QED BY <1>11, <2>1 DEF Ceiling
<1> QED BY <1>6, <1>9, <1>10, <1>12 DEF TypesInv

(* Receiving only takes back. *)
LEMMA ReceiveTypes ==
  ASSUME TypesInv, TokensInv', Receive
  PROVE  TypesInv'
<1> DEFINE o == Head(pending)
           Count(r) == o.kept[IndexIn(o.reqs, r)]
           of == {r \in InBatch(o.reqs) : status[r] = "running"}
           done == {r \in of : known[r] + Count(r) >= MaxOut}
<1>1. /\ computed' = [r \in Req |-> IF r \in done THEN 0
                                    ELSE IF r \in of /\ o.spec
                                    THEN computed[r] - (K + 1 - Count(r))
                                    ELSE computed[r]]
      /\ status' = [r \in Req |-> IF r \in done THEN "gone" ELSE status[r]]
      /\ pending # << >> /\ pending' = Tail(pending) /\ UNCHANGED runnerVars
  BY DEF Receive
<1>2. /\ pending \in Seq(Entries) /\ Len(pending) <= 2 /\ computed \in [Req -> Int]
  BY DEF TypesInv, TokensInv, IInv, PromiseInv, Batches
<1>3. \A r \in of : Count(r) \in 1 .. K + 1 /\ status[r] = "running"
  <2>1. o \in Entries
    BY <1>1, <1>2
  <2>2. o.kept \in Seq(1 .. K + 1) /\ DOMAIN o.kept = DOMAIN o.reqs
    BY <2>1 DEF Entries
  <2>3. \A r \in of : IndexIn(o.reqs, r) \in DOMAIN o.kept
    BY <2>2, IndexIs
  <2> QED BY <2>2, <2>3, EntryIs
<1>4. done \subseteq of
  OBVIOUS
<1> HIDE DEF o, of, done, Count
<1> PICK s, t : s = pending /\ t = pending'
  OBVIOUS
<1>5. OneLess(s, t)
  BY <1>1, <1>2 DEF OneLess
<1>6. /\ Len(s) \in {1, 2} /\ DOMAIN s = 1 .. Len(s)
      /\ Len(t) = Len(s) - 1 /\ DOMAIN t = 1 .. Len(s) - 1
      /\ \A i \in DOMAIN t : t[i] = s[i + 1]
  BY <1>5, TailIs
<1>7. RunnerTypes'
  BY <1>1 DEF TypesInv, RunnerTypes, runnerVars
<1>8. Settled'
  <2> SUFFICES ASSUME NEW r \in Req, status'[r] # "running" PROVE computed'[r] = 0
    BY DEF Settled
  <2>1. CASE r \in done
    BY <1>1, <2>1
  <2>2. CASE r \notin done
    <3>1. status[r] # "running"
      BY <1>1, <2>2
    <3>2. r \notin of /\ computed[r] = 0
      BY <1>3, <3>1 DEF TypesInv, Settled
    <3> QED BY <1>1, <2>2, <3>2
  <2> QED BY <2>1, <2>2
<1>9. PlainKeepOne'
  <2> SUFFICES ASSUME NEW i \in DOMAIN t, ~t[i].spec, NEW p \in DOMAIN t[i].kept
               PROVE  t[i].kept[p] = 1
    BY DEF PlainKeepOne
  <2>1. i + 1 \in DOMAIN s /\ t[i] = s[i + 1]
    BY <1>6
  <2> QED BY <2>1 DEF TypesInv, PlainKeepOne
<1>10. Ceiling'
  <2> SUFFICES ASSUME NEW r \in Req, status'[r] = "running"
               PROVE  computed'[r] <= MaxLen /\ (Newest(r)' => computed'[r] < MaxLen)
    BY DEF Ceiling
  <2>1. r \notin done /\ status[r] = "running"
    BY <1>1
  <2>2. computed'[r] \in Int /\ computed'[r] <= computed[r] /\ computed[r] \in Int
    <3>1. computed[r] \in Int
      BY <1>2
    <3>2. CASE r \in of /\ o.spec
      <4>1. K + 1 - Count(r) \in Nat
        BY <1>3, <3>2, NumbersAre
      <4>2. computed'[r] = computed[r] - (K + 1 - Count(r))
        BY <1>1, <2>1, <3>2
      <4> QED BY <3>1, <4>1, <4>2
    <3>3. CASE ~(r \in of /\ o.spec)
      BY <1>1, <2>1, <3>1, <3>3
    <3> QED BY <3>2, <3>3
  <2>3. computed[r] <= MaxLen /\ (Newest(r) => computed[r] < MaxLen)
    BY <2>1 DEF TypesInv, Ceiling
  <2>4. Newest(r)' => Newest(r)
    <3> SUFFICES ASSUME Under(t, Len(t), r), t[Len(t)].spec
                 PROVE  Under(s, Len(s), r) /\ s[Len(s)].spec
      BY DEF Newest
    <3>1. Len(t) \in DOMAIN t /\ Len(t) + 1 = Len(s) /\ Len(s) \in DOMAIN s
      BY <1>6 DEF Under
    <3>2. t[Len(t)] = s[Len(s)]
      BY <1>6, <3>1
    <3> QED BY <3>1, <3>2 DEF Under
  <2> QED BY <2>2, <2>3, <2>4, NumbersAre
<1> QED BY <1>7, <1>8, <1>9, <1>10 DEF TypesInv

(* Clients, and a step in which nothing runs. *)
LEMMA OtherTypes ==
  ASSUME TypesInv, TokensInv',
         \/ \E r \in Req : Submit(r) \/ Finish(r)
         \/ ScheduleNothing \/ Answer
         \/ UNCHANGED servingVars
  PROVE  TypesInv'
<1>1. pending' = pending
  BY DEF Submit, Finish, ScheduleNothing, Answer, servingVars, schedulerVars
<1>2. /\ status \in [Req -> {"new", "waiting", "running", "gone"}]
      /\ computed \in [Req -> Int] /\ known \in [Req -> Nat] /\ RunnerTypes
  BY DEF TypesInv, TokensInv, IInv, PromiseInv, Counts
<1>3. \A r \in Req : /\ status'[r] = "running" => status[r] = "running" /\ computed'[r] = computed[r]
                     /\ status[r] # "running" => status'[r] # "running" /\ computed'[r] = computed[r]
                     /\ status[r] = "running" /\ status'[r] # "running" => computed'[r] = 0
  BY <1>2 DEF Submit, Finish, ScheduleNothing, Answer, servingVars, schedulerVars
<1>4. RunnerTypes'
  <2>1. CASE UNCHANGED runnerVars
    BY <1>2, <2>1 DEF RunnerTypes, runnerVars
  <2>2. CASE ScheduleNothing
    <3> DEFINE so == Step({}, FALSE, FALSE)
    <3>1. so.known = known
      BY DEF Step
    <3>2. RunEmpty(so)
      BY <2>2 DEF ScheduleNothing
    <3> HIDE DEF so
    <3>3. rows' \in [Req -> Nat]
      BY <1>2, <3>1, <3>2, RowsAfterIs DEF RunEmpty
    <3> QED BY <1>2, <3>2, <3>3 DEF RunEmpty, RunnerTypes
  <2> QED BY <2>1, <2>2 DEF Submit, Finish, Answer, servingVars, schedulerVars
<1>5. Settled' /\ PlainKeepOne' /\ Ceiling'
  BY <1>1, <1>3 DEF TypesInv, Settled, PlainKeepOne, Ceiling, Newest
<1> QED BY <1>4, <1>5 DEF TypesInv

(* Initially nothing is counted. *)
LEMMA InitTypes == ServingInit => TypesInv
<1> SUFFICES ASSUME ServingInit PROVE TypesInv
  OBVIOUS
<1>1. TokensInv
  BY InitTokens
<1>2. RunnerTypes
  <2>1. NoOutput \in Outputs
    BY DEF NoOutput, Outputs
  <2> QED BY <2>1, TokensAre DEF ServingInit, Init, RunnerTypes
<1>3. Settled /\ PlainKeepOne /\ Ceiling
  BY DEF ServingInit, Settled, PlainKeepOne, Ceiling
<1> QED BY <1>1, <1>2, <1>3 DEF TypesInv

(* Every step keeps the types and the ceiling. *)
LEMMA StepTypes ==
  ASSUME OneBucket, TypesInv, [ServingNext]_servingVars
  PROVE  TypesInv'
<1>1. TokensInv /\ TokensInv'
  BY StepTokens DEF TypesInv
<1>2. ASSUME NEW r \in Req, SchedulePrefill(r)  PROVE TypesInv'
  <2> DEFINE so == Step({r}, TRUE, FALSE)
  <2>1. Prefills(so, r) /\ Current(so)
    BY <1>2 DEF SchedulePrefill, Prefills, Current, Step
  <2>2. so.reqs = {r}
    BY DEF Step
  <2>3. Execute(so, PromptLen) /\ status' = [status EXCEPT ![r] = "running"]
    BY <1>2 DEF SchedulePrefill
  <2> HIDE DEF so
  <2>4. Schedules(so, PromptLen)
    BY <2>1 DEF Schedules
  <2>5. \A q \in Req : status'[q] = IF q \in so.reqs THEN "running" ELSE status[q]
    BY <1>1, <2>2, <2>3 DEF TokensInv, IInv, PromiseInv
  <2> QED BY <1>1, <2>1, <2>3, <2>4, <2>5, ScheduleTypes
<1>3. ASSUME NEW spec \in BOOLEAN, Scheduled(spec)  PROVE TypesInv'
  <2> DEFINE so == Step(Decodable, FALSE, spec)
             advance == IF spec THEN 1 + K ELSE 1
  <2>1. /\ so.reqs = Decodable /\ so.prefill = FALSE /\ Current(so) /\ so.spec = spec
    BY DEF Current, Step
  <2>2. Execute(so, advance) /\ status' = status
    BY <1>3 DEF Scheduled
  <2>3. /\ Decodable # {}
        /\ spec => \A r \in Decodable : r \in placed /\ computed[r] < MaxLen - 1 - K
    BY <1>3 DEF Scheduled
  <2>4. advance = IF so.spec THEN 1 + K ELSE 1
    BY <2>1, Zenon
  <2> HIDE DEF so, advance
  <2>5. Schedules(so, advance)
    BY <2>1, <2>3, <2>4 DEF Schedules, Decodes
  <2>6. \A q \in Req : status'[q] = IF q \in so.reqs THEN "running" ELSE status[q]
    BY <2>1, <2>2 DEF Decodable
  <2> QED BY <1>1, <2>1, <2>2, <2>5, <2>6, ScheduleTypes
<1>4. CASE Receive
  BY <1>1, <1>4, ReceiveTypes
<1>5. CASE \/ UNCHANGED servingVars \/ ScheduleNothing \/ Answer
           \/ \E r \in Req : Submit(r) \/ Finish(r)
  BY <1>1, <1>5, OtherTypes
<1>6. CASE ScheduleDecode
  BY <1>3, <1>6, DecodeIs
<1> QED BY <1>2, <1>4, <1>5, <1>6 DEF ServingNext

(* Type correctness of speculative serving.  The scheduler's count, though *)
(* it takes every draft under way as accepted, never exceeds the model     *)
(* length, so no position beyond the context is ever computed.             *)
THEOREM AlwaysTypeOK == OneBucket => (ServingSpec => []TypeOK)
<1> SUFFICES ASSUME OneBucket PROVE ServingSpec => []TypeOK
  OBVIOUS
<1>1. TypesInv /\ [ServingNext]_servingVars => TypesInv'
  BY StepTypes
<1>2. TypesInv => TypeOK
  BY TypesSuffice
<1> QED
  BY InitTypes, <1>1, <1>2, PTL DEF ServingSpec
=============================================================================
