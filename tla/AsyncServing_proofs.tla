------------------------ MODULE AsyncServing_proofs -------------------------
(***************************************************************************)
(* Proofs about AsyncServing, for any number of requests, any prompt and   *)
(* output length, with and without chunked prefills and preemption, on     *)
(* ranks with and without an output thread: what a client receives is its  *)
(* own continuation, in order, each token once (AlwaysStreamGenuine), and  *)
(* on the output rank every host row is a prefix of its request's own      *)
(* history (AlwaysHostRowsGenuine) that misses no token once the last      *)
(* output is a list (AlwaysTokensNotDropped).                              *)
(*                                                                         *)
(* Two outputs not received and two steps not sampled are all that can be  *)
(* under way (Output, Ahead1, Ahead2).  The argument goes along this       *)
(* pipeline.  Chain: the tokens in it continue the received stream one     *)
(* after the other.  StepsFit: each step decodes from the token that the   *)
(* step before it samples, or starts from a state that has been received   *)
(* in full.  Hence the host row of a request matters only if the last      *)
(* output has no token of it, and then it is complete (RowsReady), whoever *)
(* writes rows meanwhile; otherwise the step is fed from that output.      *)
(* HInv, at the end of the module, adds what the rows of the output rank   *)
(* hold: everything but the tokens of outputs that are not lists yet. TInv *)
(* adds the bounds (AlwaysTypeOK), for which the rows of the other ranks   *)
(* matter too: nobody writes those until the main thread must.             *)
(***************************************************************************)
EXTENDS AsyncServing, FiniteSetTheorems, TLAPS

(* Types, wide enough to need no other invariant. *)
AnyToken == [req : Req \cup {NoReq}, gen : Nat, pos : Int]
AnyStep ==
  [finished : SUBSET Req, new : SUBSET Req, prefill : BOOLEAN,
   toks : [Req -> Nat], computed : [Req -> Nat], outs : [Req -> Nat],
   known : [Req -> Seq(AnyToken)], gen : [Req -> Nat]]
AnyOutput ==
  [reqs : Seq(Req), toks : Seq(AnyToken), partial : SUBSET Req, list : BOOLEAN]

Types ==
  /\ outputRank \in BOOLEAN
  /\ pc \in {"idle", "update", "prepare", "swap", "sample"}
  /\ step \in AnyStep
  /\ changed \in BOOLEAN
  /\ batch \in Seq(Req)
  /\ host \in [Req -> Seq(AnyToken)]
  /\ outIds \in [Req -> Seq(AnyToken)]
  /\ \A r \in InBatch(batch) : Len(host[r]) = PromptLen + Len(outIds[r])
  /\ ids \in Seq(Seq(AnyToken))
  /\ last \in AnyOutput
  /\ outputs \in Seq(AnyOutput)
  /\ status \in [Req -> Statuses]
  /\ gen \in [Req -> 0 .. MaxGen]
  /\ computed \in [Req -> Nat]
  /\ outs \in [Req -> Nat]
  /\ known \in [Req -> Seq(AnyToken)]
  /\ finished \in SUBSET Req
  /\ queue \in Seq(AnyStep)

(* The token of a request at a position. *)
OutputTok(r, n) == [req |-> r, gen |-> 1, pos |-> n]

(* What a step, or its output, holds for a request: the position of the    *)
(* token it samples, Chunk for an intermediate prefill chunk, or Nothing.  *)
Nothing == -1
Chunk == -2

(* Where a step ends, and whether it samples for a request. *)
End(so, r) == so.computed[r] + so.toks[r]

Samples(so, r) ==
  IF r \notin Scheduled(so) THEN Nothing
  ELSE IF End(so, r) >= PromptLen THEN End(so, r) ELSE Chunk

TokenFor(o, r) == o.toks[CHOOSE p \in DOMAIN o.reqs : o.reqs[p] = r]

Sampled(o, r) ==
  IF r \in o.partial THEN Chunk
  ELSE IF r \in InBatch(o.reqs) THEN TokenFor(o, r).pos ELSE Nothing

(* The inputs a step owes to a request. *)
Owed(r, c, t) == SubSeq(History(r, 1, c + t), c + 1, c + t)
Due(so, r) == Owed(r, so.computed[r], so.toks[r])

-----------------------------------------------------------------------------
(* The pipeline: two outputs not received, two steps not sampled. *)

Output(i, r) == IF i <= Len(outputs) THEN Sampled(outputs[i], r) ELSE Nothing
Ahead1 ==
  IF pc # "idle" THEN step ELSE IF queue # << >> THEN queue[1] ELSE NoStep
Ahead2 ==
  IF pc # "idle" THEN IF queue # << >> THEN queue[1] ELSE NoStep
  ELSE IF Len(queue) >= 2 THEN queue[2] ELSE NoStep

Bit(x) == IF x >= 0 THEN 1 ELSE 0

(* The positions in the pipeline that hold a token continue base one by    *)
(* one, and there are total of them.                                       *)
InOrder(a, b, c, d, base, total) ==
  /\ a >= 0 => a = base
  /\ b >= 0 => b = base + Bit(a)
  /\ c >= 0 => c = base + Bit(a) + Bit(b)
  /\ d >= 0 => d = base + Bit(a) + Bit(b) + Bit(c)
  /\ total = Bit(a) + Bit(b) + Bit(c) + Bit(d)

(* A chunk follows no token of its request that is still under way. *)
ChunkAlone(a, b, c, d) ==
  /\ b = Chunk => a < 0
  /\ c = Chunk => a < 0 /\ b < 0
  /\ d = Chunk => a < 0 /\ b < 0 /\ c < 0

Chain ==
  \A r \in Req :
    /\ ChunkAlone(Output(1, r), Output(2, r), Samples(Ahead1, r), Samples(Ahead2, r))
    /\ status[r] # "idle" =>
         InOrder(Output(1, r), Output(2, r), Samples(Ahead1, r), Samples(Ahead2, r),
                 PromptLen + Len(known[r]), outs[r] - Len(known[r]))

(* What the step after so finds of r: the position of the token sampled    *)
(* last, and the number of output tokens in a row that stays as it is.     *)
Pos0(r) == Sampled(last, r)
Stay0(r) ==
  IF pc \in {"idle", "update"} /\ r \in InBatch(batch) /\ r \in last.partial
  THEN Len(outIds[r]) ELSE Nothing
NextPos(x, so, r) == IF Scheduled(so) = {} THEN x ELSE Samples(so, r)
NextStay(x, so, r) ==
  IF Scheduled(so) = {} THEN x
  ELSE IF Samples(so, r) = Chunk THEN so.outs[r] ELSE Nothing

Pos1(r) == NextPos(Pos0(r), Ahead1, r)
Stay1(r) == NextStay(Stay0(r), Ahead1, r)
Pos2(r) == NextPos(Pos1(r), Ahead2, r)
Stay2(r) == NextStay(Stay1(r), Ahead2, r)

(* What a step was told of the stream. *)
Known(so, r) ==
  /\ so.gen[r] = 1
  /\ so.known[r] = SubSeq(History(r, 1, PromptLen + Len(so.known[r])), PromptLen + 1,
                          PromptLen + Len(so.known[r]))

(* A step fits what was sampled before it. *)
DecodeFits(pos, so, r) ==
  /\ ~so.prefill /\ so.toks[r] = 1
  /\ so.outs[r] >= 1 /\ so.outs[r] < MaxOut /\ so.computed[r] = PromptLen + so.outs[r] - 1
  /\ r \notin so.new
  /\ pos # Chunk
  /\ IF pos >= 0 THEN pos = so.computed[r] ELSE Len(so.known[r]) = so.outs[r]

PrefillFits(pos, stay, so, r) ==
  /\ so.prefill /\ pos < 0 /\ so.outs[r] < MaxOut
  /\ Len(so.known[r]) = so.outs[r] /\ so.computed[r] < PromptLen
  /\ End(so, r) <= PromptLen + so.outs[r]
  /\ End(so, r) >= PromptLen => End(so, r) = PromptLen + so.outs[r]
  /\ r \in so.new => so.outs[r] = 0
  /\ stay >= 0 => so.outs[r] = stay

Fits(pos, stay, so, r) ==
  Known(so, r) /\ (DecodeFits(pos, so, r) \/ PrefillFits(pos, stay, so, r))

StepsFit ==
  /\ \A r \in Scheduled(Ahead1) : Fits(Pos0(r), Stay0(r), Ahead1, r)
  /\ \A r \in Scheduled(Ahead2) : Fits(Pos1(r), Stay1(r), Ahead2, r)

(* The scheduler's view of what was scheduled last. *)
Latest ==
  \A r \in Req :
    /\ status[r] # "idle" =>
         /\ gen[r] = 1
         /\ Pos2(r) >= 0 => computed[r] = Pos2(r)
         /\ computed[r] >= PromptLen => computed[r] = PromptLen + outs[r] - 1 /\ outs[r] >= 1
         /\ Pos2(r) = Chunk => computed[r] < PromptLen
         /\ Stay2(r) >= 0 => outs[r] = Stay2(r)
    /\ status[r] # "running" => computed[r] = 0
    /\ Pos2(r) >= 0 /\ status[r] # "idle" => status[r] = "running"
    /\ status[r] = "waiting" => known[r] = << >> /\ outs[r] = 0
    /\ status[r] = "idle" => outs[r] = 0
    /\ gen[r] = 0 => /\ status[r] = "idle" /\ known[r] = << >>
                     /\ Pos2(r) = Nothing /\ Stay2(r) = Nothing
                     /\ Output(1, r) < 0 /\ Output(2, r) < 0
                     /\ Samples(Ahead1, r) < 0 /\ Samples(Ahead2, r) < 0

(* An output holds genuine tokens, at the positions it says. *)
GenuineOutput(o) ==
  /\ DOMAIN o.toks = DOMAIN o.reqs
  /\ o.partial \subseteq InBatch(o.reqs)
  /\ \A r \in InBatch(o.reqs) \ o.partial :
       Sampled(o, r) >= PromptLen /\ TokenFor(o, r) = OutputTok(r, Sampled(o, r))

(* last is the newest output, until it is received and after. *)
Objects ==
  /\ outputs # << >> => outputs[Len(outputs)] = last
  /\ GenuineOutput(last)
  /\ \A i \in DOMAIN outputs : GenuineOutput(outputs[i])

(* A host row complete to n output tokens. *)
Row(r, n) == host[r] = History(r, 1, PromptLen + n) /\ Len(outIds[r]) = n

RowsReady ==
  /\ pc \in {"idle", "update"} =>
       /\ InBatch(batch) \subseteq InBatch(last.reqs)
       /\ \A r \in InBatch(batch) \cap last.partial : Row(r, Len(outIds[r]))
  /\ pc \in {"prepare", "swap", "sample"} =>
       /\ InBatch(batch) = Scheduled(step) /\ Scheduled(step) # {}
       /\ \A r \in InBatch(batch) : Pos0(r) < 0 => Row(r, step.outs[r])
  /\ pc = "swap" =>
       /\ DOMAIN ids = DOMAIN batch
       /\ \A p \in DOMAIN batch : Pos0(batch[p]) < 0 => ids[p] = Due(step, batch[p])
  /\ pc = "sample" =>
       /\ DOMAIN ids = DOMAIN batch
       /\ \A p \in DOMAIN batch : ids[p] = Due(step, batch[p])

Depth == UnderWay <= 2

(* Ids are used once, and the batch queue holds two steps. *)
UniqueIdsTwoAhead == MaxGen = 1 /\ QueueDepth <= 2

IInv ==
  /\ Types /\ Depth /\ Chain /\ StepsFit /\ Latest
  /\ Objects /\ RowsReady /\ StreamGenuine

-----------------------------------------------------------------------------
(* Sequences of tokens. *)

(* Sequences of one length with the same elements are one sequence. *)
LEMMA SameElements ==
  ASSUME NEW S, NEW s \in Seq(S), NEW t \in Seq(S), Len(s) = Len(t),
         \A i \in 1 .. Len(s) : s[i] = t[i]
  PROVE  s = t
OBVIOUS

(* A sequence of length one is its element. *)
LEMMA OneElement ==
  ASSUME NEW S, NEW e \in S, NEW u \in Seq(S), Len(u) = 1, u[1] = e
  PROVE  u = << e >>
<1>1. << e >> \in Seq(S) /\ Len(<< e >>) = 1 /\ << e >>[1] = e
  OBVIOUS
<1>2. \A i \in 1 .. Len(u) : u[i] = << e >>[i]
  <2>1. SUFFICES ASSUME NEW i \in 1 .. Len(u) PROVE u[i] = << e >>[i]
    OBVIOUS
  <2>2. i = 1
    BY <2>1
  <2> QED BY <2>2, <1>1
<1> QED BY <1>1, <1>2, SameElements

(* A prefix of a sequence. *)
LEMMA PrefixLemma ==
  ASSUME NEW S, NEW w \in Seq(S), NEW e \in Nat, e <= Len(w)
  PROVE  SubSeq(w, 1, e) \in Seq(S) /\ Len(SubSeq(w, 1, e)) = e
OBVIOUS

(* The part of a sequence from a position to itself. *)
LEMMA OnePosition ==
  ASSUME NEW S, NEW h \in Seq(S), NEW m \in 1 .. Len(h)
  PROVE  SubSeq(h, m, m) = << h[m] >>
<1>1. SubSeq(h, m, m) \in Seq(S)
  OBVIOUS
<1>2. Len(SubSeq(h, m, m)) = 1
  OBVIOUS
<1>3. SubSeq(h, m, m)[1] = h[m]
  <2>1. 1 \in 1 .. (m + 1 - m)
    OBVIOUS
  <2>2. m + 1 - 1 = m
    OBVIOUS
  <2>3. SubSeq(h, m, m)[1] = h[m + 1 - 1]
    BY <2>1
  <2> QED BY <2>2, <2>3
<1>4. h[m] \in S
  OBVIOUS
<1> QED BY <1>1, <1>2, <1>3, <1>4, OneElement

(* The tokens of a history. *)
LEMMA HistoryLemma ==
  ASSUME NEW r \in Req, NEW g \in Nat, NEW n \in Nat
  PROVE  /\ History(r, g, n) \in Seq(AnyToken)
         /\ Len(History(r, g, n)) = n
         /\ \A i \in 1 .. n :
              History(r, g, n)[i] = [req |-> r, gen |-> g, pos |-> i - 1]
BY DEF History, AnyToken

(* The received part of a request's history, element by element. *)
Genuine(k, r, g) ==
  \A i \in 1 .. Len(k) : k[i] = [req |-> r, gen |-> g, pos |-> PromptLen + i - 1]

(* The output part of a history. *)
LEMMA TailOfHistory ==
  ASSUME NEW r \in Req, NEW g \in Nat, NEW m \in Nat
  PROVE  /\ SubSeq(History(r, g, PromptLen + m), PromptLen + 1, PromptLen + m)
               \in Seq(AnyToken)
         /\ Len(SubSeq(History(r, g, PromptLen + m), PromptLen + 1, PromptLen + m)) = m
         /\ \A i \in 1 .. m :
              SubSeq(History(r, g, PromptLen + m), PromptLen + 1, PromptLen + m)[i]
                = [req |-> r, gen |-> g, pos |-> PromptLen + i - 1]
<1> DEFINE h == History(r, g, PromptLen + m)
<1>1. PromptLen \in Nat /\ PromptLen + m \in Nat
  BY AsyncBoundAssumption
<1>2. /\ h \in Seq(AnyToken) /\ Len(h) = PromptLen + m
      /\ \A i \in 1 .. PromptLen + m : h[i] = [req |-> r, gen |-> g, pos |-> i - 1]
  BY <1>1, HistoryLemma
<1> HIDE DEF h
<1>3. SubSeq(h, PromptLen + 1, PromptLen + m) \in Seq(AnyToken)
  BY <1>1, <1>2
<1>4. Len(SubSeq(h, PromptLen + 1, PromptLen + m)) = m
  BY <1>1, <1>2
<1>5. ASSUME NEW i \in 1 .. m
      PROVE  SubSeq(h, PromptLen + 1, PromptLen + m)[i]
               = [req |-> r, gen |-> g, pos |-> PromptLen + i - 1]
  <2>1. SubSeq(h, PromptLen + 1, PromptLen + m)[i] = h[PromptLen + i]
    BY <1>1, <1>2
  <2> QED BY <2>1, <1>1, <1>2
<1> QED BY <1>3, <1>4, <1>5 DEF h

(* To be the output part of a history is to be so element by element. *)
LEMMA GenuineIsTail ==
  ASSUME NEW r \in Req, NEW g \in Nat, NEW k \in Seq(AnyToken)
  PROVE  k = SubSeq(History(r, g, PromptLen + Len(k)), PromptLen + 1, PromptLen + Len(k))
           <=> Genuine(k, r, g)
<1> PICK t : t = SubSeq(History(r, g, PromptLen + Len(k)), PromptLen + 1, PromptLen + Len(k))
  OBVIOUS
<1>1. /\ t \in Seq(AnyToken) /\ Len(t) = Len(k)
      /\ \A i \in 1 .. Len(k) : t[i] = [req |-> r, gen |-> g, pos |-> PromptLen + i - 1]
  <2>1. Len(k) \in Nat
    OBVIOUS
  <2> QED BY <2>1, TailOfHistory
<1>2. k = t <=> \A i \in 1 .. Len(k) : k[i] = t[i]
  <2>1. ASSUME \A i \in 1 .. Len(k) : k[i] = t[i]  PROVE k = t
    BY <1>1, <2>1, SameElements
  <2> QED BY <2>1
<1>3. (\A i \in 1 .. Len(k) : k[i] = t[i]) <=> Genuine(k, r, g)
  BY <1>1 DEF Genuine
<1> QED BY <1>2, <1>3

(* A received prefix completes the prompt. *)
LEMMA PromptThenKnown ==
  ASSUME NEW r \in Req, NEW g \in Nat, NEW k \in Seq(AnyToken), Genuine(k, r, g)
  PROVE  History(r, g, PromptLen) \o k = History(r, g, PromptLen + Len(k))
<1> PICK h : h = History(r, g, PromptLen)
  OBVIOUS
<1> PICK f : f = History(r, g, PromptLen + Len(k))
  OBVIOUS
<1>1. PromptLen \in Nat /\ Len(k) \in Nat /\ PromptLen + Len(k) \in Nat
  BY AsyncBoundAssumption
<1>2. /\ h \in Seq(AnyToken) /\ Len(h) = PromptLen
      /\ \A i \in 1 .. PromptLen : h[i] = [req |-> r, gen |-> g, pos |-> i - 1]
  BY <1>1, HistoryLemma
<1>3. /\ f \in Seq(AnyToken) /\ Len(f) = PromptLen + Len(k)
      /\ \A i \in 1 .. PromptLen + Len(k) : f[i] = [req |-> r, gen |-> g, pos |-> i - 1]
  BY <1>1, HistoryLemma
<1>4. h \o k \in Seq(AnyToken) /\ Len(h \o k) = PromptLen + Len(k)
  BY <1>2
<1>5. ASSUME NEW i \in 1 .. PromptLen + Len(k)  PROVE (h \o k)[i] = f[i]
  <2>1. CASE i <= PromptLen
    BY <2>1, <1>1, <1>2, <1>3
  <2>2. CASE i > PromptLen
    <3>1. (h \o k)[i] = k[i - PromptLen] /\ i - PromptLen \in 1 .. Len(k)
      BY <2>2, <1>1, <1>2
    <3>2. k[i - PromptLen] = [req |-> r, gen |-> g, pos |-> PromptLen + (i - PromptLen) - 1]
      BY <3>1 DEF Genuine
    <3>3. PromptLen + (i - PromptLen) - 1 = i - 1
      BY <1>1
    <3> QED BY <3>1, <3>2, <3>3, <1>1, <1>3
  <2>3. i <= PromptLen \/ i > PromptLen
    BY <1>1
  <2> QED BY <2>1, <2>2, <2>3
<1>6. Len(h \o k) = Len(f) /\ \A i \in 1 .. Len(h \o k) : (h \o k)[i] = f[i]
  BY <1>3, <1>4, <1>5
<1> QED BY <1>3, <1>4, <1>6, SameElements

(* One more token in order. *)
LEMMA GenuineAppend ==
  ASSUME NEW r \in Req, NEW k \in Seq(AnyToken), Genuine(k, r, 1)
  PROVE  /\ k \o << OutputTok(r, PromptLen + Len(k)) >> \in Seq(AnyToken)
         /\ Len(k \o << OutputTok(r, PromptLen + Len(k)) >>) = Len(k) + 1
         /\ Genuine(k \o << OutputTok(r, PromptLen + Len(k)) >>, r, 1)
<1> PICK t : t = OutputTok(r, PromptLen + Len(k))
  OBVIOUS
<1>1. PromptLen \in Nat /\ Len(k) \in Nat
  BY AsyncBoundAssumption
<1>2. t \in AnyToken
  BY <1>1 DEF AnyToken, OutputTok
<1>3. k \o << t >> \in Seq(AnyToken) /\ Len(k \o << t >>) = Len(k) + 1
  BY <1>2
<1>4. ASSUME NEW i \in 1 .. Len(k) + 1
      PROVE  (k \o << t >>)[i] = [req |-> r, gen |-> 1, pos |-> PromptLen + i - 1]
  <2>1. CASE i <= Len(k)
    <3>1. (k \o << t >>)[i] = k[i] /\ i \in 1 .. Len(k)
      BY <2>1, <1>1, <1>2
    <3> QED BY <3>1 DEF Genuine
  <2>2. CASE i = Len(k) + 1
    <3>1. (k \o << t >>)[i] = t
      BY <2>2, <1>1, <1>2
    <3>2. PromptLen + i - 1 = PromptLen + Len(k)
      BY <2>2, <1>1
    <3> QED BY <3>1, <3>2 DEF OutputTok
  <2> QED BY <2>1, <2>2, <1>1
<1> QED BY <1>3, <1>4 DEF Genuine

(* What a step owes is what lies in the request's history at its place. *)
Fetched(row, c, t) ==
  [i \in 1 .. t |-> IF c + i <= Len(row) THEN row[c + i] ELSE Garbage]

(* What lies at a step's place in a long enough history is what it owes. *)
LEMMA DueFromHistory ==
  ASSUME NEW r \in Req, NEW n \in Nat, NEW c \in Nat, NEW t \in Nat, c + t <= n
  PROVE  Fetched(History(r, 1, n), c, t) = Owed(r, c, t)
<1> DEFINE h == History(r, 1, n)
<1> DEFINE f == History(r, 1, c + t)
<1>1. /\ h \in Seq(AnyToken) /\ Len(h) = n
      /\ \A i \in 1 .. n : h[i] = [req |-> r, gen |-> 1, pos |-> i - 1]
  BY HistoryLemma
<1>0. c + t \in Nat
  OBVIOUS
<1>2. /\ f \in Seq(AnyToken) /\ Len(f) = c + t
      /\ \A i \in 1 .. c + t : f[i] = [req |-> r, gen |-> 1, pos |-> i - 1]
  BY <1>0, HistoryLemma
<1> HIDE DEF h, f
<1>3. SubSeq(f, c + 1, c + t) = [i \in 1 .. t |-> f[c + i]]
  <2>1. /\ SubSeq(f, c + 1, c + t) \in Seq(AnyToken)
        /\ Len(SubSeq(f, c + 1, c + t)) = t
        /\ \A i \in 1 .. t : SubSeq(f, c + 1, c + t)[i] = f[c + i]
    BY <1>2
  <2>2. /\ [i \in 1 .. t |-> f[c + i]] \in Seq(AnyToken)
        /\ Len([i \in 1 .. t |-> f[c + i]]) = t
    BY <1>2
  <2>3. \A i \in 1 .. t : [j \in 1 .. t |-> f[c + j]][i] = f[c + i]
    OBVIOUS
  <2> QED BY <2>1, <2>2, <2>3, SameElements
<1>4. \A i \in 1 .. t : (IF c + i <= Len(h) THEN h[c + i] ELSE Garbage) = f[c + i]
  BY <1>1, <1>2
<1>5. [i \in 1 .. t |-> IF c + i <= Len(h) THEN h[c + i] ELSE Garbage]
        = [i \in 1 .. t |-> f[c + i]]
  BY <1>4
<1> QED BY <1>3, <1>5 DEF Fetched, Owed, h, f

-----------------------------------------------------------------------------
(* Steps and outputs. *)

(* No step holds nothing for anybody. *)
LEMMA NoStepLemma ==
  /\ NoStep \in AnyStep /\ Scheduled(NoStep) = {}
  /\ \A r \in Req : Samples(NoStep, r) = Nothing
<1>1. NoStep \in AnyStep
  <2>1. << >> \in Seq(AnyToken)
    OBVIOUS
  <2> QED BY <2>1 DEF NoStep, AnyStep
<1>2. Scheduled(NoStep) = {}
  BY DEF NoStep, Scheduled
<1> QED BY <1>1, <1>2 DEF Samples

(* The types of a step's fields. *)
LEMMA StepFields ==
  ASSUME NEW so \in AnyStep, NEW r \in Req
  PROVE  /\ so.toks[r] \in Nat /\ so.computed[r] \in Nat /\ so.outs[r] \in Nat
         /\ so.known[r] \in Seq(AnyToken) /\ so.gen[r] \in Nat
         /\ End(so, r) \in Nat
         /\ so.finished \subseteq Req /\ so.new \subseteq Req
         /\ Scheduled(so) \subseteq Req
         /\ r \in Scheduled(so) <=> so.toks[r] > 0
BY DEF AnyStep, End, Scheduled

(* The three things a step can hold for a request. *)
LEMMA SamplesLemma ==
  ASSUME NEW so \in AnyStep, NEW r \in Req
  PROVE  /\ Samples(so, r) \in Int
         /\ Samples(so, r) = Nothing <=> r \notin Scheduled(so)
         /\ Samples(so, r) = Chunk <=> r \in Scheduled(so) /\ End(so, r) < PromptLen
         /\ Samples(so, r) >= 0
              <=> r \in Scheduled(so) /\ End(so, r) >= PromptLen
         /\ Samples(so, r) >= 0 => Samples(so, r) = End(so, r)
BY StepFields, AsyncBoundAssumption DEF Samples, Nothing, Chunk

(* The three things an output can hold for a request. *)
LEMMA SampledLemma ==
  ASSUME NEW o \in AnyOutput, GenuineOutput(o), NEW r \in Req
  PROVE  /\ Sampled(o, r) \in Int
         /\ Sampled(o, r) = Nothing <=> r \notin InBatch(o.reqs)
         /\ Sampled(o, r) = Chunk <=> r \in o.partial
         /\ Sampled(o, r) >= 0 <=> r \in InBatch(o.reqs) \ o.partial
         /\ Sampled(o, r) >= 0 => Sampled(o, r) >= PromptLen
         /\ Sampled(o, r) >= -2
<1>1. CASE r \in InBatch(o.reqs) \ o.partial
  <2>1. PICK p \in DOMAIN o.reqs : o.reqs[p] = r /\ TokenFor(o, r) = o.toks[p]
    BY <1>1 DEF InBatch, TokenFor
  <2>2. TokenFor(o, r) \in AnyToken
    BY <2>1 DEF GenuineOutput, AnyOutput
  <2>3. Sampled(o, r) = TokenFor(o, r).pos /\ Sampled(o, r) \in Int
    BY <1>1, <2>2 DEF Sampled, AnyToken
  <2>4. Sampled(o, r) >= PromptLen
    BY <1>1 DEF GenuineOutput
  <2> QED BY <1>1, <2>3, <2>4, AsyncBoundAssumption DEF Nothing, Chunk
<1>2. CASE r \notin InBatch(o.reqs) \ o.partial
  BY <1>2 DEF Sampled, GenuineOutput, Nothing, Chunk
<1> QED BY <1>1, <1>2

(* What get_output takes from an output for a request. *)
LEMMA SampledOfLemma ==
  ASSUME NEW o \in AnyOutput, GenuineOutput(o), NEW r \in Req
  PROVE  SampledOf(o, r) =
           IF Sampled(o, r) >= 0 THEN << OutputTok(r, Sampled(o, r)) >> ELSE << >>
<1>1. CASE r \in InBatch(o.reqs) \ o.partial
  <2>1. Sampled(o, r) >= 0
    BY <1>1, SampledLemma
  <2>2. SampledOf(o, r) = << TokenFor(o, r) >>
    BY <1>1 DEF SampledOf, TokenFor
  <2>3. TokenFor(o, r) = OutputTok(r, Sampled(o, r))
    BY <1>1 DEF GenuineOutput
  <2> QED BY <2>1, <2>2, <2>3
<1>2. CASE r \notin InBatch(o.reqs) \ o.partial
  <2>1. ~(Sampled(o, r) >= 0)
    BY <1>2, SampledLemma
  <2>2. SampledOf(o, r) = << >>
    BY <1>2 DEF SampledOf
  <2> QED BY <2>1, <2>2
<1> QED BY <1>1, <1>2

(* Turning an output into a list changes nothing else. *)
LEMMA ListLemma ==
  ASSUME NEW o \in AnyOutput
  PROVE  /\ [o EXCEPT !.list = TRUE] \in AnyOutput
         /\ [o EXCEPT !.list = TRUE].reqs = o.reqs
         /\ [o EXCEPT !.list = TRUE].partial = o.partial
         /\ [o EXCEPT !.list = TRUE].list = TRUE
         /\ \A r : Sampled([o EXCEPT !.list = TRUE], r) = Sampled(o, r)
         /\ GenuineOutput(o) => GenuineOutput([o EXCEPT !.list = TRUE])
<1> PICK n : n = [o EXCEPT !.list = TRUE]
  OBVIOUS
<1>1. /\ n \in AnyOutput /\ n.reqs = o.reqs /\ n.partial = o.partial /\ n.toks = o.toks
      /\ n.list = TRUE
  BY DEF AnyOutput
<1>2. \A r : TokenFor(n, r) = TokenFor(o, r)
  BY <1>1 DEF TokenFor
<1>3. \A r : Sampled(n, r) = Sampled(o, r)
  BY <1>1, <1>2 DEF Sampled
<1>4. GenuineOutput(o) => GenuineOutput(n)
  BY <1>1, <1>2, <1>3 DEF GenuineOutput
<1> QED BY <1>1, <1>3, <1>4

(* What materializing an output leaves of the rows. *)
LEMMA HostAfterLemma ==
  ASSUME Types, NEW o \in AnyOutput, GenuineOutput(o)
  PROVE  /\ HostAfter(o) \in [Req -> Seq(AnyToken)]
         /\ OutIdsAfter(o) \in [Req -> Seq(AnyToken)]
         /\ \A r \in InBatch(batch) :
              Len(HostAfter(o)[r]) = PromptLen + Len(OutIdsAfter(o)[r])
         /\ \A r \in Req : Sampled(o, r) < 0 =>
              HostAfter(o)[r] = host[r] /\ OutIdsAfter(o)[r] = outIds[r]
<1>1. ASSUME NEW r \in Req
      PROVE  Written(o, r) \in Seq(AnyToken)
             /\ (Sampled(o, r) < 0 => Written(o, r) = << >>)
  <2>1. SampledOf(o, r) =
           IF Sampled(o, r) >= 0 THEN << OutputTok(r, Sampled(o, r)) >> ELSE << >>
    BY SampledOfLemma
  <2>2. Sampled(o, r) \in Int
    BY SampledLemma
  <2>3. OutputTok(r, Sampled(o, r)) \in AnyToken
    BY <2>2 DEF OutputTok, AnyToken
  <2> QED BY <2>1, <2>2, <2>3 DEF Written
<1>2. ASSUME NEW r \in Req
      PROVE  /\ HostAfter(o)[r] \in Seq(AnyToken)
             /\ OutIdsAfter(o)[r] \in Seq(AnyToken)
             /\ Len(HostAfter(o)[r]) - Len(host[r]) = Len(OutIdsAfter(o)[r]) - Len(outIds[r])
             /\ Sampled(o, r) < 0 =>
                  HostAfter(o)[r] = host[r] /\ OutIdsAfter(o)[r] = outIds[r]
  <2> PICK w \in Seq(AnyToken) : w = Written(o, r)
    BY <1>1
  <2> PICK h \in Seq(AnyToken) : h = host[r]
    BY DEF Types
  <2> PICK u \in Seq(AnyToken) : u = outIds[r]
    BY DEF Types
  <2>1. HostAfter(o)[r] = (IF Effective(o) THEN h \o w ELSE h)
    BY DEF HostAfter
  <2>2. OutIdsAfter(o)[r] = (IF Effective(o) THEN u \o w ELSE u)
    BY DEF OutIdsAfter
  <2>3. h \o w \in Seq(AnyToken) /\ Len(h \o w) = Len(h) + Len(w)
    OBVIOUS
  <2>4. u \o w \in Seq(AnyToken) /\ Len(u \o w) = Len(u) + Len(w)
    OBVIOUS
  <2>5. w = << >> => h \o w = h /\ u \o w = u
    OBVIOUS
  <2>6. Len(h) \in Nat /\ Len(u) \in Nat /\ Len(w) \in Nat
    OBVIOUS
  <2>7. CASE Effective(o)
    <3>1. HostAfter(o)[r] = h \o w /\ OutIdsAfter(o)[r] = u \o w
      BY <2>1, <2>2, <2>7
    <3>2. Sampled(o, r) < 0 =>
            HostAfter(o)[r] = host[r] /\ OutIdsAfter(o)[r] = outIds[r]
      BY <1>1, <2>5, <3>1
    <3>3. Len(HostAfter(o)[r]) - Len(host[r]) = Len(OutIdsAfter(o)[r]) - Len(outIds[r])
      <4>1. Len(h \o w) - Len(h) = Len(w) /\ Len(u \o w) - Len(u) = Len(w)
        BY <2>3, <2>4, <2>6
      <4> QED BY <4>1, <3>1, Zenon
    <3> QED BY <2>3, <2>4, <3>1, <3>2, <3>3
  <2>8. CASE ~Effective(o)
    <3>1. HostAfter(o)[r] = h /\ OutIdsAfter(o)[r] = u
      BY <2>1, <2>2, <2>8
    <3>2. Len(h) - Len(h) = Len(u) - Len(u)
      BY <2>6
    <3> QED BY <3>1, <3>2
  <2> QED BY <2>7, <2>8
<1>3. /\ HostAfter(o) \in [Req -> Seq(AnyToken)]
      /\ OutIdsAfter(o) \in [Req -> Seq(AnyToken)]
  BY <1>2 DEF HostAfter, OutIdsAfter
<1>4. ASSUME NEW r \in InBatch(batch)
      PROVE  Len(HostAfter(o)[r]) = PromptLen + Len(OutIdsAfter(o)[r])
  <2>1. r \in Req
    BY DEF Types, InBatch
  <2>2. Len(host[r]) = PromptLen + Len(outIds[r]) /\ Len(outIds[r]) \in Nat
    BY <2>1 DEF Types
  <2>3. Len(HostAfter(o)[r]) \in Nat /\ Len(OutIdsAfter(o)[r]) \in Nat
    BY <2>1, <1>2
  <2>4. Len(HostAfter(o)[r]) - Len(host[r]) = Len(OutIdsAfter(o)[r]) - Len(outIds[r])
    BY <2>1, <1>2
  <2> QED BY <2>2, <2>3, <2>4, AsyncBoundAssumption
<1> QED BY <1>2, <1>3, <1>4

(* The outputs may become lists and keep what they hold; the rows of the   *)
(* requests the last output sampled nothing for stay as they are.          *)
Kept ==
  /\ host' \in [Req -> Seq(AnyToken)] /\ outIds' \in [Req -> Seq(AnyToken)]
  /\ \A r \in InBatch(batch) : Len(host'[r]) = PromptLen + Len(outIds'[r])
  /\ \A r \in Req : Pos0(r) < 0 => host'[r] = host[r] /\ outIds'[r] = outIds[r]
  /\ last' \in AnyOutput /\ GenuineOutput(last')
  /\ last'.reqs = last.reqs /\ last'.partial = last.partial
  /\ \A r \in Req : Sampled(last', r) = Pos0(r)
  /\ outputs' \in Seq(AnyOutput) /\ Len(outputs') = Len(outputs)
  /\ outputs' # << >> => outputs'[Len(outputs')] = last'
  /\ \A i \in DOMAIN outputs' :
       /\ i \in DOMAIN outputs /\ GenuineOutput(outputs'[i])
       /\ \A r \in Req : Sampled(outputs'[i], r) = Sampled(outputs[i], r)

(* The main thread's get_output keeps what the outputs hold. *)
LEMMA MaterializeKeeps ==
  ASSUME Types, Objects, MaterializeLast
  PROVE  Kept
<1>1. last \in AnyOutput /\ GenuineOutput(last)
  BY DEF Types, Objects
<1>2. /\ HostAfter(last) \in [Req -> Seq(AnyToken)]
      /\ OutIdsAfter(last) \in [Req -> Seq(AnyToken)]
      /\ \A r \in InBatch(batch) :
           Len(HostAfter(last)[r]) = PromptLen + Len(OutIdsAfter(last)[r])
      /\ \A r \in Req : Sampled(last, r) < 0 =>
           HostAfter(last)[r] = host[r] /\ OutIdsAfter(last)[r] = outIds[r]
  BY <1>1, HostAfterLemma
<1>3. /\ host' \in [Req -> Seq(AnyToken)] /\ outIds' \in [Req -> Seq(AnyToken)]
      /\ \A r \in InBatch(batch) : Len(host'[r]) = PromptLen + Len(outIds'[r])
      /\ \A r \in Req : Pos0(r) < 0 => host'[r] = host[r] /\ outIds'[r] = outIds[r]
  BY <1>2 DEF MaterializeLast, Pos0
<1>4. /\ last' \in AnyOutput /\ GenuineOutput(last')
      /\ last'.reqs = last.reqs /\ last'.partial = last.partial
      /\ \A r \in Req : Sampled(last', r) = Pos0(r)
  BY <1>1, ListLemma DEF MaterializeLast, Pos0
<1>5. CASE outputs = << >>
  <2>1. outputs' = << >>
    BY <1>5 DEF MaterializeLast
  <2> QED BY <1>3, <1>4, <1>5, <2>1 DEF Kept
<1>6. CASE outputs # << >>
  <2> PICK s \in Seq(AnyOutput) : s = outputs
    BY DEF Types
  <2> PICK n \in Nat : n = Len(s) /\ n >= 1
    BY <1>6
  <2>1. outputs' = [s EXCEPT ![n].list = TRUE] /\ s[n] = last
    BY <1>6 DEF MaterializeLast, Objects
  <2>2. outputs' = [s EXCEPT ![n] = last']
    BY <2>1 DEF MaterializeLast
  <2>3. outputs' \in Seq(AnyOutput) /\ Len(outputs') = n /\ outputs'[n] = last'
    BY <2>2, <1>4
  <2>4. \A i \in 1 .. n : i # n => outputs'[i] = s[i]
    BY <2>2
  <2>5. ASSUME NEW i \in DOMAIN outputs'
        PROVE  /\ i \in DOMAIN outputs /\ GenuineOutput(outputs'[i])
               /\ \A r \in Req : Sampled(outputs'[i], r) = Sampled(outputs[i], r)
    <3>1. i \in 1 .. n /\ i \in DOMAIN outputs
      BY <2>3
    <3>2. CASE i = n
      BY <3>1, <3>2, <2>1, <2>3, <1>4 DEF Pos0
    <3>3. CASE i # n
      BY <3>1, <3>3, <2>4 DEF Objects
    <3> QED BY <3>2, <3>3
  <2> QED BY <1>3, <1>4, <2>3, <2>5 DEF Kept
<1> QED BY <1>5, <1>6

(* So does doing nothing. *)
LEMMA UnchangedKeeps ==
  ASSUME Types, Objects, UNCHANGED <<host, outIds, last, outputs>>
  PROVE  Kept
BY DEF Types, Objects, Kept, Pos0, InBatch

-----------------------------------------------------------------------------
(* The pipeline. *)

(* The types of the pipeline's steps. *)
LEMMA AheadType ==
  ASSUME Types
  PROVE  Ahead1 \in AnyStep /\ Ahead2 \in AnyStep
<1>1. \A i \in 1 .. Len(queue) : queue[i] \in AnyStep
  BY DEF Types
<1>2. queue # << >> => 1 \in 1 .. Len(queue)
  BY DEF Types
<1>3. Len(queue) >= 2 => 2 \in 1 .. Len(queue)
  BY DEF Types
<1>4. step \in AnyStep
  BY DEF Types
<1> QED BY <1>1, <1>2, <1>3, <1>4, NoStepLemma DEF Ahead1, Ahead2

(* The types of the pipeline's positions. *)
LEMMA PipelineType ==
  ASSUME Types, Objects, NEW r \in Req
  PROVE  /\ Output(1, r) \in Int /\ Output(2, r) \in Int
         /\ Samples(Ahead1, r) \in Int /\ Samples(Ahead2, r) \in Int
         /\ Pos0(r) \in Int /\ Pos1(r) \in Int /\ Pos2(r) \in Int
         /\ Stay0(r) \in Int /\ Stay1(r) \in Int /\ Stay2(r) \in Int
         /\ Pos0(r) >= 0 => Pos0(r) >= PromptLen
         /\ Pos1(r) >= 0 => Pos1(r) >= PromptLen
         /\ Pos2(r) >= 0 => Pos2(r) >= PromptLen
<1>1. ASSUME NEW i \in 1 .. 2  PROVE Output(i, r) \in Int
  <2>1. CASE i <= Len(outputs)
    <3>1. i \in DOMAIN outputs /\ outputs[i] \in AnyOutput
      BY <2>1 DEF Types
    <3>2. GenuineOutput(outputs[i])
      BY <3>1 DEF Objects
    <3> QED BY <2>1, <3>1, <3>2, SampledLemma DEF Output
  <2>2. CASE ~(i <= Len(outputs))
    BY <2>2 DEF Output, Nothing
  <2> QED BY <2>1, <2>2
<1>2. Ahead1 \in AnyStep /\ Ahead2 \in AnyStep
  BY AheadType
<1>3. /\ Samples(Ahead1, r) \in Int
      /\ Samples(Ahead1, r) >= 0 => Samples(Ahead1, r) >= PromptLen
  BY <1>2, SamplesLemma
<1>4. /\ Samples(Ahead2, r) \in Int
      /\ Samples(Ahead2, r) >= 0 => Samples(Ahead2, r) >= PromptLen
  BY <1>2, SamplesLemma
<1>5. last \in AnyOutput /\ GenuineOutput(last)
  BY DEF Types, Objects
<1>6. Pos0(r) \in Int /\ (Pos0(r) >= 0 => Pos0(r) >= PromptLen)
  BY <1>5, SampledLemma DEF Pos0
<1>7. Pos1(r) \in Int /\ (Pos1(r) >= 0 => Pos1(r) >= PromptLen)
  BY <1>3, <1>6 DEF Pos1, NextPos
<1>8. Pos2(r) \in Int /\ (Pos2(r) >= 0 => Pos2(r) >= PromptLen)
  BY <1>4, <1>7 DEF Pos2, NextPos
<1>9. outIds[r] \in Seq(AnyToken)
  BY DEF Types
<1>10. Stay0(r) \in Int
  BY <1>9 DEF Stay0, Nothing
<1>11. Ahead1.outs[r] \in Int /\ Ahead2.outs[r] \in Int
  BY <1>2, StepFields
<1>12. Stay1(r) \in Int
  BY <1>10, <1>11 DEF Stay1, NextStay, Nothing
<1>13. Stay2(r) \in Int
  BY <1>11, <1>12 DEF Stay2, NextStay, Nothing
<1>14. 1 \in 1 .. 2 /\ 2 \in 1 .. 2
  OBVIOUS
<1>15. Output(1, r) \in Int /\ Output(2, r) \in Int
  BY <1>1, <1>14
<1> QED BY <1>15, <1>3, <1>4, <1>6, <1>7, <1>8, <1>10, <1>12, <1>13

(* The runner's own steps leave the pipeline as the scheduler sees it. *)
SamePipeline ==
  /\ Ahead1' = Ahead1 /\ Ahead2' = Ahead2
  /\ \A r \in Req :
       /\ Output(1, r)' = Output(1, r) /\ Output(2, r)' = Output(2, r)
       /\ Pos0(r)' = Pos0(r)
       /\ Stay0(r)' \in {Stay0(r), Nothing}

SameRequests == UNCHANGED <<status, gen, computed, outs, known>>

(* A step that fits also fits when no row has to stay. *)
LEMMA FitsForgets ==
  ASSUME NEW pos, NEW stay, NEW so, NEW r, Fits(pos, stay, so, r)
  PROVE  Fits(pos, Nothing, so, r)
BY DEF Fits, PrefillFits, Nothing

(* A step of the runner alone changes no view of the scheduler. *)
LEMMA SameViews ==
  ASSUME SamePipeline, NEW r \in Req
  PROVE  /\ Pos1(r)' = Pos1(r) /\ Pos2(r)' = Pos2(r)
         /\ Stay1(r)' \in {Stay1(r), Nothing}
         /\ Stay2(r)' \in {Stay2(r), Nothing}
<1>1. /\ Ahead1' = Ahead1 /\ Ahead2' = Ahead2
      /\ Pos0(r)' = Pos0(r) /\ Stay0(r)' \in {Stay0(r), Nothing}
  BY DEF SamePipeline
<1>2. Pos1(r)' = Pos1(r)
  BY <1>1 DEF Pos1
<1>3. Stay1(r)' \in {Stay1(r), Nothing}
  BY <1>1 DEF Stay1, NextStay
<1> QED BY <1>1, <1>2, <1>3 DEF Pos2, Stay2, NextStay

(* The parts of the invariant about the pipeline survive such a step. *)
LEMMA SamePipelineKeeps ==
  ASSUME Chain, StepsFit, Latest, SamePipeline, SameRequests
  PROVE  Chain' /\ StepsFit' /\ Latest'
<1>1. Ahead1' = Ahead1 /\ Ahead2' = Ahead2
  BY DEF SamePipeline
<1>2. /\ status' = status /\ gen' = gen /\ computed' = computed
      /\ outs' = outs /\ known' = known
  BY DEF SameRequests
<1>3. Chain'
  BY <1>1, <1>2 DEF Chain, SamePipeline
<1>4. StepsFit'
  <2>1. ASSUME NEW r \in Scheduled(Ahead1')
        PROVE  Fits(Pos0(r)', Stay0(r)', Ahead1', r)
    <3>1. r \in Req /\ Fits(Pos0(r), Stay0(r), Ahead1, r)
      BY <1>1, <2>1 DEF StepsFit, Scheduled
    <3>2. Fits(Pos0(r), Nothing, Ahead1, r)
      BY <3>1, FitsForgets
    <3> QED BY <1>1, <3>1, <3>2 DEF SamePipeline
  <2>2. ASSUME NEW r \in Scheduled(Ahead2')
        PROVE  Fits(Pos1(r)', Stay1(r)', Ahead2', r)
    <3>1. r \in Req /\ Fits(Pos1(r), Stay1(r), Ahead2, r)
      BY <1>1, <2>2 DEF StepsFit, Scheduled
    <3>2. Fits(Pos1(r), Nothing, Ahead2, r)
      BY <3>1, FitsForgets
    <3> QED BY <1>1, <3>1, <3>2, SameViews
  <2> QED BY <2>1, <2>2 DEF StepsFit
<1>5. Latest'
  <2>1. ASSUME NEW r \in Req
        PROVE  /\ Pos2(r)' = Pos2(r) /\ Stay2(r)' \in {Stay2(r), Nothing}
               /\ Output(1, r)' = Output(1, r) /\ Output(2, r)' = Output(2, r)
    BY SameViews DEF SamePipeline
  <2> QED BY <2>1, <1>1, <1>2 DEF Latest, Nothing
<1> QED BY <1>3, <1>4, <1>5

(* Materializing changes neither positions nor rows that matter. *)
LEMMA KeptPipeline ==
  ASSUME Types, Objects, Kept
  PROVE  /\ Objects'
         /\ \A r \in Req :
              /\ Output(1, r)' = Output(1, r) /\ Output(2, r)' = Output(2, r)
              /\ Pos0(r)' = Pos0(r)
              /\ r \in last.partial => host'[r] = host[r] /\ outIds'[r] = outIds[r]
<1>1. Objects'
  BY DEF Kept, Objects
<1>2. ASSUME NEW r \in Req, NEW i \in 1 .. 2
      PROVE  Output(i, r)' = Output(i, r)
  <2>1. CASE i <= Len(outputs)
    <3>1. i \in DOMAIN outputs' /\ i <= Len(outputs')
      BY <2>1 DEF Kept
    <3>2. Sampled(outputs'[i], r) = Sampled(outputs[i], r)
      BY <3>1 DEF Kept
    <3> QED BY <2>1, <3>1, <3>2 DEF Output
  <2>2. CASE ~(i <= Len(outputs))
    BY <2>2 DEF Output, Kept
  <2> QED BY <2>1, <2>2
<1>3. ASSUME NEW r \in Req
      PROVE  /\ Output(1, r)' = Output(1, r) /\ Output(2, r)' = Output(2, r)
             /\ Pos0(r)' = Pos0(r)
             /\ r \in last.partial => host'[r] = host[r] /\ outIds'[r] = outIds[r]
  <2>1. 1 \in 1 .. 2 /\ 2 \in 1 .. 2
    OBVIOUS
  <2>2. Pos0(r)' = Pos0(r)
    BY DEF Kept, Pos0
  <2>3. r \in last.partial => Pos0(r) < 0
    BY DEF Pos0, Sampled, Chunk
  <2>4. r \in last.partial => host'[r] = host[r] /\ outIds'[r] = outIds[r]
    BY <2>3 DEF Kept
  <2>5. Output(1, r)' = Output(1, r) /\ Output(2, r)' = Output(2, r)
    BY <1>2, <2>1
  <2> QED BY <2>2, <2>4, <2>5
<1> QED BY <1>1, <1>3

(* Begin, with or without materializing. *)
LEMMA BeginStep ==
  ASSUME IInv, queue # << >>, Begin(Head(queue)), queue' = Tail(queue),
         UNCHANGED <<status, gen, computed, outs, known, finished>>
  PROVE  IInv'
<1>1. /\ Types /\ Depth /\ Chain /\ StepsFit /\ Latest
      /\ Objects /\ RowsReady /\ StreamGenuine
  BY DEF IInv
<1>2. /\ pc = "idle" /\ pc' = "update" /\ step' = Head(queue)
      /\ UNCHANGED <<outputRank, batch, ids>>
      /\ changed' \in BOOLEAN
  BY DEF Begin, CompositionChanged
<1>3. Kept
  <2>1. MaterializeLast \/ UNCHANGED <<host, outIds, last, outputs>>
    BY DEF Begin
  <2> QED BY <1>1, <2>1, MaterializeKeeps, UnchangedKeeps
<1>4. /\ Objects'
      /\ \A r \in Req :
           /\ Output(1, r)' = Output(1, r) /\ Output(2, r)' = Output(2, r)
           /\ Pos0(r)' = Pos0(r)
           /\ r \in last.partial => host'[r] = host[r] /\ outIds'[r] = outIds[r]
  BY <1>1, <1>3, KeptPipeline
<1>5. /\ Head(queue) = queue[1] /\ Head(queue) \in AnyStep
      /\ Tail(queue) \in Seq(AnyStep) /\ Len(Tail(queue)) = Len(queue) - 1
      /\ Tail(queue) # << >> <=> Len(queue) >= 2
      /\ Tail(queue) # << >> => Tail(queue)[1] = queue[2]
      /\ Len(queue) \in Nat
  <2> PICK q \in Seq(AnyStep) : q = queue
    BY <1>1 DEF Types
  <2>1. /\ Head(q) = q[1] /\ Head(q) \in AnyStep
        /\ Tail(q) \in Seq(AnyStep) /\ Len(Tail(q)) = Len(q) - 1
        /\ Len(q) \in Nat
    OBVIOUS
  <2>2. Tail(q) # << >> <=> Len(q) >= 2
    <3> PICK t \in Seq(AnyStep) : t = Tail(q)
      BY <2>1
    <3>1. t # << >> <=> Len(t) >= 1
      OBVIOUS
    <3> QED BY <2>1, <3>1
  <2>3. Len(q) >= 2 => Tail(q)[1] = q[2]
    BY <2>1
  <2> QED BY <2>1, <2>2, <2>3
<1>6. Types'
  <2>1. status' = status /\ gen' = gen /\ computed' = computed /\ outs' = outs
        /\ known' = known /\ finished' = finished
    OBVIOUS
  <2>2. /\ outputRank' \in BOOLEAN /\ step' \in AnyStep /\ changed' \in BOOLEAN
        /\ batch' \in Seq(Req) /\ ids' \in Seq(Seq(AnyToken))
        /\ queue' \in Seq(AnyStep)
    BY <1>1, <1>2, <1>5 DEF Types
  <2>3. /\ host' \in [Req -> Seq(AnyToken)] /\ outIds' \in [Req -> Seq(AnyToken)]
        /\ last' \in AnyOutput /\ outputs' \in Seq(AnyOutput)
        /\ \A r \in InBatch(batch) : Len(host'[r]) = PromptLen + Len(outIds'[r])
    BY <1>3 DEF Kept
  <2>4. InBatch(batch)' = InBatch(batch)
    BY <1>2 DEF InBatch
  <2> QED BY <1>1, <1>2, <2>1, <2>2, <2>3, <2>4 DEF Types
<1>7. Ahead1' = Ahead1 /\ Ahead2' = Ahead2
  BY <1>2, <1>5 DEF Ahead1, Ahead2
<1>8. ASSUME NEW r \in Req  PROVE Stay0(r)' = Stay0(r)
  <2>1. last'.partial = last.partial /\ InBatch(batch)' = InBatch(batch)
    BY <1>2, <1>3 DEF Kept, InBatch
  <2> QED BY <1>2, <1>4, <2>1 DEF Stay0
<1>9. SamePipeline
  BY <1>4, <1>7, <1>8 DEF SamePipeline
<1>10. Chain' /\ StepsFit' /\ Latest'
  BY <1>1, <1>9, SamePipelineKeeps DEF SameRequests
<1>11. Depth'
  <2>1. Len(outputs') = Len(outputs) /\ Len(outputs) \in Nat
    BY <1>1, <1>3 DEF Kept, Types
  <2> QED BY <1>1, <1>2, <1>5, <2>1 DEF Depth, UnderWay
<1>12. RowsReady'
  <2>1. /\ InBatch(batch) \subseteq InBatch(last.reqs)
        /\ \A r \in InBatch(batch) \cap last.partial : Row(r, Len(outIds[r]))
    BY <1>1, <1>2 DEF RowsReady
  <2>2. InBatch(batch)' = InBatch(batch) /\ InBatch(batch) \subseteq Req
    BY <1>1, <1>2 DEF InBatch, Types
  <2>3. InBatch(batch)' \subseteq InBatch(last'.reqs) /\ last'.partial = last.partial
    BY <1>3, <2>1, <2>2 DEF Kept
  <2>4. \A r \in InBatch(batch)' \cap last'.partial : Row(r, Len(outIds[r]))'
    BY <1>4, <2>1, <2>2, <2>3 DEF Row
  <2> QED BY <1>2, <2>3, <2>4 DEF RowsReady
<1>13. StreamGenuine'
  BY <1>1 DEF StreamGenuine
<1> QED BY <1>4, <1>6, <1>10, <1>11, <1>12, <1>13 DEF IInv

-----------------------------------------------------------------------------
(* The inputs of a step. *)

(* A step that fits ends within prompt and outputs. *)
LEMMA FitsEnd ==
  ASSUME NEW so \in AnyStep, NEW r \in Req, NEW pos, NEW stay, Fits(pos, stay, so, r)
  PROVE  End(so, r) <= PromptLen + so.outs[r]
BY StepFields, AsyncBoundAssumption DEF Fits, DecodeFits, PrefillFits, End

(* The type of a gathered row. *)
LEMMA GatheredType ==
  ASSUME Types, NEW r \in Req, NEW row \in Seq(AnyToken)
  PROVE  Gathered(row, r) \in Seq(AnyToken)
<1>1. Garbage \in AnyToken
  BY DEF Garbage, AnyToken
<1>2. step.toks[r] \in Nat /\ step.computed[r] \in Nat
  BY StepFields DEF Types
<1>3. \A i \in 1 .. step.toks[r] :
        (IF step.computed[r] + i <= Len(row) THEN row[step.computed[r] + i]
                                             ELSE Garbage) \in AnyToken
  BY <1>1, <1>2
<1> QED BY <1>2, <1>3 DEF Gathered

(* A complete row yields what the step owes. *)
LEMMA GatheredIsDue ==
  ASSUME Types, NEW r \in Req, NEW pos, NEW stay, Fits(pos, stay, step, r)
  PROVE  Gathered(History(r, 1, PromptLen + step.outs[r]), r) = Due(step, r)
<1>1. /\ step.toks[r] \in Nat /\ step.computed[r] \in Nat /\ step.outs[r] \in Nat
      /\ End(step, r) = step.computed[r] + step.toks[r]
      /\ step \in AnyStep
  BY StepFields DEF Types, End
<1> PICK c \in Nat : c = step.computed[r]
  BY <1>1
<1> PICK t \in Nat : t = step.toks[r]
  BY <1>1
<1> PICK n \in Nat : n = PromptLen + step.outs[r]
  BY <1>1, AsyncBoundAssumption
<1>2. c + t <= n
  <2>1. step \in AnyStep
    BY <1>1
  <2>2. End(step, r) <= PromptLen + step.outs[r]
    BY <2>1, FitsEnd
  <2> QED BY <1>1, <2>2
<1>3. Fetched(History(r, 1, n), c, t) = Owed(r, c, t)
  BY <1>2, DueFromHistory
<1>4. Gathered(History(r, 1, n), r) = Fetched(History(r, 1, n), c, t)
  BY DEF Gathered, Fetched
<1>5. Due(step, r) = Owed(r, c, t)
  BY DEF Due
<1> QED BY <1>3, <1>4, <1>5

(* A decode row owes the one token before it. *)
LEMMA DecodeDue ==
  ASSUME Types, NEW r \in Req, step.toks[r] = 1
  PROVE  Due(step, r) = << OutputTok(r, step.computed[r]) >>
<1>s. step \in AnyStep
  BY DEF Types
<1> PICK c \in Nat : c = step.computed[r]
  BY <1>s, StepFields
<1> DEFINE h == History(r, 1, c + 1)
<1>0. c + 1 \in Nat /\ 1 \in Nat /\ c + 1 \in 1 .. c + 1 /\ (c + 1) - 1 = c
  OBVIOUS
<1>1. /\ h \in Seq(AnyToken) /\ Len(h) = c + 1
      /\ h[c + 1] = [req |-> r, gen |-> 1, pos |-> (c + 1) - 1]
  <2> PICK n \in Nat : n = c + 1
    BY <1>0
  <2>1. /\ h \in Seq(AnyToken) /\ Len(h) = n
        /\ \A i \in 1 .. n : h[i] = [req |-> r, gen |-> 1, pos |-> i - 1]
    <3>1. 1 \in Nat
      OBVIOUS
    <3> QED BY <3>1, HistoryLemma
  <2> QED BY <1>0, <2>1, Zenon
<1> HIDE DEF h
<1>2. h[c + 1] = OutputTok(r, c)
  BY <1>0, <1>1 DEF OutputTok
<1>3. SubSeq(h, c + 1, c + 1) = << h[c + 1] >>
  BY <1>0, <1>1, OnePosition
<1>4. Due(step, r) = SubSeq(h, c + 1, c + 1)
  BY DEF Due, Owed, h
<1> QED BY <1>2, <1>3, <1>4

(* What holds of every row of the batch while a step runs. *)
LEMMA BatchRows ==
  ASSUME Types, StepsFit, RowsReady, pc \in {"prepare", "swap", "sample"},
         NEW p \in DOMAIN batch
  PROVE  /\ batch[p] \in InBatch(batch) /\ batch[p] \in Req
         /\ batch[p] \in Scheduled(step)
         /\ Fits(Pos0(batch[p]), Nothing, step, batch[p])
         /\ Pos0(batch[p]) < 0 => Row(batch[p], step.outs[batch[p]])
<1>1. batch[p] \in InBatch(batch) /\ batch[p] \in Req
  BY DEF InBatch, Types
<1>2. batch[p] \in Scheduled(step)
  BY <1>1 DEF RowsReady
<1>3. Fits(Pos0(batch[p]), Stay0(batch[p]), step, batch[p])
  BY <1>2 DEF StepsFit, Ahead1
<1>4. Fits(Pos0(batch[p]), Nothing, step, batch[p])
  BY <1>3, FitsForgets
<1> QED BY <1>1, <1>2, <1>4 DEF RowsReady

(* _prepare_model_input gathers what is due where the row is complete. *)
LEMMA PrepareStep ==
  ASSUME IInv, Prepare, UNCHANGED schedulerVars
  PROVE  IInv'
<1>1. /\ Types /\ Depth /\ Chain /\ StepsFit /\ Latest
      /\ Objects /\ RowsReady /\ StreamGenuine
  BY DEF IInv
<1>2. /\ pc = "prepare" /\ pc' = "swap"
      /\ UNCHANGED <<outputRank, step, changed, batch, host, outIds, last, outputs>>
      /\ UNCHANGED <<status, gen, computed, outs, known, finished, queue>>
  BY DEF Prepare, schedulerVars
<1>3. /\ DOMAIN ids' = DOMAIN batch
      /\ \A p \in DOMAIN batch : ids'[p] = Gathered(host[batch[p]], batch[p])
  BY DEF Prepare
<1>4. Types'
  <2>1. \A p \in DOMAIN batch : Gathered(host[batch[p]], batch[p]) \in Seq(AnyToken)
    <3>1. \A p \in DOMAIN batch : batch[p] \in Req /\ host[batch[p]] \in Seq(AnyToken)
      BY <1>1 DEF Types
    <3> QED BY <1>1, <3>1, GatheredType
  <2>2. ids' \in Seq(Seq(AnyToken))
    <3>1. DOMAIN batch = 1 .. Len(batch) /\ Len(batch) \in Nat
      BY <1>1 DEF Types
    <3>2. ids' = [p \in 1 .. Len(batch) |-> Gathered(host[batch[p]], batch[p])]
      BY <3>1 DEF Prepare
    <3> QED BY <3>1, <3>2, <2>1
  <2> QED BY <1>1, <1>2, <2>2 DEF Types, InBatch
<1>5. SamePipeline
  BY <1>2 DEF SamePipeline, Ahead1, Ahead2, Output, Pos0, Stay0
<1>6. Chain' /\ StepsFit' /\ Latest'
  BY <1>1, <1>2, <1>5, SamePipelineKeeps DEF SameRequests
<1>7. Depth' /\ Objects' /\ StreamGenuine'
  BY <1>1, <1>2 DEF Depth, UnderWay, Objects, StreamGenuine
<1>8. RowsReady'
  <2>1. ASSUME NEW p \in DOMAIN batch, Pos0(batch[p]) < 0
        PROVE  ids'[p] = Due(step, batch[p])
    <3>1. /\ batch[p] \in Req /\ Fits(Pos0(batch[p]), Nothing, step, batch[p])
          /\ host[batch[p]] = History(batch[p], 1, PromptLen + step.outs[batch[p]])
      BY <1>1, <1>2, <2>1, BatchRows DEF Row
    <3> QED BY <1>1, <1>3, <3>1, GatheredIsDue
  <2>2. /\ InBatch(batch) = Scheduled(step) /\ Scheduled(step) # {}
        /\ \A r \in InBatch(batch) : Pos0(r) < 0 => Row(r, step.outs[r])
    BY <1>1, <1>2 DEF RowsReady
  <2>3. \A r : Pos0(r)' = Pos0(r) /\ \A n : Row(r, n)' <=> Row(r, n)
    BY <1>2 DEF Pos0, Row
  <2> QED BY <1>2, <1>3, <2>1, <2>2, <2>3 DEF RowsReady, InBatch
<1> QED BY <1>4, <1>6, <1>7, <1>8 DEF IInv

(* The type of what a step owes. *)
LEMMA DueType ==
  ASSUME NEW so \in AnyStep, NEW r \in Req
  PROVE  Due(so, r) \in Seq(AnyToken)
<1> PICK c \in Nat : c = so.computed[r]
  BY StepFields
<1> PICK t \in Nat : t = so.toks[r]
  BY StepFields
<1> DEFINE h == History(r, 1, c + t)
<1>1. c + t \in Nat /\ 1 \in Nat
  OBVIOUS
<1>2. h \in Seq(AnyToken) /\ Len(h) = c + t
  BY <1>1, HistoryLemma
<1> HIDE DEF h
<1>3. SubSeq(h, c + 1, c + t) \in Seq(AnyToken)
  BY <1>2
<1> QED BY <1>3 DEF Due, Owed, h

(* The last token sampled for a request is the one its decode step owes. *)
LEMMA LastTokenIsDue ==
  ASSUME Types, Objects, NEW r \in Req, NEW stay, Fits(Pos0(r), stay, step, r),
         Pos0(r) >= 0
  PROVE  /\ r \in InBatch(last.reqs)
         /\ << TokenFor(last, r) >> = Due(step, r)
         /\ SampledOf(last, r) = << TokenFor(last, r) >>
<1>1. last \in AnyOutput /\ GenuineOutput(last) /\ Sampled(last, r) = Pos0(r)
  BY DEF Types, Objects, Pos0
<1>2. step.toks[r] = 1 /\ Pos0(r) = step.computed[r]
  <2>1. Pos0(r) \in Int
    BY PipelineType
  <2>2. ~(Pos0(r) < 0)
    BY <2>1
  <2> QED BY <2>2 DEF Fits, DecodeFits, PrefillFits
<1>3. r \in InBatch(last.reqs) \ last.partial
  BY <1>1, SampledLemma
<1>4. TokenFor(last, r) = OutputTok(r, step.computed[r])
  BY <1>1, <1>2, <1>3 DEF GenuineOutput
<1>5. SampledOf(last, r) = << TokenFor(last, r) >>
  BY <1>3 DEF SampledOf, TokenFor
<1> QED BY <1>2, <1>3, <1>4, <1>5, DecodeDue

(* The future, the rows and the fixup together feed every row its due. *)
LEMMA SwapFeeds ==
  ASSUME IInv, Swap
  PROVE  /\ DOMAIN ids' = DOMAIN batch
         /\ \A p \in DOMAIN batch : ids'[p] = Due(step, batch[p])
<1>1. Types /\ StepsFit /\ Objects /\ RowsReady /\ pc = "swap"
  BY DEF IInv, Swap
<1>2. last \in AnyOutput /\ GenuineOutput(last)
  BY <1>1 DEF Types, Objects
<1>3. ASSUME NEW p \in DOMAIN batch
      PROVE  /\ batch[p] \in InBatch(batch) /\ batch[p] \in Req
             /\ Fits(Pos0(batch[p]), Nothing, step, batch[p])
             /\ Pos0(batch[p]) < 0 => Row(batch[p], step.outs[batch[p]])
             /\ Pos0(batch[p]) \in Int
             /\ step.computed[batch[p]] \in Nat
  BY <1>1, BatchRows, PipelineType, StepFields DEF Types
<1>4. ASSUME NEW p \in DOMAIN batch, Pos0(batch[p]) < 0
      PROVE  Gathered(host[batch[p]], batch[p]) = Due(step, batch[p])
  <2>1. host[batch[p]] = History(batch[p], 1, PromptLen + step.outs[batch[p]])
    BY <1>3, <1>4 DEF Row
  <2> QED BY <1>1, <1>3, <2>1, GatheredIsDue
<1>5. CASE /\ InBatch(batch) \subseteq InBatch(last.reqs) /\ IsDecode
           /\ ids' = Remapped
  <2>1. ASSUME NEW p \in DOMAIN batch  PROVE ids'[p] = Due(step, batch[p])
    <3>1. step.computed[batch[p]] >= PromptLen
      BY <1>3, <1>5 DEF IsDecode, IsDecodeRow
    <3>2. ids'[p] = << TokenFor(last, batch[p]) >>
      BY <1>5 DEF Remapped, TokenFor
    <3>3. DecodeFits(Pos0(batch[p]), step, batch[p])
      BY <1>3, <3>1, AsyncBoundAssumption DEF Fits, PrefillFits
    <3>4. Sampled(last, batch[p]) # Chunk /\ batch[p] \in InBatch(last.reqs)
      BY <1>3, <1>5, <3>3 DEF DecodeFits, Pos0
    <3>5. Pos0(batch[p]) >= 0
      BY <1>2, <1>3, <3>4, SampledLemma DEF Pos0
    <3> QED BY <1>1, <1>3, <3>2, <3>5, LastTokenIsDue
  <2> QED BY <1>5, <2>1 DEF Remapped
<1>6. CASE ids' = FixedUp([p \in DOMAIN batch |->
                     Gathered(HostAfter(last)[batch[p]], batch[p])])
  <2> PICK rebuilt : rebuilt = [p \in DOMAIN batch |->
                                  Gathered(HostAfter(last)[batch[p]], batch[p])]
    OBVIOUS
  <2>1. ASSUME NEW p \in DOMAIN batch, Pos0(batch[p]) < 0
        PROVE  rebuilt[p] = Due(step, batch[p]) /\ SampledOf(last, batch[p]) = << >>
    <3>1. HostAfter(last)[batch[p]] = host[batch[p]]
      BY <1>1, <1>2, <1>3, <2>1, HostAfterLemma DEF Pos0
    <3>2. SampledOf(last, batch[p]) = << >>
      BY <1>2, <1>3, <2>1, SampledOfLemma DEF Pos0
    <3> QED BY <1>4, <2>1, <3>1, <3>2
  <2>2. CASE step.prefill
    <3>1. ids' = rebuilt
      BY <1>6, <2>2 DEF FixedUp
    <3>2. \A p \in DOMAIN batch : Pos0(batch[p]) < 0
      BY <1>3, <2>2 DEF Fits, DecodeFits, PrefillFits
    <3> QED BY <2>1, <3>1, <3>2
  <2>3. CASE ~step.prefill
    <3>1. ids' = [p \in DOMAIN batch |->
                    IF IsDecodeRow(batch[p]) /\ SampledOf(last, batch[p]) # << >>
                    THEN SampledOf(last, batch[p]) ELSE rebuilt[p]]
      BY <1>6, <2>3 DEF FixedUp
    <3>2. ASSUME NEW p \in DOMAIN batch  PROVE ids'[p] = Due(step, batch[p])
      <4>1. CASE Pos0(batch[p]) < 0
        BY <2>1, <3>1, <4>1
      <4>2. CASE Pos0(batch[p]) >= 0
        <5>1. IsDecodeRow(batch[p])
          <6>1. DecodeFits(Pos0(batch[p]), step, batch[p])
            BY <1>3, <2>3 DEF Fits, PrefillFits
          <6>2. step.outs[batch[p]] \in Nat
            BY <1>1, <1>3, StepFields DEF Types
          <6> QED BY <6>1, <6>2, AsyncBoundAssumption DEF DecodeFits, IsDecodeRow
        <5>2. SampledOf(last, batch[p]) = Due(step, batch[p])
              /\ SampledOf(last, batch[p]) # << >>
          <6>1. /\ << TokenFor(last, batch[p]) >> = Due(step, batch[p])
                /\ SampledOf(last, batch[p]) = << TokenFor(last, batch[p]) >>
            BY <1>1, <1>3, <4>2, LastTokenIsDue
          <6> QED BY <6>1
        <5> QED BY <3>1, <5>1, <5>2
      <4> QED BY <1>3, <4>1, <4>2
    <3> QED BY <3>1, <3>2
  <2> QED BY <2>2, <2>3
<1>7. CASE ~Materializes /\ ids' = ids
  <2>1. ASSUME NEW p \in DOMAIN batch  PROVE Pos0(batch[p]) < 0
    <3>1. CASE last = NoOutput
      BY <3>1 DEF NoOutput, Pos0, Sampled, InBatch, Nothing, Chunk
    <3>2. CASE AllPartial(last)
      <4>1. Sampled(last, batch[p]) < 0
        BY <1>2, <1>3, <3>2, SampledLemma DEF AllPartial
      <4> QED BY <4>1 DEF Pos0
    <3> QED BY <1>7, <3>1, <3>2 DEF Materializes
  <2> QED BY <1>1, <1>7, <2>1 DEF RowsReady
<1> QED BY <1>5, <1>6, <1>7 DEF Swap

(* The swap, or the fallback. *)
LEMMA SwapStep ==
  ASSUME IInv, Swap, UNCHANGED schedulerVars
  PROVE  IInv'
<1>1. /\ Types /\ Depth /\ Chain /\ StepsFit /\ Latest
      /\ Objects /\ RowsReady /\ StreamGenuine
  BY DEF IInv
<1>2. /\ pc = "swap" /\ pc' = "sample"
      /\ UNCHANGED <<outputRank, step, changed, batch>>
      /\ UNCHANGED <<status, gen, computed, outs, known, finished, queue>>
  BY DEF Swap, schedulerVars
<1>3. /\ DOMAIN ids' = DOMAIN batch
      /\ \A p \in DOMAIN batch : ids'[p] = Due(step, batch[p])
  BY SwapFeeds
<1>4. Kept
  <2>1. MaterializeLast \/ UNCHANGED <<host, outIds, last, outputs>>
    BY DEF Swap
  <2> QED BY <1>1, <2>1, MaterializeKeeps, UnchangedKeeps
<1>5. /\ Objects'
      /\ \A r \in Req :
           /\ Output(1, r)' = Output(1, r) /\ Output(2, r)' = Output(2, r)
           /\ Pos0(r)' = Pos0(r)
  BY <1>1, <1>4, KeptPipeline
<1>6. Types'
  <2>1. DOMAIN batch = 1 .. Len(batch) /\ Len(batch) \in Nat /\ step \in AnyStep
    BY <1>1 DEF Types
  <2>2. \A p \in DOMAIN batch : Due(step, batch[p]) \in Seq(AnyToken)
    <3>1. \A p \in DOMAIN batch : batch[p] \in Req
      BY <1>1 DEF Types
    <3> QED BY <2>1, <3>1, DueType
  <2>3. ids' \in Seq(Seq(AnyToken))
    <3>1. \E f : ids' = [p \in DOMAIN batch |-> f[p]]
      <4>1. ids' = Remapped \/ ids' = ids
            \/ ids' = FixedUp([p \in DOMAIN batch |->
                         Gathered(HostAfter(last)[batch[p]], batch[p])])
        BY DEF Swap
      <4>2. CASE ids' = Remapped
        BY <4>2 DEF Remapped
      <4>3. CASE ids' = FixedUp([p \in DOMAIN batch |->
                           Gathered(HostAfter(last)[batch[p]], batch[p])])
        <5>1. CASE step.prefill
          BY <4>3, <5>1 DEF FixedUp
        <5>2. CASE ~step.prefill
          BY <4>3, <5>2 DEF FixedUp
        <5> QED BY <5>1, <5>2
      <4>4. CASE ids' = ids
        BY <4>4, <1>1, <1>3 DEF Types
      <4> QED BY <4>1, <4>2, <4>3, <4>4
    <3>2. PICK f : ids' = [p \in DOMAIN batch |-> f[p]]
      BY <3>1
    <3>3. \A p \in 1 .. Len(batch) : f[p] \in Seq(AnyToken)
      BY <1>3, <2>1, <2>2, <3>2
    <3> QED BY <2>1, <3>2, <3>3
  <2> QED BY <1>1, <1>2, <1>4, <2>3 DEF Types, Kept, InBatch
<1>7. SamePipeline
  BY <1>2, <1>5 DEF SamePipeline, Ahead1, Ahead2, Stay0
<1>8. Chain' /\ StepsFit' /\ Latest'
  BY <1>1, <1>2, <1>7, SamePipelineKeeps DEF SameRequests
<1>9. Depth'
  BY <1>1, <1>2, <1>4 DEF Depth, UnderWay, Kept
<1>10. StreamGenuine'
  BY <1>1, <1>2 DEF StreamGenuine
<1>11. RowsReady'
  <2>0. InBatch(batch) \subseteq Req
    BY <1>1 DEF Types, InBatch
  <2>1. /\ InBatch(batch) = Scheduled(step) /\ InBatch(batch) \subseteq Req
        /\ Scheduled(step) # {}
        /\ \A r \in InBatch(batch) : Pos0(r) < 0 => Row(r, step.outs[r])
    BY <1>1, <1>2, <2>0 DEF RowsReady
  <2>2. \A r \in InBatch(batch) : Pos0(r)' < 0 => Row(r, step.outs[r])'
    BY <1>2, <1>4, <1>5, <2>1 DEF Kept, Row
  <2> QED BY <1>2, <1>3, <2>1, <2>2 DEF RowsReady, InBatch
<1> QED BY <1>5, <1>6, <1>8, <1>9, <1>10, <1>11 DEF IInv

-----------------------------------------------------------------------------
(* A step leaves the pipeline's head: sampled, or without tokens. *)

Consumed ==
  /\ Ahead1' = Ahead2 /\ Ahead2' = NoStep
  /\ \A r \in Req :
       /\ Pos0(r)' = Pos1(r) /\ Stay0(r)' \in {Stay1(r), Nothing}
       /\ /\ Output(1, r) < 0 /\ Output(2, r) < 0
          /\ Samples(Ahead1, r) < 0 /\ Samples(Ahead2, r) < 0
          => Output(1, r)' < 0 /\ Output(2, r)' < 0

(* When a step leaves the pipeline, everything behind it moves up. *)
LEMMA ConsumedKeeps ==
  ASSUME StepsFit, Latest, Consumed, SameRequests
  PROVE  StepsFit' /\ Latest'
<1>1. Scheduled(NoStep) = {} /\ \A r \in Req : Samples(NoStep, r) = Nothing
  BY NoStepLemma
<1>2. ASSUME NEW r \in Req
      PROVE  /\ Pos1(r)' = Pos2(r) /\ Stay1(r)' \in {Stay2(r), Nothing}
             /\ Pos2(r)' = Pos2(r) /\ Stay2(r)' \in {Stay2(r), Nothing}
  <2>1. /\ Ahead1' = Ahead2 /\ Ahead2' = NoStep
        /\ Pos0(r)' = Pos1(r) /\ Stay0(r)' \in {Stay1(r), Nothing}
    BY DEF Consumed
  <2>2. Pos1(r)' = Pos2(r)
    BY <2>1 DEF Pos1, Pos2
  <2>3. Stay1(r)' \in {Stay2(r), Nothing}
    BY <2>1 DEF Stay1, Stay2, NextStay
  <2>4. Pos2(r)' = Pos1(r)'
    BY <1>1, <2>1 DEF Pos2, NextPos
  <2>5. Stay2(r)' = Stay1(r)'
    BY <1>1, <2>1 DEF Stay2, NextStay
  <2> QED BY <2>2, <2>3, <2>4, <2>5
<1>3. StepsFit'
  <2>1. ASSUME NEW r \in Scheduled(Ahead1')
        PROVE  Fits(Pos0(r)', Stay0(r)', Ahead1', r)
    <3>1. r \in Req /\ Fits(Pos1(r), Stay1(r), Ahead2, r)
      BY <2>1 DEF StepsFit, Scheduled, Consumed
    <3>2. Fits(Pos1(r), Nothing, Ahead2, r)
      BY <3>1, FitsForgets
    <3> QED BY <3>1, <3>2 DEF Consumed
  <2>2. Scheduled(Ahead2') = {}
    BY <1>1 DEF Consumed
  <2> QED BY <2>1, <2>2 DEF StepsFit
<1>4. Latest'
  <2>1. /\ status' = status /\ gen' = gen /\ computed' = computed
        /\ outs' = outs /\ known' = known
    BY DEF SameRequests
  <2>2. ASSUME NEW r \in Req
        PROVE  /\ /\ Output(1, r) < 0 /\ Output(2, r) < 0
                  /\ Samples(Ahead1, r) < 0 /\ Samples(Ahead2, r) < 0
                  => /\ Output(1, r)' < 0 /\ Output(2, r)' < 0
                     /\ Samples(Ahead1', r) < 0 /\ Samples(Ahead2', r) < 0
    BY <1>1 DEF Consumed, Nothing
  <2> QED BY <1>2, <2>1, <2>2 DEF Latest, Nothing
<1> QED BY <1>3, <1>4

(* A step whose inputs are due samples genuine tokens. *)
LEMMA SampledTokens ==
  ASSUME IInv, SampleTokens
  PROVE  /\ last' \in AnyOutput /\ GenuineOutput(last')
         /\ InBatch(last'.reqs) = InBatch(batch)
         /\ \A r \in Req : Sampled(last', r) = Samples(step, r)
         /\ \A r \in InBatch(batch) :
              r \in last'.partial => Row(r, step.outs[r])
<1>1. Types /\ StepsFit /\ Objects /\ RowsReady /\ pc = "sample"
  BY DEF IInv, SampleTokens
<1>2. /\ DOMAIN batch = 1 .. Len(batch) /\ Len(batch) \in Nat /\ step \in AnyStep
      /\ batch \in Seq(Req)
  BY <1>1 DEF Types
<1>3. /\ InBatch(batch) = Scheduled(step)
      /\ \A p \in DOMAIN batch : ids[p] = Due(step, batch[p])
  BY <1>1 DEF RowsReady
<1>4. /\ last'.reqs = batch /\ last'.partial = Partial(step)
      /\ last'.toks = [p \in DOMAIN batch |->
                         SampledFrom(ids[p], batch[p], step.gen[batch[p]])]
      /\ last' = [reqs |-> batch, toks |-> last'.toks,
                  partial |-> Partial(step), list |-> FALSE]
  BY DEF SampleTokens
<1>5. ASSUME NEW p \in DOMAIN batch
      PROVE  /\ batch[p] \in Req /\ last'.toks[p] = OutputTok(batch[p], End(step, batch[p]))
             /\ last'.toks[p] \in AnyToken
  <2>1. batch[p] \in Req /\ Fits(Pos0(batch[p]), Nothing, step, batch[p])
    BY <1>1, BatchRows
  <2>2. step.gen[batch[p]] = 1
    BY <2>1 DEF Fits, Known
  <2>3. ids[p] = SubSeq(History(batch[p], 1, End(step, batch[p])),
                        step.computed[batch[p]] + 1, End(step, batch[p]))
    BY <1>3 DEF Due, Owed, End
  <2>4. SampledFrom(ids[p], batch[p], 1) = OutputTok(batch[p], End(step, batch[p]))
    BY <2>3 DEF SampledFrom, OutputTok, End
  <2>5. End(step, batch[p]) \in Nat
    BY <1>2, <2>1, StepFields
  <2>6. OutputTok(batch[p], End(step, batch[p])) \in AnyToken
    BY <2>1, <2>5 DEF OutputTok, AnyToken
  <2> QED BY <1>4, <2>1, <2>2, <2>4, <2>6
<1>6. Partial(step) \subseteq InBatch(batch) /\ InBatch(batch) \subseteq Req
  BY <1>2 DEF Partial, InBatch
<1>7. last' \in AnyOutput
  <2>1. last'.toks \in Seq(AnyToken)
    <3>1. \A p \in 1 .. Len(batch) :
            SampledFrom(ids[p], batch[p], step.gen[batch[p]]) \in AnyToken
      BY <1>2, <1>4, <1>5
    <3>2. last'.toks = [p \in 1 .. Len(batch) |->
                          SampledFrom(ids[p], batch[p], step.gen[batch[p]])]
      BY <1>2, <1>4
    <3> QED BY <1>2, <3>1, <3>2
  <2>2. Partial(step) \in SUBSET Req
    BY <1>6
  <2>3. PICK t \in Seq(AnyToken) : t = last'.toks
    BY <2>1
  <2>4. last' = [reqs |-> batch, toks |-> t, partial |-> Partial(step), list |-> FALSE]
    BY <1>4, <2>3
  <2> QED BY <1>2, <2>2, <2>4 DEF AnyOutput
<1>8. ASSUME NEW r \in Req  PROVE Sampled(last', r) = Samples(step, r)
  <2>1. CASE r \notin InBatch(batch)
    BY <1>3, <1>4, <1>6, <2>1 DEF Sampled, Samples
  <2>2. CASE r \in Partial(step)
    <3>1. ~(End(step, r) >= PromptLen)
      BY <1>2, <2>2, StepFields, AsyncBoundAssumption DEF Partial, End
    <3> QED BY <1>3, <1>4, <1>6, <2>2, <3>1 DEF Sampled, Samples
  <2>3. CASE r \in InBatch(batch) \ Partial(step)
    <3>1. PICK p \in DOMAIN batch : batch[p] = r /\ TokenFor(last', r) = last'.toks[p]
      BY <1>4, <2>3 DEF TokenFor, InBatch
    <3>2. TokenFor(last', r).pos = End(step, r)
      <4>1. TokenFor(last', r) = OutputTok(r, End(step, r))
        BY <1>5, <3>1
      <4>2. OutputTok(r, End(step, r)).pos = End(step, r)
        BY DEF OutputTok
      <4> QED BY <4>1, <4>2
    <3>3. End(step, r) >= PromptLen
      BY <1>2, <2>3, StepFields, AsyncBoundAssumption DEF Partial, End
    <3> QED BY <1>3, <1>4, <2>3, <3>2, <3>3 DEF Sampled, Samples
  <2> QED BY <2>1, <2>2, <2>3
<1>9. GenuineOutput(last')
  <2>1. DOMAIN last'.toks = DOMAIN last'.reqs /\ last'.partial \subseteq InBatch(last'.reqs)
    BY <1>4, <1>6
  <2>2. ASSUME NEW r \in InBatch(last'.reqs) \ last'.partial
        PROVE  /\ Sampled(last', r) >= PromptLen
               /\ TokenFor(last', r) = OutputTok(r, Sampled(last', r))
    <3>1. r \in Req /\ r \in Scheduled(step) /\ r \notin Partial(step)
      BY <1>3, <1>4, <1>6, <2>2
    <3>2. End(step, r) >= PromptLen
      BY <1>2, <1>3, <3>1, StepFields, AsyncBoundAssumption DEF Partial, End
    <3>3. Sampled(last', r) = End(step, r)
      BY <1>8, <3>1, <3>2 DEF Samples
    <3>4. PICK p \in DOMAIN batch : batch[p] = r /\ TokenFor(last', r) = last'.toks[p]
      BY <1>4, <2>2 DEF TokenFor, InBatch
    <3>5. TokenFor(last', r) = OutputTok(r, End(step, r))
      BY <1>5, <3>4
    <3> QED BY <3>2, <3>3, <3>5
  <2> QED BY <2>1, <2>2 DEF GenuineOutput
<1>10. ASSUME NEW r \in InBatch(batch), r \in last'.partial
       PROVE  Row(r, step.outs[r])
  <2>1. PICK p \in DOMAIN batch : batch[p] = r
    BY DEF InBatch
  <2>2. /\ r \in Req /\ Fits(Pos0(r), Nothing, step, r)
        /\ Pos0(r) < 0 => Row(r, step.outs[r])
    BY <1>1, <2>1, BatchRows
  <2>3. step.computed[r] + step.toks[r] < PromptLen
    BY <1>4, <1>10 DEF Partial
  <2>4. Pos0(r) < 0
    <3>1. step.outs[r] \in Nat /\ PromptLen \in Nat
      BY <1>2, <2>2, StepFields, AsyncBoundAssumption
    <3>2. ~DecodeFits(Pos0(r), step, r)
      BY <2>3, <3>1 DEF DecodeFits
    <3> QED BY <2>2, <3>2 DEF Fits, PrefillFits
  <2> QED BY <2>2, <2>4
<1> QED BY <1>4, <1>7, <1>8, <1>9, <1>10

(* sample_tokens: the step becomes the newest output. *)
LEMMA SampleStep ==
  ASSUME IInv, SampleTokens, UNCHANGED schedulerVars
  PROVE  IInv'
<1>1. /\ Types /\ Depth /\ Chain /\ StepsFit /\ Latest
      /\ Objects /\ RowsReady /\ StreamGenuine
  BY DEF IInv
<1>2. /\ pc = "sample" /\ pc' = "idle" /\ outputs' = Append(outputs, last')
      /\ UNCHANGED <<outputRank, step, changed, batch, host, outIds, ids>>
      /\ UNCHANGED <<status, gen, computed, outs, known, finished, queue>>
  BY DEF SampleTokens, schedulerVars
<1>3. /\ last' \in AnyOutput /\ GenuineOutput(last')
      /\ InBatch(last'.reqs) = InBatch(batch)
      /\ \A r \in Req : Sampled(last', r) = Samples(step, r)
      /\ \A r \in InBatch(batch) : r \in last'.partial => Row(r, step.outs[r])
  BY SampledTokens
<1>4. PICK n \in Nat : n = Len(outputs) /\ n <= 1 /\ Len(queue) + n <= 1
                       /\ Len(queue) \in Nat
  <2>1. Len(outputs) \in Nat /\ Len(queue) \in Nat
    BY <1>1 DEF Types
  <2>2. Len(queue) + 1 + Len(outputs) <= 2
    BY <1>1, <1>2 DEF Depth, UnderWay
  <2> QED BY <2>1, <2>2
<1>5. /\ outputs' \in Seq(AnyOutput) /\ Len(outputs') = n + 1
      /\ outputs'[n + 1] = last'
      /\ \A i \in 1 .. n : outputs'[i] = outputs[i]
  <2> PICK s \in Seq(AnyOutput) : s = outputs
    BY <1>1 DEF Types
  <2>1. Append(s, last') \in Seq(AnyOutput) /\ Len(Append(s, last')) = Len(s) + 1
    BY <1>3
  <2>2. Append(s, last')[Len(s) + 1] = last'
    BY <1>3
  <2>3. \A i \in 1 .. Len(s) : Append(s, last')[i] = s[i]
    BY <1>3
  <2> QED BY <1>2, <1>4, <2>1, <2>2, <2>3
<1>6. Types'
  BY <1>1, <1>2, <1>3, <1>5 DEF Types, InBatch
<1>7. Depth'
  BY <1>2, <1>4, <1>5 DEF Depth, UnderWay
<1>8. Objects'
  <2>1. ASSUME NEW i \in DOMAIN outputs'  PROVE GenuineOutput(outputs'[i])
    <3>1. i \in 1 .. n + 1
      BY <1>5
    <3>2. CASE i = n + 1
      BY <1>3, <1>5, <3>2
    <3>3. CASE i # n + 1
      <4>1. i \in 1 .. n
        BY <3>1, <3>3
      <4>2. DOMAIN outputs = 1 .. n
        BY <1>1, <1>4 DEF Types
      <4> QED BY <1>1, <1>5, <4>1, <4>2 DEF Objects
    <3> QED BY <3>2, <3>3
  <2> QED BY <1>3, <1>4, <1>5, <2>1 DEF Objects
<1>9. /\ Ahead1 = step /\ Ahead1' = Ahead2 /\ Ahead2' = NoStep
  BY <1>2, <1>4 DEF Ahead1, Ahead2
<1>10. Scheduled(step) # {} /\ InBatch(batch) = Scheduled(step)
  BY <1>1, <1>2 DEF RowsReady
<1>11. ASSUME NEW r \in Req
       PROVE  /\ n = 0 => /\ Output(1, r) = Nothing /\ Output(2, r) = Nothing
                          /\ Output(1, r)' = Samples(step, r)
                          /\ Output(2, r)' = Nothing
              /\ n = 1 => /\ Output(2, r) = Nothing
                          /\ Output(1, r)' = Output(1, r)
                          /\ Output(2, r)' = Samples(step, r)
                          /\ Ahead2 = NoStep
  <2>1. CASE n = 0
    <3>1. outputs'[1] = last' /\ Len(outputs') = 1 /\ Len(outputs) = 0
      BY <1>4, <1>5, <2>1
    <3> QED BY <1>3, <2>1, <3>1 DEF Output
  <2>2. CASE n = 1
    <3>1. /\ outputs'[2] = last' /\ outputs'[1] = outputs[1]
          /\ Len(outputs') = 2 /\ Len(outputs) = 1 /\ Len(queue) = 0
      BY <1>4, <1>5, <2>2
    <3>2. queue = << >>
      BY <1>1, <3>1 DEF Types
    <3>3. Ahead2 = NoStep
      BY <1>2, <3>2 DEF Ahead2
    <3> QED BY <1>3, <2>2, <3>1, <3>3 DEF Output
  <2> QED BY <2>1, <2>2
<1>12. n = 0 \/ n = 1
  BY <1>4
<1>13. \A r \in Req : Samples(NoStep, r) = Nothing
  BY NoStepLemma
<1>14. Chain'
  <2>1. /\ status' = status /\ outs' = outs /\ known' = known
    BY <1>2
  <2>2. ASSUME NEW r \in Req
        PROVE  /\ ChunkAlone(Output(1, r)', Output(2, r)',
                             Samples(Ahead1', r), Samples(Ahead2', r))
               /\ status[r] # "idle" =>
                    InOrder(Output(1, r)', Output(2, r)',
                            Samples(Ahead1', r), Samples(Ahead2', r),
                            PromptLen + Len(known[r]), outs[r] - Len(known[r]))
    <3>1. /\ ChunkAlone(Output(1, r), Output(2, r), Samples(step, r), Samples(Ahead2, r))
          /\ status[r] # "idle" =>
               InOrder(Output(1, r), Output(2, r), Samples(step, r), Samples(Ahead2, r),
                       PromptLen + Len(known[r]), outs[r] - Len(known[r]))
      BY <1>1, <1>9 DEF Chain
    <3> PICK a \in Int : a = Samples(step, r)
      BY <1>1, <1>9, PipelineType
    <3> PICK b \in Int : b = Samples(Ahead2, r)
      BY <1>1, PipelineType
    <3> PICK c \in Int : c = Output(1, r)
      BY <1>1, PipelineType
    <3> PICK base \in Int, total \in Int :
          base = PromptLen + Len(known[r]) /\ total = outs[r] - Len(known[r])
      <4>1. Len(known[r]) \in Nat /\ outs[r] \in Nat /\ PromptLen \in Nat
        BY <1>1, AsyncBoundAssumption DEF Types
      <4> QED BY <4>1
    <3>2. CASE n = 0
      <4>1. /\ ChunkAlone(Nothing, Nothing, a, b)
            /\ status[r] # "idle" => InOrder(Nothing, Nothing, a, b, base, total)
        BY <1>11, <3>1, <3>2
      <4>2. ChunkAlone(a, Nothing, b, Nothing)
        BY <4>1 DEF ChunkAlone, Nothing, Chunk
      <4>3. status[r] # "idle" => InOrder(a, Nothing, b, Nothing, base, total)
        BY <4>1 DEF InOrder, Nothing, Bit
      <4> QED BY <1>9, <1>11, <1>13, <3>2, <4>2, <4>3
    <3>3. CASE n = 1
      <4>1. /\ ChunkAlone(c, Nothing, a, Nothing)
            /\ status[r] # "idle" => InOrder(c, Nothing, a, Nothing, base, total)
        BY <1>11, <1>13, <3>1, <3>3
      <4>2. ChunkAlone(c, a, Nothing, Nothing)
        BY <4>1 DEF ChunkAlone, Nothing, Chunk
      <4>3. status[r] # "idle" => InOrder(c, a, Nothing, Nothing, base, total)
        BY <4>1 DEF InOrder, Nothing, Bit
      <4> QED BY <1>9, <1>11, <1>13, <3>3, <4>2, <4>3
    <3> QED BY <1>12, <3>2, <3>3
  <2> QED BY <2>1, <2>2 DEF Chain
<1>15. Consumed
  <2>1. ASSUME NEW r \in Req
        PROVE  /\ Pos0(r)' = Pos1(r) /\ Stay0(r)' = Stay1(r)
               /\ /\ Output(1, r) < 0 /\ Output(2, r) < 0
                  /\ Samples(Ahead1, r) < 0 /\ Samples(Ahead2, r) < 0
                  => Output(1, r)' < 0 /\ Output(2, r)' < 0
    <3>1. Pos0(r)' = Pos1(r)
      BY <1>3, <1>9, <1>10 DEF Pos0, Pos1, NextPos
    <3>2. r \in last'.partial <=> Samples(step, r) = Chunk
      BY <1>3, SampledLemma
    <3>3. r \in last'.partial => r \in InBatch(batch)
      BY <1>3 DEF GenuineOutput
    <3>4. Stay0(r)' = IF r \in last'.partial THEN Len(outIds[r]) ELSE Nothing
      BY <1>2, <3>3 DEF Stay0, InBatch
    <3>5. Stay0(r)' = IF Samples(step, r) = Chunk THEN step.outs[r] ELSE Nothing
      BY <1>3, <3>2, <3>3, <3>4 DEF Row
    <3>6. Stay0(r)' = Stay1(r)
      BY <1>9, <1>10, <3>5 DEF Stay1, NextStay
    <3> QED BY <1>9, <1>11, <1>12, <3>1, <3>6 DEF Nothing
  <2> QED BY <1>9, <2>1 DEF Consumed
<1>16. StepsFit' /\ Latest'
  BY <1>1, <1>2, <1>15, ConsumedKeeps DEF SameRequests
<1>17. StreamGenuine'
  BY <1>1, <1>2 DEF StreamGenuine
<1>18. RowsReady'
  <2>1. InBatch(batch)' = InBatch(batch) /\ \A r, m : Row(r, m)' <=> Row(r, m)
    BY <1>2 DEF InBatch, Row
  <2>2. \A r \in InBatch(batch) : r \in last'.partial => Row(r, Len(outIds[r]))
    BY <1>3 DEF Row
  <2> QED BY <1>2, <1>3, <2>1, <2>2 DEF RowsReady
<1> QED BY <1>6, <1>7, <1>8, <1>14, <1>16, <1>17, <1>18 DEF IInv

-----------------------------------------------------------------------------
(* _update_states. *)

(* The last elements of a sequence, their type and number. *)
LEMMA LastNLemma ==
  ASSUME NEW S, NEW s \in Seq(S), NEW n \in Nat
  PROVE  LastN(s, n) \in Seq(S)
<1>1. CASE n >= Len(s)
  BY <1>1 DEF LastN
<1>2. CASE ~(n >= Len(s))
  <2> PICK m \in Nat : m = Len(s) /\ n < m
    BY <1>2
  <2>1. SubSeq(s, m - n + 1, m) \in Seq(S)
    OBVIOUS
  <2> QED BY <1>2, <2>1 DEF LastN
<1> QED BY <1>1, <1>2

(* The last of the prompt and the received tokens are the received ones. *)
LEMMA LastNIsSuffix ==
  ASSUME NEW S, NEW h \in Seq(S), NEW k \in Seq(S), Len(h) >= 1
  PROVE  LastN(h \o k, Len(k)) = k
<1> DEFINE s == h \o k
<1>1. s \in Seq(S) /\ Len(s) = Len(h) + Len(k) /\ Len(h) \in Nat /\ Len(k) \in Nat
  OBVIOUS
<1>2. \A i \in 1 .. Len(k) : s[Len(h) + i] = k[i]
  OBVIOUS
<1> HIDE DEF s
<1>3. LastN(s, Len(k)) = SubSeq(s, Len(h) + 1, Len(h) + Len(k))
  <2>1. ~(Len(k) >= Len(s)) /\ Len(s) - Len(k) + 1 = Len(h) + 1
    BY <1>1
  <2> QED BY <1>1, <2>1 DEF LastN
<1> DEFINE t == SubSeq(s, Len(h) + 1, Len(h) + Len(k))
<1>4. t \in Seq(S) /\ Len(t) = Len(k)
  BY <1>1
<1>5. \A i \in 1 .. Len(k) : t[i] = s[Len(h) + i]
  BY <1>1
<1> HIDE DEF t
<1>6. \A i \in 1 .. Len(t) : t[i] = k[i]
  BY <1>2, <1>4, <1>5
<1>7. t = k
  BY <1>4, <1>6, SameElements
<1> QED BY <1>3, <1>7 DEF s, t

(* The types of rows and output ids after _update_states. *)
LEMMA UpdatedType ==
  ASSUME Types, pc = "update", NEW r \in Req
  PROVE  /\ UpdatedOutIds(step, r) \in Seq(AnyToken)
         /\ UpdatedHost(step, r) \in Seq(AnyToken)
         /\ r \in Scheduled(step) =>
              Len(UpdatedHost(step, r)) = PromptLen + Len(UpdatedOutIds(step, r))
<1>s. step \in AnyStep
  BY DEF Types
<1> PICK n \in Nat : n = step.outs[r]
  BY <1>s, StepFields
<1> PICK k \in Seq(AnyToken) : k = step.known[r]
  BY <1>s, StepFields
<1> PICK u \in Seq(AnyToken) : u = outIds[r]
  BY DEF Types
<1> PICK w \in Seq(AnyToken) : w = host[r]
  BY DEF Types
<1> PICK g \in Nat : g = step.gen[r]
  BY <1>s, StepFields
<1>h. /\ History(r, g, PromptLen) \in Seq(AnyToken)
      /\ Len(History(r, g, PromptLen)) = PromptLen
  <2>1. PromptLen \in Nat
    BY AsyncBoundAssumption
  <2> QED BY <2>1, HistoryLemma
<1> PICK h \in Seq(AnyToken) : h = History(r, g, PromptLen) /\ Len(h) = PromptLen
  BY <1>h
<1>1. PromptLen \in Nat /\ Len(u) \in Nat /\ Len(w) \in Nat
  BY AsyncBoundAssumption
<1>2. h \o k \in Seq(AnyToken)
  OBVIOUS
<1>3. LastN(h \o k, n) \in Seq(AnyToken)
  BY <1>2, LastNLemma
<1>4. << >> \in Seq(AnyToken) /\ Len(<< >>) = 0
  OBVIOUS
<1>5. n < Len(u) => SubSeq(u, 1, n) \in Seq(AnyToken) /\ Len(SubSeq(u, 1, n)) = n
  BY <1>1
<1>6. UpdatedOutIds(step, r) \in
        {<< >>, LastN(h \o k, n), u} \cup (IF n < Len(u) THEN {SubSeq(u, 1, n)} ELSE {})
  BY DEF UpdatedOutIds
<1>7. UpdatedOutIds(step, r) \in Seq(AnyToken)
  BY <1>3, <1>4, <1>5, <1>6
<1> PICK v \in Seq(AnyToken) : v = UpdatedOutIds(step, r)
  BY <1>7
<1>8. h \o v \in Seq(AnyToken) /\ Len(h \o v) = PromptLen + Len(v)
  OBVIOUS
<1>9. CASE r \notin Scheduled(step)
  BY <1>4, <1>7, <1>9 DEF UpdatedHost
<1>10. CASE r \in Scheduled(step) /\ ~(r \in InBatch(batch) \ (step.finished \cup step.new))
  <2>1. UpdatedHost(step, r) = h \o v
    BY <1>10 DEF UpdatedHost
  <2> QED BY <1>7, <1>8, <2>1
<1>11. CASE r \in Scheduled(step) /\ r \in InBatch(batch) \ (step.finished \cup step.new)
  <2>1. Len(w) = PromptLen + Len(u)
    BY <1>11 DEF Types
  <2>2. CASE n < Len(u)
    <3>1. UpdatedHost(step, r) = SubSeq(w, 1, PromptLen + n)
      BY <1>1, <1>11, <2>2 DEF UpdatedHost
    <3>2. v = SubSeq(u, 1, n)
      BY <1>1, <1>11, <2>2 DEF UpdatedOutIds
    <3>e. PromptLen + n \in Nat /\ PromptLen + n <= Len(w)
      BY <1>1, <2>1, <2>2
    <3> PICK e \in Nat : e = PromptLen + n /\ e <= Len(w)
      BY <3>e
    <3>3. SubSeq(w, 1, e) \in Seq(AnyToken) /\ Len(SubSeq(w, 1, e)) = e
      BY PrefixLemma
    <3>4. Len(v) = n
      BY <1>5, <2>2, <3>2
    <3> QED BY <1>7, <3>1, <3>3, <3>4
  <2>3. CASE ~(n < Len(u))
    <3>1. UpdatedHost(step, r) = w
      BY <1>1, <1>11, <2>3 DEF UpdatedHost
    <3>2. v = u
      BY <1>1, <1>11, <2>3 DEF UpdatedOutIds
    <3> QED BY <1>7, <2>1, <3>1, <3>2
  <2> QED BY <2>2, <2>3
<1> QED BY <1>9, <1>10, <1>11

(* A row the step relies on is the request's history up to its tokens. *)
LEMMA UpdatedRow ==
  ASSUME IInv, pc = "update", NEW r \in Scheduled(step), Pos0(r) < 0
  PROVE  /\ UpdatedHost(step, r) = History(r, 1, PromptLen + step.outs[r])
         /\ Len(UpdatedOutIds(step, r)) = step.outs[r]
<1>1. /\ Types /\ StepsFit /\ Objects /\ RowsReady
  BY DEF IInv
<1>2. r \in Req
  BY DEF Scheduled
<1>3. Fits(Pos0(r), Stay0(r), step, r)
  BY <1>1 DEF StepsFit, Ahead1
<1> PICK n \in Nat : n = step.outs[r]
  BY <1>1, <1>2, StepFields DEF Types
<1> PICK k \in Seq(AnyToken) : k = step.known[r]
  BY <1>1, <1>2, StepFields DEF Types
<1> PICK u \in Seq(AnyToken) : u = outIds[r]
  BY <1>1, <1>2 DEF Types
<1>4. step.gen[r] = 1 /\ Genuine(k, r, 1) /\ Len(k) = n
  <2>1. k = SubSeq(History(r, 1, PromptLen + Len(k)), PromptLen + 1, PromptLen + Len(k))
    BY <1>3 DEF Fits, Known
  <2>2. Genuine(k, r, 1)
    BY <1>2, <2>1, GenuineIsTail
  <2>3. Pos0(r) \in Int
    BY <1>1, <1>2, PipelineType
  <2>4. Len(k) = n
    BY <1>3, <2>3 DEF Fits, DecodeFits, PrefillFits
  <2> QED BY <1>3, <2>2, <2>4 DEF Fits, Known
<1> PICK h \in Seq(AnyToken) : h = History(r, 1, PromptLen) /\ Len(h) = PromptLen
  BY <1>2, HistoryLemma, AsyncBoundAssumption
<1>5. h \o k = History(r, 1, PromptLen + n)
  BY <1>2, <1>4, PromptThenKnown
<1>6. h \o << >> = h /\ Len(<< >>) = 0
  OBVIOUS
<1>7. n = 0 => k = << >>
  BY <1>4
<1>8. CASE r \in step.new
  <2>1. n = 0
    BY <1>3, <1>8 DEF Fits, DecodeFits, PrefillFits
  <2>2. UpdatedOutIds(step, r) = << >>
    BY <1>8 DEF UpdatedOutIds, Scheduled
  <2>3. UpdatedHost(step, r) = h \o << >>
    BY <1>4, <1>8, <2>2 DEF UpdatedHost
  <2> QED BY <1>5, <1>6, <1>7, <2>1, <2>2, <2>3
<1>9. CASE r \notin step.new /\ r \in InBatch(batch) \ step.finished
  <2>1. r \in InBatch(last.reqs) /\ last \in AnyOutput /\ GenuineOutput(last)
    BY <1>1, <1>9 DEF RowsReady, Types, Objects
  <2>2. r \in last.partial
    BY <1>2, <2>1, SampledLemma DEF Pos0
  <2>3. Stay0(r) = Len(u) /\ Len(u) \in Nat
    BY <1>9, <2>2 DEF Stay0
  <2>4. Pos0(r) = Chunk
    BY <2>2 DEF Pos0, Sampled
  <2>5. n = Len(u)
    BY <1>3, <2>3, <2>4 DEF Fits, DecodeFits, PrefillFits
  <2>6. host[r] = History(r, 1, PromptLen + Len(u))
    BY <1>1, <1>9, <2>2 DEF RowsReady, Row
  <2>7. UpdatedHost(step, r) = host[r] /\ UpdatedOutIds(step, r) = u
    BY <1>9, <2>5 DEF UpdatedHost, UpdatedOutIds
  <2> QED BY <2>5, <2>6, <2>7
<1>10. CASE r \notin step.new /\ ~(r \in InBatch(batch) \ step.finished)
  <2>1. UpdatedOutIds(step, r) = k
    <3>1. CASE n > 0
      <4>1. UpdatedOutIds(step, r) = LastN(h \o k, n)
        BY <1>4, <1>10, <3>1 DEF UpdatedOutIds
      <4>2. LastN(h \o k, Len(k)) = k
        BY AsyncBoundAssumption, LastNIsSuffix
      <4> QED BY <1>4, <4>1, <4>2
    <3>2. CASE n = 0
      <4>1. CASE Len(u) > 0
        <5>1. UpdatedOutIds(step, r) = SubSeq(u, 1, 0)
          BY <1>10, <3>2, <4>1 DEF UpdatedOutIds
        <5>2. SubSeq(u, 1, 0) = << >>
          OBVIOUS
        <5> QED BY <1>7, <3>2, <5>1, <5>2
      <4>2. CASE ~(Len(u) > 0)
        <5>1. UpdatedOutIds(step, r) = u
          BY <1>10, <3>2, <4>2 DEF UpdatedOutIds
        <5>2. u = << >>
          BY <4>2
        <5> QED BY <1>7, <3>2, <5>1, <5>2
      <4> QED BY <4>1, <4>2
    <3> QED BY <3>1, <3>2
  <2>2. UpdatedHost(step, r) = h \o UpdatedOutIds(step, r)
    BY <1>4, <1>10 DEF UpdatedHost
  <2> QED BY <1>4, <1>5, <2>1, <2>2
<1> QED BY <1>8, <1>9, <1>10

(* What _update_states makes of the rows of the batch. *)
LEMMA UpdateFacts ==
  ASSUME IInv, UpdateStates, UNCHANGED schedulerVars
  PROVE  /\ Types' /\ Objects' /\ StreamGenuine' /\ SameRequests
         /\ pc = "update" /\ queue' = queue /\ step' = step
         /\ pc' = IF Scheduled(step) = {} THEN "idle" ELSE "prepare"
         /\ InBatch(batch') = Scheduled(step) /\ InBatch(batch)' = Scheduled(step)
         /\ Len(outputs') = Len(outputs) /\ last' = last
         /\ \A r \in Req : /\ Output(1, r)' = Output(1, r)
                           /\ Output(2, r)' = Output(2, r)
                           /\ Pos0(r)' = Pos0(r)
         /\ \A r \in Req : /\ host'[r] = UpdatedHost(step, r)
                           /\ outIds'[r] = UpdatedOutIds(step, r)
<1>1. Types /\ Objects /\ StreamGenuine
  BY DEF IInv
<1>2. /\ pc = "update" /\ pc' = IF Scheduled(step) = {} THEN "idle" ELSE "prepare"
      /\ UNCHANGED <<outputRank, step, changed, ids, last, outputs>>
      /\ UNCHANGED <<status, gen, computed, outs, known, finished, queue>>
      /\ host' = [r \in Req |-> UpdatedHost(step, r)]
      /\ outIds' = [r \in Req |-> UpdatedOutIds(step, r)]
  BY DEF UpdateStates, schedulerVars
<1>3. Scheduled(step) \subseteq Req
  BY DEF Scheduled
<1>4. batch' \in Seq(Req) /\ InBatch(batch') = Scheduled(step)
  <2>1. IsFiniteSet(Scheduled(step))
    BY <1>3, AsyncReqAssumption, FS_Subset
  <2>2. Cardinality(Scheduled(step)) \in Nat
    BY <2>1, FS_CardinalityType
  <2>3. PICK b \in [1 .. Cardinality(Scheduled(step)) -> Scheduled(step)] :
          InBatch(b) = Scheduled(step) /\ batch' = b
    BY DEF UpdateStates
  <2>4. b \in Seq(Scheduled(step))
    BY <2>2, <2>3
  <2>5. b \in Seq(Req)
    BY <1>3, <2>4
  <2> QED BY <2>3, <2>5
<1>5. InBatch(batch)' = Scheduled(step)
  BY <1>4 DEF InBatch
<1>6. Types'
  <2>1. pc' \in {"idle", "update", "prepare", "swap", "sample"}
    BY <1>2
  <2>2. ASSUME NEW r \in Req
        PROVE  /\ UpdatedOutIds(step, r) \in Seq(AnyToken)
               /\ UpdatedHost(step, r) \in Seq(AnyToken)
               /\ r \in Scheduled(step) =>
                    Len(UpdatedHost(step, r)) = PromptLen + Len(UpdatedOutIds(step, r))
    BY <1>1, <1>2, UpdatedType
  <2>3. host' \in [Req -> Seq(AnyToken)] /\ outIds' \in [Req -> Seq(AnyToken)]
    BY <1>2, <2>2
  <2>4. \A r \in InBatch(batch)' : Len(host'[r]) = PromptLen + Len(outIds'[r])
    BY <1>2, <1>3, <1>5, <2>2
  <2> QED BY <1>1, <1>2, <1>4, <2>1, <2>3, <2>4 DEF Types
<1>7. Objects' /\ StreamGenuine' /\ SameRequests
  BY <1>1, <1>2 DEF Objects, StreamGenuine, SameRequests
<1>8. \A r \in Req : /\ Output(1, r)' = Output(1, r) /\ Output(2, r)' = Output(2, r)
                     /\ Pos0(r)' = Pos0(r)
  BY <1>2 DEF Output, Pos0
<1> QED BY <1>2, <1>4, <1>5, <1>6, <1>7, <1>8

(* _update_states; an empty step ends there. *)
LEMMA UpdateStep ==
  ASSUME IInv, UpdateStates, UNCHANGED schedulerVars
  PROVE  IInv'
<1>1. /\ Types /\ Depth /\ Chain /\ StepsFit /\ Latest
      /\ Objects /\ RowsReady /\ StreamGenuine
  BY DEF IInv
<1>2. /\ Types' /\ Objects' /\ StreamGenuine' /\ SameRequests
      /\ pc = "update" /\ queue' = queue /\ step' = step
      /\ pc' = IF Scheduled(step) = {} THEN "idle" ELSE "prepare"
      /\ InBatch(batch') = Scheduled(step) /\ InBatch(batch)' = Scheduled(step)
      /\ Len(outputs') = Len(outputs) /\ last' = last
      /\ \A r \in Req : /\ Output(1, r)' = Output(1, r)
                        /\ Output(2, r)' = Output(2, r)
                        /\ Pos0(r)' = Pos0(r)
      /\ \A r \in Req : /\ host'[r] = UpdatedHost(step, r)
                        /\ outIds'[r] = UpdatedOutIds(step, r)
  BY UpdateFacts
<1>3. Len(queue) \in Nat /\ Len(outputs) \in Nat /\ (queue # << >> <=> Len(queue) >= 1)
  BY <1>1 DEF Types
<1>4. Len(queue) <= 1 /\ Len(queue) + 1 + Len(outputs) <= 2
  BY <1>1, <1>2, <1>3 DEF Depth, UnderWay
<1>5. CASE Scheduled(step) # {}
  <2>1. pc' = "prepare"
    BY <1>2, <1>5
  <2>2. SamePipeline
    BY <1>2, <2>1 DEF SamePipeline, Ahead1, Ahead2, Stay0
  <2>3. Chain' /\ StepsFit' /\ Latest'
    BY <1>1, <1>2, <2>2, SamePipelineKeeps
  <2>4. Depth'
    BY <1>2, <1>3, <1>4, <2>1 DEF Depth, UnderWay
  <2>5. RowsReady'
    <3>1. ASSUME NEW r \in Scheduled(step), Pos0(r)' < 0
          PROVE  Row(r, step.outs[r])'
      <4>1. r \in Req /\ Pos0(r) < 0
        BY <1>2, <3>1 DEF Scheduled
      <4>2. /\ UpdatedHost(step, r) = History(r, 1, PromptLen + step.outs[r])
            /\ Len(UpdatedOutIds(step, r)) = step.outs[r]
        BY <1>2, <4>1, UpdatedRow
      <4> QED BY <1>2, <4>1, <4>2 DEF Row
    <3> QED BY <1>2, <1>5, <2>1, <3>1 DEF RowsReady
  <2> QED BY <1>2, <2>3, <2>4, <2>5 DEF IInv
<1>6. CASE Scheduled(step) = {}
  <2>1. pc' = "idle"
    BY <1>2, <1>6
  <2>2. Ahead1 = step /\ Ahead1' = Ahead2 /\ Ahead2' = NoStep
    BY <1>2, <1>3, <1>4, <2>1 DEF Ahead1, Ahead2
  <2>3. Consumed
    <3>1. ASSUME NEW r \in Req
          PROVE  /\ Pos0(r)' = Pos1(r) /\ Stay0(r)' = Nothing
      BY <1>2, <1>6, <2>2 DEF Pos1, NextPos, Stay0
    <3> QED BY <1>2, <2>2, <3>1 DEF Consumed
  <2>4. StepsFit' /\ Latest'
    BY <1>1, <1>2, <2>3, ConsumedKeeps
  <2>5. Chain'
    <3>1. /\ status' = status /\ outs' = outs /\ known' = known
      BY <1>2 DEF SameRequests
    <3>2. ASSUME NEW r \in Req
          PROVE  /\ ChunkAlone(Output(1, r)', Output(2, r)',
                               Samples(Ahead1', r), Samples(Ahead2', r))
                 /\ status[r] # "idle" =>
                      InOrder(Output(1, r)', Output(2, r)',
                              Samples(Ahead1', r), Samples(Ahead2', r),
                              PromptLen + Len(known[r]), outs[r] - Len(known[r]))
      <4>1. Samples(step, r) = Nothing /\ Samples(NoStep, r) = Nothing
        BY <1>6, NoStepLemma DEF Samples
      <4> PICK a \in Int : a = Output(1, r)
        BY <1>1, PipelineType
      <4> PICK b \in Int : b = Output(2, r)
        BY <1>1, PipelineType
      <4> PICK c \in Int : c = Samples(Ahead2, r)
        BY <1>1, PipelineType
      <4> PICK base \in Int, total \in Int :
            base = PromptLen + Len(known[r]) /\ total = outs[r] - Len(known[r])
        <5>1. Len(known[r]) \in Nat /\ outs[r] \in Nat /\ PromptLen \in Nat
          BY <1>1, AsyncBoundAssumption DEF Types
        <5> QED BY <5>1
      <4>2. /\ ChunkAlone(a, b, Nothing, c)
            /\ status[r] # "idle" => InOrder(a, b, Nothing, c, base, total)
        BY <1>1, <2>2, <4>1 DEF Chain
      <4>3. ChunkAlone(a, b, c, Nothing)
        BY <4>2 DEF ChunkAlone, Nothing, Chunk
      <4>4. status[r] # "idle" => InOrder(a, b, c, Nothing, base, total)
        BY <4>2 DEF InOrder, Nothing, Bit
      <4> QED BY <1>2, <2>2, <4>1, <4>3, <4>4
    <3> QED BY <3>1, <3>2 DEF Chain
  <2>6. Depth'
    BY <1>2, <1>3, <1>4, <2>1 DEF Depth, UnderWay
  <2>7. RowsReady'
    BY <1>2, <1>6, <2>1 DEF RowsReady
  <2> QED BY <1>2, <2>4, <2>5, <2>6, <2>7 DEF IInv
<1> QED BY <1>5, <1>6

-----------------------------------------------------------------------------
(* The scheduler appends a step. *)

(* Where a scheduled step enters the pipeline. *)
LEMMA EnqueuePipeline ==
  ASSUME UniqueIdsTwoAhead, Types, Objects, UnderWay < QueueDepth, NEW so \in AnyStep,
         queue' = Append(queue, so), UNCHANGED runnerVars
  PROVE  /\ Depth' /\ queue' \in Seq(AnyStep)
         /\ \/ Ahead1 = NoStep /\ Ahead2 = NoStep /\ Ahead1' = so /\ Ahead2' = NoStep
            \/ Ahead2 = NoStep /\ Ahead1' = Ahead1 /\ Ahead2' = so
         /\ \A r \in Req :
              /\ Output(1, r)' = Output(1, r) /\ Output(2, r)' = Output(2, r)
              /\ Pos0(r)' = Pos0(r) /\ Stay0(r)' = Stay0(r)
              /\ Pos2(r) < 0 => /\ Output(1, r) < 0 /\ Output(2, r) < 0
                                /\ Samples(Ahead1, r) < 0 /\ Samples(Ahead2, r) < 0
<1>1. /\ UNCHANGED <<pc, step, batch, outIds, last, outputs>>
  BY DEF runnerVars
<1>2. /\ Len(queue) \in Nat /\ Len(outputs) \in Nat
      /\ (queue # << >> <=> Len(queue) >= 1)
      /\ (outputs # << >> <=> Len(outputs) >= 1)
  BY DEF Types
<1>3. /\ Append(queue, so) \in Seq(AnyStep) /\ Len(Append(queue, so)) = Len(queue) + 1
      /\ Append(queue, so)[Len(queue) + 1] = so
      /\ \A i \in 1 .. Len(queue) : Append(queue, so)[i] = queue[i]
  <2> PICK q \in Seq(AnyStep) : q = queue
    BY DEF Types
  <2>1. /\ Append(q, so) \in Seq(AnyStep) /\ Len(Append(q, so)) = Len(q) + 1
        /\ Append(q, so)[Len(q) + 1] = so
    OBVIOUS
  <2>2. \A i \in 1 .. Len(q) : Append(q, so)[i] = q[i]
    OBVIOUS
  <2> QED BY <2>1, <2>2
<1>4. QueueDepth \in Nat /\ QueueDepth <= 2
  BY QueueAssumption DEF UniqueIdsTwoAhead
<1>5. /\ pc = "idle" => Len(queue) + Len(outputs) <= 1
      /\ pc # "idle" => Len(queue) + Len(outputs) = 0
  <2>1. CASE pc = "idle"
    <3>1. Len(queue) + 0 + Len(outputs) < QueueDepth
      BY <2>1 DEF UnderWay
    <3> QED BY <1>2, <1>4, <2>1, <3>1
  <2>2. CASE pc # "idle"
    <3>1. Len(queue) + 1 + Len(outputs) < QueueDepth
      BY <2>2 DEF UnderWay
    <3> QED BY <1>2, <1>4, <2>2, <3>1
  <2> QED BY <2>1, <2>2
<1>6. Depth'
  BY <1>1, <1>2, <1>3, <1>5 DEF Depth, UnderWay
<1>7. queue' # << >> /\ Len(queue') = Len(queue) + 1
  BY <1>2, <1>3
<1>8. ASSUME pc # "idle"
      PROVE  \/ Ahead1 = NoStep /\ Ahead2 = NoStep /\ Ahead1' = so /\ Ahead2' = NoStep
             \/ Ahead2 = NoStep /\ Ahead1' = Ahead1 /\ Ahead2' = so
  <2>1. Len(queue) = 0 /\ queue = << >> /\ Len(outputs) = 0
    BY <1>2, <1>5, <1>8 DEF UnderWay
  <2>2. Ahead2 = NoStep /\ Ahead1' = Ahead1 /\ Ahead2' = so
    BY <1>1, <1>3, <1>7, <1>8, <2>1 DEF Ahead1, Ahead2
  <2> QED BY <2>1, <2>2
<1>9. ASSUME pc = "idle" /\ Len(queue) = 0
      PROVE  \/ Ahead1 = NoStep /\ Ahead2 = NoStep /\ Ahead1' = so /\ Ahead2' = NoStep
             \/ Ahead2 = NoStep /\ Ahead1' = Ahead1 /\ Ahead2' = so
  <2>1. queue = << >>
    BY <1>2, <1>9
  <2>2. Ahead1 = NoStep /\ Ahead2 = NoStep /\ Ahead1' = so /\ Ahead2' = NoStep
    BY <1>1, <1>3, <1>7, <1>9, <2>1 DEF Ahead1, Ahead2
  <2> QED BY <2>2
<1>10. ASSUME pc = "idle" /\ Len(queue) = 1
       PROVE  \/ Ahead1 = NoStep /\ Ahead2 = NoStep /\ Ahead1' = so /\ Ahead2' = NoStep
              \/ Ahead2 = NoStep /\ Ahead1' = Ahead1 /\ Ahead2' = so
  <2>1. /\ Len(outputs) = 0 /\ queue # << >> /\ Len(queue') = 2
        /\ queue'[1] = queue[1] /\ queue'[2] = so
    BY <1>2, <1>3, <1>5, <1>10 DEF UnderWay
  <2>2. Ahead2 = NoStep /\ Ahead1' = Ahead1 /\ Ahead2' = so
    BY <1>1, <1>7, <1>10, <2>1 DEF Ahead1, Ahead2
  <2> QED BY <2>1, <2>2
<1>11. pc # "idle" \/ (pc = "idle" /\ Len(queue) = 0) \/ (pc = "idle" /\ Len(queue) = 1)
  <2>1. CASE pc = "idle"
    <3>1. Len(queue) + Len(outputs) <= 1
      BY <1>5, <2>1
    <3> PICK n \in Nat : n = Len(queue)
      BY <1>2
    <3> PICK m \in Nat : m = Len(outputs)
      BY <1>2
    <3>2. n = 0 \/ n = 1
      <4>1. n + m <= 1
        BY <3>1
      <4> QED BY <4>1
    <3> QED BY <2>1, <3>2
  <2> QED BY <2>1
<1>12. Ahead2 = NoStep
  BY <1>8, <1>9, <1>10, <1>11
<1>13. Len(outputs) = 0 \/ (Len(outputs) = 1 /\ Ahead1 = NoStep)
  <2>1. CASE Len(outputs) = 0
    BY <2>1
  <2>2. CASE Len(outputs) # 0
    <3>0. pc = "idle"
      <4>1. Len(queue) + Len(outputs) # 0
        BY <1>2, <2>2
      <4> QED BY <1>5, <4>1
    <3>1. Len(outputs) = 1 /\ Len(queue) = 0 /\ pc = "idle"
      <4> PICK n \in Nat : n = Len(queue)
        BY <1>2
      <4> PICK m \in Nat : m = Len(outputs)
        BY <1>2
      <4>1. n + m <= 1 /\ m # 0
        BY <1>5, <2>2, <3>0
      <4>2. m = 1 /\ n = 0
        BY <4>1
      <4> QED BY <3>0, <4>2
    <3> QED BY <1>2, <3>1 DEF Ahead1
  <2> QED BY <2>1, <2>2
<1>14. ASSUME NEW r \in Req, Pos2(r) < 0
       PROVE  /\ Output(1, r) < 0 /\ Output(2, r) < 0
              /\ Samples(Ahead1, r) < 0 /\ Samples(Ahead2, r) < 0
  <2>1. Scheduled(NoStep) = {} /\ Samples(NoStep, r) = Nothing
    BY NoStepLemma
  <2>2. Pos1(r) < 0
    BY <1>12, <1>14, <2>1 DEF Pos2, NextPos
  <2>3. Samples(Ahead1, r) < 0
    BY <2>2 DEF Pos1, NextPos, Samples, Nothing
  <2>4. CASE Len(outputs) = 0
    BY <1>12, <2>1, <2>3, <2>4 DEF Output, Nothing
  <2>5. CASE Len(outputs) = 1 /\ Ahead1 = NoStep
    <3>1. outputs[1] = last
      BY <1>2, <2>5 DEF Objects
    <3>2. Pos0(r) < 0
      BY <2>1, <2>2, <2>5 DEF Pos1, NextPos
    <3>3. Output(1, r) < 0 /\ Output(2, r) < 0
      BY <2>5, <3>1, <3>2 DEF Output, Pos0, Nothing
    <3> QED BY <1>12, <2>1, <2>3, <3>3 DEF Nothing
  <2> QED BY <1>13, <2>4, <2>5
<1>15. \A r \in Req : /\ Output(1, r)' = Output(1, r) /\ Output(2, r)' = Output(2, r)
                      /\ Pos0(r)' = Pos0(r) /\ Stay0(r)' = Stay0(r)
  BY <1>1 DEF Output, Pos0, Stay0, InBatch
<1> QED BY <1>3, <1>6, <1>8, <1>9, <1>10, <1>11, <1>14, <1>15

(* The token of the step appended is the next one. *)
LEMMA NextInOrder ==
  ASSUME NEW a \in Int, NEW b \in Int, NEW c \in Int, NEW e \in Int,
         NEW p \in Nat, NEW len \in Nat, NEW o \in Nat,
         e >= 0 => e = p + o, e = Chunk => o = len
  PROVE  /\ /\ ChunkAlone(a, b, c, Nothing)
            /\ InOrder(a, b, c, Nothing, p + len, o - len)
            => /\ ChunkAlone(a, b, c, e)
               /\ InOrder(a, b, c, e, p + len, (o + Bit(e)) - len)
         /\ /\ ChunkAlone(a, b, Nothing, Nothing)
            /\ InOrder(a, b, Nothing, Nothing, p + len, o - len)
            => /\ ChunkAlone(a, b, e, Nothing)
               /\ InOrder(a, b, e, Nothing, p + len, (o + Bit(e)) - len)
BY DEF ChunkAlone, InOrder, Bit, Nothing, Chunk

(* A scheduled step that fits keeps the invariant but for the scheduler's  *)
(* counts.                                                                 *)
LEMMA EnqueueKeeps ==
  ASSUME UniqueIdsTwoAhead, IInv, UnderWay < QueueDepth, NEW so \in AnyStep,
         queue' = Append(queue, so), UNCHANGED <<runnerVars, gen, known>>,
         \A r \in Scheduled(so) :
           /\ status[r] # "idle" /\ Fits(Pos2(r), Stay2(r), so, r)
           /\ Samples(so, r) >= 0 => End(so, r) = PromptLen + outs[r]
           /\ Samples(so, r) = Chunk => outs[r] = Len(known[r]),
         \A r \in Req : /\ outs'[r] = outs[r] + Bit(Samples(so, r))
                        /\ status'[r] = "idle" <=> status[r] = "idle"
  PROVE  /\ Depth' /\ queue' \in Seq(AnyStep) /\ Chain' /\ StepsFit'
         /\ Objects' /\ RowsReady' /\ StreamGenuine'
         /\ \A r \in Req :
              /\ Pos2(r)' = NextPos(Pos2(r), so, r)
              /\ Stay2(r)' = NextStay(Stay2(r), so, r)
              /\ Output(1, r)' = Output(1, r) /\ Output(2, r)' = Output(2, r)
              /\ Samples(Ahead1, r) < 0 /\ Samples(Ahead2, r) < 0 /\ r \notin Scheduled(so)
                   => Samples(Ahead1', r) < 0 /\ Samples(Ahead2', r) < 0
<1>1. /\ Types /\ Depth /\ Chain /\ StepsFit /\ Latest
      /\ Objects /\ RowsReady /\ StreamGenuine
  BY DEF IInv
<1>2. UNCHANGED runnerVars /\ gen' = gen /\ known' = known
  OBVIOUS
<1>3. /\ Depth' /\ queue' \in Seq(AnyStep)
      /\ \/ Ahead1 = NoStep /\ Ahead2 = NoStep /\ Ahead1' = so /\ Ahead2' = NoStep
         \/ Ahead2 = NoStep /\ Ahead1' = Ahead1 /\ Ahead2' = so
      /\ \A r \in Req :
           /\ Output(1, r)' = Output(1, r) /\ Output(2, r)' = Output(2, r)
           /\ Pos0(r)' = Pos0(r) /\ Stay0(r)' = Stay0(r)
           /\ Pos2(r) < 0 => /\ Output(1, r) < 0 /\ Output(2, r) < 0
                             /\ Samples(Ahead1, r) < 0 /\ Samples(Ahead2, r) < 0
  BY <1>1, <1>2, EnqueuePipeline
<1>4. Scheduled(NoStep) = {} /\ \A r \in Req : Samples(NoStep, r) = Nothing
  BY NoStepLemma
<1>5. Objects' /\ RowsReady' /\ StreamGenuine'
  <2>1. Objects'
    BY <1>1, <1>2 DEF runnerVars, Objects
  <2>2. RowsReady'
    <3>1. \A r : Pos0(r)' = Pos0(r) /\ \A n : Row(r, n)' <=> Row(r, n)
      BY <1>2 DEF runnerVars, Pos0, Row
    <3>2. /\ pc' = pc /\ step' = step /\ batch' = batch
          /\ outIds' = outIds /\ ids' = ids /\ last' = last
      BY <1>2 DEF runnerVars
    <3>3. RowsReady
      BY <1>1
    <3> QED BY <3>1, <3>2, <3>3 DEF RowsReady, InBatch
  <2>3. StreamGenuine'
    BY <1>1, <1>2 DEF StreamGenuine
  <2> QED BY <2>1, <2>2, <2>3
<1>6. ASSUME NEW r \in Req
      PROVE  \/ /\ Samples(Ahead1, r) = Nothing /\ Samples(Ahead2, r) = Nothing
                /\ Samples(Ahead1', r) = Samples(so, r)
                /\ Samples(Ahead2', r) = Nothing
             \/ /\ Samples(Ahead2, r) = Nothing
                /\ Samples(Ahead1', r) = Samples(Ahead1, r)
                /\ Samples(Ahead2', r) = Samples(so, r)
  BY <1>3, <1>4
<1>7. ASSUME NEW r \in Req
      PROVE  /\ Pos2(r)' = NextPos(Pos2(r), so, r)
             /\ Stay2(r)' = NextStay(Stay2(r), so, r)
             /\ Ahead1 = NoStep /\ Ahead2 = NoStep =>
                  Pos2(r) = Pos0(r) /\ Stay2(r) = Stay0(r)
             /\ Ahead1' = Ahead1 => Pos1(r)' = Pos1(r) /\ Stay1(r)' = Stay1(r)
             /\ Ahead2 = NoStep => Pos2(r) = Pos1(r) /\ Stay2(r) = Stay1(r)
  <2>1. Pos0(r)' = Pos0(r) /\ Stay0(r)' = Stay0(r)
    BY <1>3
  <2>2. \A x : NextPos(x, NoStep, r) = x /\ NextStay(x, NoStep, r) = x
    BY <1>4 DEF NextPos, NextStay
  <2>3. CASE Ahead1 = NoStep /\ Ahead2 = NoStep /\ Ahead1' = so /\ Ahead2' = NoStep
    <3>1. Pos1(r) = Pos0(r) /\ Pos2(r) = Pos0(r) /\ Stay1(r) = Stay0(r) /\ Stay2(r) = Stay0(r)
      BY <2>2, <2>3 DEF Pos1, Pos2, Stay1, Stay2
    <3>2. /\ Pos1(r)' = NextPos(Pos0(r), so, r) /\ Stay1(r)' = NextStay(Stay0(r), so, r)
      BY <2>1, <2>3 DEF Pos1, Stay1
    <3>3. Pos2(r)' = Pos1(r)' /\ Stay2(r)' = Stay1(r)'
      BY <2>2, <2>3 DEF Pos2, Stay2
    <3>4. Ahead1' = Ahead1 => Pos1(r)' = Pos1(r) /\ Stay1(r)' = Stay1(r)
      BY <2>1 DEF Pos1, Stay1
    <3> QED BY <3>1, <3>2, <3>3, <3>4
  <2>4. CASE Ahead2 = NoStep /\ Ahead1' = Ahead1 /\ Ahead2' = so
    <3>1. Pos1(r)' = Pos1(r) /\ Stay1(r)' = Stay1(r)
      BY <2>1, <2>4 DEF Pos1, Stay1
    <3>2. Pos2(r) = Pos1(r) /\ Stay2(r) = Stay1(r)
      BY <2>2, <2>4 DEF Pos2, Stay2
    <3>3. Pos2(r)' = NextPos(Pos1(r), so, r) /\ Stay2(r)' = NextStay(Stay1(r), so, r)
      BY <2>4, <3>1 DEF Pos2, Stay2
    <3>4. Ahead1 = NoStep => Pos1(r) = Pos0(r) /\ Stay1(r) = Stay0(r)
      BY <2>2 DEF Pos1, Stay1
    <3> QED BY <3>1, <3>2, <3>3, <3>4
  <2> QED BY <1>3, <2>3, <2>4
<1>8. StepsFit'
  <2>1. \A r \in Scheduled(so) : r \in Req /\ Fits(Pos2(r), Stay2(r), so, r)
    BY DEF Scheduled
  <2>2. CASE Ahead1 = NoStep /\ Ahead2 = NoStep /\ Ahead1' = so /\ Ahead2' = NoStep
    <3>1. ASSUME NEW r \in Scheduled(Ahead1')
          PROVE  Fits(Pos0(r)', Stay0(r)', Ahead1', r)
      BY <1>3, <1>7, <2>1, <2>2, <3>1
    <3> QED BY <1>4, <2>2, <3>1 DEF StepsFit
  <2>3. CASE Ahead2 = NoStep /\ Ahead1' = Ahead1 /\ Ahead2' = so
    <3>1. ASSUME NEW r \in Scheduled(Ahead1')
          PROVE  Fits(Pos0(r)', Stay0(r)', Ahead1', r)
      <4>1. r \in Req /\ Fits(Pos0(r), Stay0(r), Ahead1, r)
        BY <1>1, <2>3, <3>1 DEF StepsFit, Scheduled
      <4> QED BY <1>3, <2>3, <4>1
    <3>2. ASSUME NEW r \in Scheduled(Ahead2')
          PROVE  Fits(Pos1(r)', Stay1(r)', Ahead2', r)
      <4>1. r \in Req /\ Fits(Pos2(r), Stay2(r), so, r)
        BY <2>1, <2>3, <3>2
      <4> QED BY <1>7, <2>3, <4>1
    <3> QED BY <3>1, <3>2 DEF StepsFit
  <2> QED BY <1>3, <2>2, <2>3
<1>9. Chain'
  <2>1. ASSUME NEW r \in Req
        PROVE  /\ ChunkAlone(Output(1, r)', Output(2, r)',
                             Samples(Ahead1', r), Samples(Ahead2', r))
               /\ status'[r] # "idle" =>
                    InOrder(Output(1, r)', Output(2, r)',
                            Samples(Ahead1', r), Samples(Ahead2', r),
                            PromptLen + Len(known'[r]), outs'[r] - Len(known'[r]))
    <3> PICK a \in Int : a = Output(1, r)
      BY <1>1, PipelineType
    <3> PICK b \in Int : b = Output(2, r)
      BY <1>1, PipelineType
    <3> PICK c \in Int : c = Samples(Ahead1, r)
      BY <1>1, PipelineType
    <3> PICK e \in Int : e = Samples(so, r)
      BY SamplesLemma
    <3> PICK len \in Nat : len = Len(known[r])
      BY <1>1 DEF Types
    <3> PICK o \in Nat : o = outs[r]
      BY <1>1 DEF Types
    <3>1. PromptLen \in Nat
      BY AsyncBoundAssumption
    <3>2. /\ e >= 0 => e = PromptLen + o
          /\ e = Chunk => o = len
          /\ e # Nothing => status[r] # "idle"
      <4>1. e = Nothing <=> r \notin Scheduled(so)
        BY SamplesLemma
      <4>2. e >= 0 => e = End(so, r) /\ r \in Scheduled(so)
        BY SamplesLemma
      <4> QED BY <4>1, <4>2 DEF Nothing, Chunk
    <3>3. outs'[r] = o + Bit(e) /\ (status'[r] = "idle" <=> status[r] = "idle")
      OBVIOUS
    <3>4. CASE /\ c = Nothing /\ Samples(Ahead2, r) = Nothing
               /\ Samples(Ahead1', r) = e /\ Samples(Ahead2', r) = Nothing
      <4>1. /\ ChunkAlone(a, b, Nothing, Nothing)
            /\ status[r] # "idle" =>
                 InOrder(a, b, Nothing, Nothing, PromptLen + len, o - len)
        BY <1>1, <3>4 DEF Chain
      <4>2. CASE e = Nothing
        <5>1. Bit(e) = 0 /\ o + 0 = o
          BY <4>2 DEF Bit, Nothing
        <5> QED BY <1>2, <1>3, <3>3, <3>4, <4>1, <4>2, <5>1
      <4>3. CASE e # Nothing
        <5>1. /\ ChunkAlone(a, b, e, Nothing)
              /\ InOrder(a, b, e, Nothing, PromptLen + len, (o + Bit(e)) - len)
          BY <3>1, <3>2, <4>1, <4>3, NextInOrder
        <5> QED BY <1>2, <1>3, <3>3, <3>4, <5>1
      <4> QED BY <4>2, <4>3
    <3>5. CASE /\ Samples(Ahead2, r) = Nothing
               /\ Samples(Ahead1', r) = c /\ Samples(Ahead2', r) = e
      <4>1. /\ ChunkAlone(a, b, c, Nothing)
            /\ status[r] # "idle" =>
                 InOrder(a, b, c, Nothing, PromptLen + len, o - len)
        BY <1>1, <3>5 DEF Chain
      <4>2. CASE e = Nothing
        <5>1. Bit(e) = 0 /\ o + 0 = o
          BY <4>2 DEF Bit, Nothing
        <5> QED BY <1>2, <1>3, <3>3, <3>5, <4>1, <4>2, <5>1
      <4>3. CASE e # Nothing
        <5>1. /\ ChunkAlone(a, b, c, e)
              /\ InOrder(a, b, c, e, PromptLen + len, (o + Bit(e)) - len)
          BY <3>1, <3>2, <4>1, <4>3, NextInOrder
        <5> QED BY <1>2, <1>3, <3>3, <3>5, <5>1
      <4> QED BY <4>2, <4>3
    <3> QED BY <1>6, <3>4, <3>5
  <2> QED BY <2>1 DEF Chain
<1>10. ASSUME NEW r \in Req, Samples(Ahead1, r) < 0, Samples(Ahead2, r) < 0,
              r \notin Scheduled(so)
       PROVE  Samples(Ahead1', r) < 0 /\ Samples(Ahead2', r) < 0
  BY <1>6, <1>10 DEF Samples, Nothing
<1> QED BY <1>3, <1>5, <1>7, <1>8, <1>9, <1>10

(* A prefill, or a chunk of one, starts from a fully received state. *)
LEMMA SchedulePrefillStep ==
  ASSUME UniqueIdsTwoAhead, IInv, NEW r \in Req, NEW n \in 1 .. MaxPos, SchedulePrefill(r, n)
  PROVE  IInv'
<1>1. /\ Types /\ Depth /\ Chain /\ StepsFit /\ Latest
      /\ Objects /\ RowsReady /\ StreamGenuine
  BY DEF IInv
<1> PICK so : so = [finished |-> finished,
                    new |-> IF status[r] = "waiting" THEN {r} ELSE {}, prefill |-> TRUE,
                    toks |-> [q \in Req |-> IF q = r THEN n ELSE 0],
                    computed |-> computed, outs |-> outs, known |-> known, gen |-> gen]
  OBVIOUS
<1> PICK c \in Nat : c = computed[r]
  BY <1>1 DEF Types
<1> PICK o \in Nat : o = outs[r]
  BY <1>1 DEF Types
<1> PICK k \in Seq(AnyToken) : k = known[r]
  BY <1>1 DEF Types
<1>2. /\ UnderWay < QueueDepth /\ queue' = Append(queue, so) /\ finished' = {}
      /\ outs' = [outs EXCEPT ![r] = IF n = PromptLen + Len(k) - c THEN o + 1 ELSE o]
      /\ status' = [status EXCEPT ![r] = "running"]
      /\ computed' = [computed EXCEPT ![r] = c + n]
      /\ UNCHANGED <<runnerVars, gen, known>>
  BY DEF SchedulePrefill, Enqueue
<1>3. /\ status[r] # "idle" /\ (status[r] \in {"waiting", "preempted"} \/ c < PromptLen)
      /\ o = Len(k) /\ o < MaxOut /\ n \in 1 .. (PromptLen + Len(k) - c)
      /\ n # PromptLen + Len(k) - c => c + n < PromptLen
  BY DEF SchedulePrefill
<1>4. PromptLen \in Nat /\ PromptLen >= 1 /\ n \in Nat /\ Len(k) \in Nat /\ MaxOut \in Nat
  BY <1>3, AsyncBoundAssumption
<1>5. gen \in [Req -> Nat] /\ MaxGen = 1
  <2>1. MaxGen = 1
    BY DEF UniqueIdsTwoAhead
  <2>2. gen \in [Req -> 0 .. 1] /\ 0 .. 1 \subseteq Nat
    BY <1>1, <2>1 DEF Types
  <2> QED BY <2>1, <2>2
<1>6. so \in AnyStep
  <2>1. [q \in Req |-> IF q = r THEN n ELSE 0] \in [Req -> Nat]
    BY <1>4
  <2>2. /\ finished \in SUBSET Req /\ computed \in [Req -> Nat] /\ outs \in [Req -> Nat]
        /\ known \in [Req -> Seq(AnyToken)]
    BY <1>1 DEF Types
  <2>3. (IF status[r] = "waiting" THEN {r} ELSE {}) \in SUBSET Req
    OBVIOUS
  <2> QED BY <1>5, <2>1, <2>2, <2>3 DEF AnyStep
<1>7. /\ so.prefill = TRUE /\ so.toks[r] = n /\ so.computed[r] = c /\ so.outs[r] = o
      /\ so.known[r] = k /\ so.gen[r] = gen[r]
      /\ (r \in so.new <=> status[r] = "waiting")
      /\ Scheduled(so) = {r} /\ End(so, r) = c + n
  <2>1. Scheduled(so) = {r}
    BY <1>4 DEF Scheduled
  <2> QED BY <2>1 DEF End
<1>8. /\ c + n <= PromptLen + o /\ c < PromptLen
      /\ c + n >= PromptLen <=> n = PromptLen + Len(k) - c
      /\ c + n >= PromptLen => c + n = PromptLen + o
  <2>1. c < PromptLen
    <3>1. status[r] \in {"waiting", "preempted"} => c = 0
      BY <1>1 DEF Latest
    <3> QED BY <1>3, <1>4, <3>1
  <2>2. n = PromptLen + o - c \/ c + n < PromptLen
    BY <1>3
  <2>3. n <= PromptLen + o - c
    BY <1>3
  <2>4. c + n <= PromptLen + o
    BY <1>4, <2>3
  <2>5. n = PromptLen + o - c => c + n = PromptLen + o
    BY <1>4
  <2> QED BY <1>3, <1>4, <2>1, <2>2, <2>4, <2>5
<1>9. /\ gen[r] = 1
      /\ Pos2(r) >= 0 => c = Pos2(r) /\ c >= PromptLen
      /\ Stay2(r) >= 0 => o = Stay2(r)
      /\ status[r] = "waiting" => o = 0
      /\ Pos2(r) \in Int
  BY <1>1, <1>3, PipelineType DEF Latest
<1>10. Pos2(r) < 0
  BY <1>4, <1>8, <1>9
<1>11. Fits(Pos2(r), Stay2(r), so, r)
  <2>1. k = SubSeq(History(r, 1, PromptLen + Len(k)), PromptLen + 1, PromptLen + Len(k))
    BY <1>1, <1>9 DEF StreamGenuine
  <2>2. Known(so, r)
    BY <1>7, <1>9, <2>1 DEF Known
  <2>3. PrefillFits(Pos2(r), Stay2(r), so, r)
    BY <1>3, <1>7, <1>8, <1>9, <1>10 DEF PrefillFits
  <2> QED BY <2>2, <2>3 DEF Fits
<1>12. /\ Samples(so, r) >= 0 <=> c + n >= PromptLen
       /\ Samples(so, r) = Chunk <=> c + n < PromptLen
       /\ Samples(so, r) >= 0 => Samples(so, r) = c + n
       /\ \A q \in Req : q # r => Samples(so, q) = Nothing
  BY <1>6, <1>7, SamplesLemma
<1>13. ASSUME NEW q \in Req
       PROVE  /\ outs'[q] = outs[q] + Bit(Samples(so, q))
              /\ status'[q] = "idle" <=> status[q] = "idle"
  <2>1. outs[q] \in Nat /\ outs[q] + 0 = outs[q]
    BY <1>1 DEF Types
  <2>2. CASE q = r
    <3>1. outs'[r] = IF c + n >= PromptLen THEN o + 1 ELSE o
      BY <1>1, <1>2, <1>8 DEF Types
    <3>2. Bit(Samples(so, r)) = IF c + n >= PromptLen THEN 1 ELSE 0
      BY <1>12 DEF Bit
    <3>3. status'[r] = "running"
      BY <1>1, <1>2 DEF Types
    <3> QED BY <1>3, <2>1, <2>2, <3>1, <3>2, <3>3
  <2>3. CASE q # r
    <3>1. outs'[q] = outs[q] /\ status'[q] = status[q]
      BY <1>1, <1>2, <2>3 DEF Types
    <3>2. Bit(Samples(so, q)) = 0
      BY <1>12, <2>3 DEF Bit, Nothing
    <3> QED BY <2>1, <3>1, <3>2
  <2> QED BY <2>2, <2>3
<1>14. /\ Depth' /\ queue' \in Seq(AnyStep) /\ Chain' /\ StepsFit'
       /\ Objects' /\ RowsReady' /\ StreamGenuine'
       /\ \A q \in Req :
            /\ Pos2(q)' = NextPos(Pos2(q), so, q)
            /\ Stay2(q)' = NextStay(Stay2(q), so, q)
            /\ Output(1, q)' = Output(1, q) /\ Output(2, q)' = Output(2, q)
            /\ Samples(Ahead1, q) < 0 /\ Samples(Ahead2, q) < 0 /\ q \notin Scheduled(so)
                 => Samples(Ahead1', q) < 0 /\ Samples(Ahead2', q) < 0
  <2>1. \A q \in Scheduled(so) :
          /\ status[q] # "idle" /\ Fits(Pos2(q), Stay2(q), so, q)
          /\ Samples(so, q) >= 0 => End(so, q) = PromptLen + outs[q]
          /\ Samples(so, q) = Chunk => outs[q] = Len(known[q])
    BY <1>3, <1>7, <1>8, <1>11, <1>12
  <2> QED BY <1>2, <1>6, <1>13, <2>1, EnqueueKeeps
<1>15. Types'
  <2>1. status' \in [Req -> Statuses]
    BY <1>1, <1>2 DEF Types, Statuses
  <2>2. computed' \in [Req -> Nat]
    <3>1. c + n \in Nat
      BY <1>4
    <3> QED BY <1>1, <1>2, <3>1 DEF Types
  <2>3. outs' \in [Req -> Nat]
    <3>1. o + 1 \in Nat
      OBVIOUS
    <3> QED BY <1>1, <1>2, <3>1 DEF Types
  <2>4. UNCHANGED runnerVars /\ gen' = gen /\ known' = known /\ finished' = {}
    BY <1>2
  <2>5. Types /\ queue' \in Seq(AnyStep)
    BY <1>1, <1>14
  <2> QED BY <2>1, <2>2, <2>3, <2>4, <2>5 DEF Types, runnerVars, InBatch
<1>16. Latest'
  <2>1. ASSUME NEW q \in Req, q # r
        PROVE  /\ Pos2(q)' = Nothing /\ Stay2(q)' = Nothing
               /\ status'[q] = status[q] /\ outs'[q] = outs[q] /\ computed'[q] = computed[q]
               /\ Output(1, q)' = Output(1, q) /\ Output(2, q)' = Output(2, q)
               /\ Samples(Ahead1, q) < 0 /\ Samples(Ahead2, q) < 0
                    => Samples(Ahead1', q) < 0 /\ Samples(Ahead2', q) < 0
    <3>1. status'[q] = status[q] /\ outs'[q] = outs[q] /\ computed'[q] = computed[q]
      BY <1>1, <1>2, <2>1 DEF Types
    <3>2. Pos2(q)' = Nothing /\ Stay2(q)' = Nothing
      <4>1. Samples(so, q) = Nothing /\ Nothing # Chunk /\ Scheduled(so) # {}
        <5>1. Nothing # Chunk
          BY DEF Nothing, Chunk
        <5> QED BY <1>7, <1>12, <2>1, <5>1
      <4>2. Pos2(q)' = Nothing
        BY <1>14, <4>1 DEF NextPos
      <4>3. Stay2(q)' = Nothing
        BY <1>14, <4>1 DEF NextStay
      <4> QED BY <4>2, <4>3
    <3> QED BY <1>7, <1>14, <2>1, <3>1, <3>2
  <2>2. /\ Pos2(r)' = Samples(so, r)
        /\ Stay2(r)' = IF Samples(so, r) = Chunk THEN o ELSE Nothing
        /\ status'[r] = "running" /\ computed'[r] = c + n
        /\ outs'[r] = IF c + n >= PromptLen THEN o + 1 ELSE o
    <3>1. Pos2(r)' = Samples(so, r)
      BY <1>7, <1>14 DEF NextPos
    <3>2. Stay2(r)' = IF Samples(so, r) = Chunk THEN o ELSE Nothing
      BY <1>7, <1>14 DEF NextStay
    <3>3. status'[r] = "running" /\ computed'[r] = c + n
      BY <1>1, <1>2 DEF Types
    <3>4. outs'[r] = IF c + n >= PromptLen THEN o + 1 ELSE o
      BY <1>1, <1>2, <1>8 DEF Types
    <3> QED BY <3>1, <3>2, <3>3, <3>4
  <2>3. gen' = gen /\ known' = known
    BY <1>2
  <2>4. ASSUME NEW q \in Req
        PROVE  /\ status'[q] # "idle" =>
                    /\ gen'[q] = 1
                    /\ Pos2(q)' >= 0 => computed'[q] = Pos2(q)'
                    /\ computed'[q] >= PromptLen =>
                         computed'[q] = PromptLen + outs'[q] - 1 /\ outs'[q] >= 1
                    /\ Pos2(q)' = Chunk => computed'[q] < PromptLen
                    /\ Stay2(q)' >= 0 => outs'[q] = Stay2(q)'
               /\ status'[q] # "running" => computed'[q] = 0
               /\ Pos2(q)' >= 0 /\ status'[q] # "idle" => status'[q] = "running"
               /\ status'[q] = "waiting" => known'[q] = << >> /\ outs'[q] = 0
               /\ status'[q] = "idle" => outs'[q] = 0
               /\ gen'[q] = 0 => /\ status'[q] = "idle" /\ known'[q] = << >>
                                 /\ Pos2(q)' = Nothing /\ Stay2(q)' = Nothing
                                 /\ Output(1, q)' < 0 /\ Output(2, q)' < 0
                                 /\ Samples(Ahead1', q) < 0 /\ Samples(Ahead2', q) < 0
    <3>1. CASE q # r
      BY <1>1, <2>1, <2>3, <3>1 DEF Latest, Nothing, Chunk
    <3>2. CASE q = r
      <4>1. CASE c + n >= PromptLen
        <5>1. Samples(so, r) = c + n /\ Samples(so, r) # Chunk /\ Samples(so, r) >= 0
          BY <1>4, <1>12, <4>1
        <5>2. /\ Pos2(r)' = c + n /\ Stay2(r)' = Nothing /\ outs'[r] = o + 1
              /\ status'[r] = "running" /\ computed'[r] = c + n
          BY <2>2, <4>1, <5>1
        <5>3. c + n = PromptLen + (o + 1) - 1 /\ o + 1 >= 1 /\ ~(Nothing >= 0)
              /\ c + n # Chunk
          BY <1>4, <1>8, <4>1 DEF Nothing, Chunk
        <5> QED BY <1>9, <2>3, <3>2, <5>2, <5>3
      <4>2. CASE ~(c + n >= PromptLen)
        <5>1. Samples(so, r) = Chunk /\ c + n < PromptLen
          BY <1>4, <1>12, <4>2
        <5>2. /\ Pos2(r)' = Chunk /\ Stay2(r)' = o /\ outs'[r] = o
              /\ status'[r] = "running" /\ computed'[r] = c + n
          BY <2>2, <4>2, <5>1
        <5>3. ~(Chunk >= 0)
          BY DEF Chunk
        <5> QED BY <1>9, <2>3, <3>2, <4>2, <5>1, <5>2, <5>3
      <4> QED BY <4>1, <4>2
    <3> QED BY <3>1, <3>2
  <2> QED BY <2>4 DEF Latest
<1> QED BY <1>14, <1>15, <1>16 DEF IInv

(* A decode follows the step that samples its input; others are preempted. *)
LEMMA ScheduleDecodeStep ==
  ASSUME UniqueIdsTwoAhead, IInv, NEW P \in SUBSET Req, ScheduleDecode(P)
  PROVE  IInv'
<1>1. /\ Types /\ Depth /\ Chain /\ StepsFit /\ Latest
      /\ Objects /\ RowsReady /\ StreamGenuine
  BY DEF IInv
<1> PICK S : S = {r \in Req \ P : /\ status[r] = "running" /\ computed[r] >= PromptLen
                                  /\ outs[r] < MaxOut}
  OBVIOUS
<1> PICK one : one = [r \in Req |-> IF r \in S THEN 1 ELSE 0]
  OBVIOUS
<1> PICK so : so = [finished |-> finished, new |-> {}, prefill |-> FALSE, toks |-> one,
                    computed |-> computed, outs |-> outs, known |-> known, gen |-> gen]
  OBVIOUS
<1>2. /\ UnderWay < QueueDepth /\ queue' = Append(queue, so) /\ finished' = {}
      /\ outs' = [r \in Req |-> outs[r] + one[r]]
      /\ status' = [r \in Req |-> IF r \in P THEN "preempted" ELSE status[r]]
      /\ computed' = [r \in Req |-> IF r \in P THEN 0 ELSE computed[r] + one[r]]
      /\ UNCHANGED <<runnerVars, gen, known>>
      /\ \A r \in P : status[r] = "running"
      /\ P # {} => S # {}
  BY DEF ScheduleDecode, Enqueue
<1>3. gen \in [Req -> Nat]
  <2>1. gen \in [Req -> 0 .. 1] /\ 0 .. 1 \subseteq Nat
    BY <1>1 DEF Types, UniqueIdsTwoAhead
  <2> QED BY <2>1
<1>4. one \in [Req -> Nat] /\ \A r \in Req : one[r] = IF r \in S THEN 1 ELSE 0
  OBVIOUS
<1>5. so \in AnyStep
  <2>1. /\ finished \in SUBSET Req /\ computed \in [Req -> Nat] /\ outs \in [Req -> Nat]
        /\ known \in [Req -> Seq(AnyToken)]
    BY <1>1 DEF Types
  <2> QED BY <1>3, <1>4, <2>1 DEF AnyStep
<1>6. /\ so.prefill = FALSE /\ so.toks = one /\ so.computed = computed /\ so.outs = outs
      /\ so.known = known /\ so.gen = gen /\ so.new = {}
  OBVIOUS
<1>7. Scheduled(so) = S /\ S \subseteq Req
  BY <1>4, <1>6 DEF Scheduled
<1>8. PromptLen \in Nat /\ PromptLen >= 1 /\ MaxOut \in Nat
  BY AsyncBoundAssumption
<1>9. ASSUME NEW r \in Req
      PROVE  /\ computed[r] \in Nat /\ outs[r] \in Nat /\ Len(known[r]) \in Nat
             /\ Pos2(r) \in Int
  BY <1>1, PipelineType DEF Types
<1>10. /\ \A r \in Req :
            Pos2(r) < 0 => /\ Output(1, r) < 0 /\ Output(2, r) < 0
                           /\ Samples(Ahead1, r) < 0 /\ Samples(Ahead2, r) < 0
  <2>1. UNCHANGED runnerVars
    BY <1>2
  <2> QED BY <1>1, <1>2, <1>5, <2>1, EnqueuePipeline
<1>11. ASSUME NEW r \in S
       PROVE  /\ status[r] = "running" /\ r \notin P
              /\ computed[r] >= PromptLen /\ outs[r] < MaxOut
              /\ computed[r] = PromptLen + outs[r] - 1 /\ outs[r] >= 1
              /\ End(so, r) = PromptLen + outs[r]
              /\ gen[r] = 1 /\ Pos2(r) # Chunk
              /\ Pos2(r) >= 0 => Pos2(r) = computed[r]
  <2>1. r \in Req /\ status[r] = "running" /\ r \notin P
        /\ computed[r] >= PromptLen /\ outs[r] < MaxOut
    OBVIOUS
  <2>2. /\ gen[r] = 1 /\ computed[r] = PromptLen + outs[r] - 1 /\ outs[r] >= 1
        /\ Pos2(r) >= 0 => Pos2(r) = computed[r]
        /\ Pos2(r) = Chunk => computed[r] < PromptLen
    BY <1>1, <2>1 DEF Latest
  <2>3. End(so, r) = computed[r] + 1
    BY <1>4, <1>6, <2>1 DEF End
  <2>4. End(so, r) = PromptLen + outs[r]
    BY <1>8, <1>9, <2>1, <2>2, <2>3
  <2>5. Pos2(r) # Chunk
    BY <1>8, <1>9, <2>1, <2>2
  <2> QED BY <2>1, <2>2, <2>4, <2>5
<1>12. ASSUME NEW r \in S  PROVE Fits(Pos2(r), Stay2(r), so, r)
  <2>1. r \in Req /\ one[r] = 1
    BY <1>4, <1>7
  <2>2. known[r] = SubSeq(History(r, 1, PromptLen + Len(known[r])), PromptLen + 1,
                          PromptLen + Len(known[r]))
    BY <1>1, <1>11, <2>1 DEF StreamGenuine
  <2>3. Known(so, r)
    BY <1>6, <1>11, <2>2 DEF Known
  <2>4. Pos2(r) < 0 => Len(known[r]) = outs[r]
    <3>1. ASSUME Pos2(r) < 0  PROVE Len(known[r]) = outs[r]
      <4>1. /\ Output(1, r) < 0 /\ Output(2, r) < 0
            /\ Samples(Ahead1, r) < 0 /\ Samples(Ahead2, r) < 0
        BY <1>10, <2>1, <3>1
      <4>2. InOrder(Output(1, r), Output(2, r), Samples(Ahead1, r), Samples(Ahead2, r),
                    PromptLen + Len(known[r]), outs[r] - Len(known[r]))
        BY <1>1, <1>11, <2>1 DEF Chain
      <4> PICK l \in Nat : l = Len(known[r])
        BY <1>9, <2>1
      <4> PICK o \in Nat : o = outs[r]
        BY <1>9, <2>1
      <4>3. /\ Bit(Output(1, r)) = 0 /\ Bit(Output(2, r)) = 0
            /\ Bit(Samples(Ahead1, r)) = 0 /\ Bit(Samples(Ahead2, r)) = 0
        <5>1. /\ Output(1, r) \in Int /\ Output(2, r) \in Int
              /\ Samples(Ahead1, r) \in Int /\ Samples(Ahead2, r) \in Int
          BY <1>1, <2>1, PipelineType
        <5> QED BY <4>1, <5>1 DEF Bit
      <4>4. o - l = 0 + 0 + 0 + 0
        BY <4>2, <4>3 DEF InOrder
      <4>5. o = l
        BY <4>4
      <4> QED BY <4>5
    <3> QED BY <3>1
  <2>5. Pos2(r) >= 0 \/ Pos2(r) < 0
    BY <1>9, <2>1
  <2>6. DecodeFits(Pos2(r), so, r)
    BY <1>6, <1>11, <2>1, <2>4, <2>5 DEF DecodeFits
  <2> QED BY <2>3, <2>6 DEF Fits
<1>13. ASSUME NEW r \in Req
       PROVE  /\ r \in S => Samples(so, r) = PromptLen + outs[r] /\ Samples(so, r) >= 0
                            /\ Samples(so, r) # Chunk
              /\ r \notin S => Samples(so, r) = Nothing
              /\ Bit(Samples(so, r)) = one[r]
  <2>1. CASE r \in S
    <3>1. End(so, r) = PromptLen + outs[r] /\ outs[r] \in Nat
      BY <1>9, <1>11, <2>1
    <3>2. End(so, r) >= PromptLen
      BY <1>8, <3>1
    <3>3. Samples(so, r) = PromptLen + outs[r]
      BY <1>7, <2>1, <3>1, <3>2 DEF Samples
    <3> QED BY <1>4, <1>8, <2>1, <3>1, <3>3 DEF Bit, Chunk
  <2>2. CASE r \notin S
    <3>1. Samples(so, r) = Nothing
      BY <1>7, <2>2 DEF Samples
    <3> QED BY <1>4, <2>2, <3>1 DEF Bit, Nothing
  <2> QED BY <2>1, <2>2
<1>14. ASSUME NEW r \in Req
       PROVE  /\ outs'[r] = outs[r] + Bit(Samples(so, r))
              /\ status'[r] = "idle" <=> status[r] = "idle"
  BY <1>2, <1>13
<1>15. /\ Depth' /\ queue' \in Seq(AnyStep) /\ Chain' /\ StepsFit'
       /\ Objects' /\ RowsReady' /\ StreamGenuine'
       /\ \A q \in Req :
            /\ Pos2(q)' = NextPos(Pos2(q), so, q)
            /\ Stay2(q)' = NextStay(Stay2(q), so, q)
            /\ Output(1, q)' = Output(1, q) /\ Output(2, q)' = Output(2, q)
            /\ Samples(Ahead1, q) < 0 /\ Samples(Ahead2, q) < 0 /\ q \notin Scheduled(so)
                 => Samples(Ahead1', q) < 0 /\ Samples(Ahead2', q) < 0
  <2>1. ASSUME NEW q \in Scheduled(so)
        PROVE  /\ status[q] # "idle" /\ Fits(Pos2(q), Stay2(q), so, q)
               /\ Samples(so, q) >= 0 => End(so, q) = PromptLen + outs[q]
               /\ Samples(so, q) = Chunk => outs[q] = Len(known[q])
    BY <1>7, <1>11, <1>12, <1>13, <2>1
  <2> QED BY <1>2, <1>5, <1>14, <2>1, EnqueueKeeps
<1>16. Types'
  <2>1. status' \in [Req -> Statuses]
    BY <1>1, <1>2 DEF Types, Statuses
  <2>2. outs' \in [Req -> Nat]
    BY <1>2, <1>4, <1>9
  <2>3. computed' \in [Req -> Nat]
    BY <1>2, <1>4, <1>9
  <2> QED BY <1>1, <1>2, <1>15, <2>1, <2>2, <2>3 DEF Types, runnerVars, InBatch
<1>17. Latest'
  <2>1. ASSUME NEW q \in Req
        PROVE  /\ status'[q] # "idle" =>
                    /\ gen'[q] = 1
                    /\ Pos2(q)' >= 0 => computed'[q] = Pos2(q)'
                    /\ computed'[q] >= PromptLen =>
                         computed'[q] = PromptLen + outs'[q] - 1 /\ outs'[q] >= 1
                    /\ Pos2(q)' = Chunk => computed'[q] < PromptLen
                    /\ Stay2(q)' >= 0 => outs'[q] = Stay2(q)'
               /\ status'[q] # "running" => computed'[q] = 0
               /\ Pos2(q)' >= 0 /\ status'[q] # "idle" => status'[q] = "running"
               /\ status'[q] = "waiting" => known'[q] = << >> /\ outs'[q] = 0
               /\ status'[q] = "idle" => outs'[q] = 0
               /\ gen'[q] = 0 => /\ status'[q] = "idle" /\ known'[q] = << >>
                                 /\ Pos2(q)' = Nothing /\ Stay2(q)' = Nothing
                                 /\ Output(1, q)' < 0 /\ Output(2, q)' < 0
                                 /\ Samples(Ahead1', q) < 0 /\ Samples(Ahead2', q) < 0
    <3>1. gen' = gen /\ known' = known
      BY <1>2
    <3>2. /\ status'[q] = (IF q \in P THEN "preempted" ELSE status[q])
          /\ outs'[q] = outs[q] + one[q]
          /\ computed'[q] = (IF q \in P THEN 0 ELSE computed[q] + one[q])
      BY <1>2
    <3>3. q \notin S => outs[q] + one[q] = outs[q] /\ computed[q] + one[q] = computed[q]
      BY <1>4, <1>9
    <3>4. /\ Pos2(q)' = NextPos(Pos2(q), so, q) /\ Stay2(q)' = NextStay(Stay2(q), so, q)
          /\ Output(1, q)' = Output(1, q) /\ Output(2, q)' = Output(2, q)
          /\ Samples(Ahead1, q) < 0 /\ Samples(Ahead2, q) < 0 /\ q \notin S
               => Samples(Ahead1', q) < 0 /\ Samples(Ahead2', q) < 0
      BY <1>7, <1>15
    <3>5. CASE q \in S
      <4>1. Pos2(q)' = PromptLen + outs[q]
        BY <1>7, <1>13, <3>4, <3>5 DEF NextPos
      <4>2. Stay2(q)' = Nothing
        BY <1>7, <1>13, <3>4, <3>5 DEF NextStay
      <4>3. /\ status'[q] = "running" /\ outs'[q] = outs[q] + 1
            /\ computed'[q] = computed[q] + 1
        BY <1>4, <1>11, <3>2, <3>5
      <4>4. /\ computed[q] = PromptLen + outs[q] - 1 /\ gen[q] = 1
        BY <1>11, <3>5
      <4> PICK o \in Nat : o = outs[q]
        BY <1>9
      <4>5. /\ computed'[q] = PromptLen + o
            /\ PromptLen + o = PromptLen + (o + 1) - 1 /\ o + 1 >= 1
            /\ PromptLen + o # Chunk /\ ~(Nothing >= 0)
        BY <1>8, <4>3, <4>4 DEF Chunk, Nothing
      <4> QED BY <3>1, <4>1, <4>2, <4>3, <4>4, <4>5
    <3>6. CASE q \notin S /\ S = {}
      <4>1. q \notin P /\ Pos2(q)' = Pos2(q) /\ Stay2(q)' = Stay2(q)
        BY <1>2, <1>7, <3>4, <3>6 DEF NextPos, NextStay
      <4>2. status'[q] = status[q] /\ outs'[q] = outs[q] /\ computed'[q] = computed[q]
        BY <3>2, <3>3, <3>6, <4>1
      <4> QED BY <1>1, <3>1, <3>4, <3>6, <4>1, <4>2 DEF Latest
    <3>7. CASE q \notin S /\ S # {}
      <4>1. Pos2(q)' = Nothing
        BY <1>7, <1>13, <3>4, <3>7 DEF NextPos
      <4>2. Stay2(q)' = Nothing
        <5>1. Samples(so, q) # Chunk
          BY <1>13, <3>7 DEF Nothing, Chunk
        <5> QED BY <1>7, <3>4, <3>7, <5>1 DEF NextStay
      <4>3. ~(Nothing >= 0) /\ Nothing # Chunk
        BY DEF Nothing, Chunk
      <4>4. CASE q \in P
        <5>1. /\ status'[q] = "preempted" /\ outs'[q] = outs[q] /\ computed'[q] = 0
              /\ status[q] = "running"
          BY <1>2, <3>2, <3>3, <3>7, <4>4
        <5>2. gen[q] = 1 /\ ~(0 >= PromptLen)
          BY <1>1, <1>8, <5>1 DEF Latest
        <5> QED BY <3>1, <4>1, <4>2, <4>3, <5>1, <5>2
      <4>5. CASE q \notin P
        <5>1. status'[q] = status[q] /\ outs'[q] = outs[q] /\ computed'[q] = computed[q]
          BY <3>2, <3>3, <3>7, <4>5
        <5> QED BY <1>1, <3>1, <3>4, <3>7, <4>1, <4>2, <4>3, <5>1 DEF Latest
      <4> QED BY <4>4, <4>5
    <3> QED BY <3>5, <3>6, <3>7
  <2> QED BY <2>1 DEF Latest
<1> QED BY <1>15, <1>16, <1>17 DEF IInv

-----------------------------------------------------------------------------
(* Clients: the pipeline stays, the request starts or ends. *)

(* A client leaves the pipeline as it is. *)
LEMMA ClientKeeps ==
  ASSUME IInv, UNCHANGED <<runnerVars, queue>>
  PROVE  /\ SamePipeline /\ Depth' /\ Objects' /\ RowsReady' /\ StepsFit'
         /\ \A r \in Req : Pos2(r)' = Pos2(r) /\ Stay2(r)' = Stay2(r)
<1>1. Types /\ Depth /\ StepsFit /\ Objects /\ RowsReady
  BY DEF IInv
<1>2. SamePipeline /\ \A r \in Req : Stay0(r)' = Stay0(r)
  BY DEF runnerVars, SamePipeline, Ahead1, Ahead2, Output, Pos0, Stay0, InBatch
<1>3. Ahead1' = Ahead1 /\ Ahead2' = Ahead2
  BY <1>2 DEF SamePipeline
<1>4. ASSUME NEW r \in Req
      PROVE  /\ Pos0(r)' = Pos0(r) /\ Stay0(r)' = Stay0(r)
             /\ Pos1(r)' = Pos1(r) /\ Stay1(r)' = Stay1(r)
             /\ Pos2(r)' = Pos2(r) /\ Stay2(r)' = Stay2(r)
  <2>1. Pos0(r)' = Pos0(r) /\ Stay0(r)' = Stay0(r)
    BY <1>2 DEF SamePipeline
  <2>2. Pos1(r)' = Pos1(r) /\ Stay1(r)' = Stay1(r)
    BY <1>3, <2>1 DEF Pos1, Stay1
  <2> QED BY <1>3, <2>1, <2>2 DEF Pos2, Stay2
<1>5. StepsFit'
  <2>1. \A r \in Scheduled(Ahead1) : r \in Req /\ Fits(Pos0(r), Stay0(r), Ahead1, r)
    BY <1>1 DEF StepsFit, Scheduled
  <2>2. \A r \in Scheduled(Ahead2) : r \in Req /\ Fits(Pos1(r), Stay1(r), Ahead2, r)
    BY <1>1 DEF StepsFit, Scheduled
  <2>3. \A r \in Scheduled(Ahead1') : Fits(Pos0(r)', Stay0(r)', Ahead1', r)
    BY <1>3, <1>4, <2>1
  <2>4. \A r \in Scheduled(Ahead2') : Fits(Pos1(r)', Stay1(r)', Ahead2', r)
    BY <1>3, <1>4, <2>2
  <2> QED BY <2>3, <2>4 DEF StepsFit
<1>6. Depth' /\ Objects'
  BY <1>1 DEF runnerVars, Depth, UnderWay, Objects
<1>7. RowsReady'
  <2>1. \A r : Pos0(r)' = Pos0(r) /\ \A n : Row(r, n)' <=> Row(r, n)
    BY DEF runnerVars, Pos0, Row
  <2>2. UNCHANGED <<pc, step, batch, outIds, ids, last>>
    BY DEF runnerVars
  <2> QED BY <1>1, <2>1, <2>2 DEF RowsReady, InBatch
<1> QED BY <1>2, <1>4, <1>5, <1>6, <1>7

(* The empty stream is genuine. *)
LEMMA NothingKnown ==
  ASSUME NEW r \in Req, NEW g \in Nat
  PROVE  << >> = SubSeq(History(r, g, PromptLen + Len(<< >>)), PromptLen + 1,
                        PromptLen + Len(<< >>))
<1>1. << >> \in Seq(AnyToken) /\ Genuine(<< >>, r, g)
  BY DEF Genuine
<1> QED BY <1>1, GenuineIsTail

(* A pipeline without tokens is in order. *)
LEMMA NoneInOrder ==
  ASSUME NEW a, NEW b, NEW c, NEW d, a < 0, b < 0, c < 0, d < 0,
         a \in Int, b \in Int, c \in Int, d \in Int, NEW base
  PROVE  InOrder(a, b, c, d, base, 0)
BY DEF InOrder, Bit

(* A request that starts has nothing in the pipeline. *)
LEMMA SubmitStep ==
  ASSUME UniqueIdsTwoAhead, IInv, NEW r \in Req, Submit(r)
  PROVE  IInv'
<1>1. Types /\ Chain /\ Latest /\ StreamGenuine /\ Objects
  BY DEF IInv
<1>2. /\ status[r] = "idle" /\ gen[r] = 0
      /\ status' = [status EXCEPT ![r] = "waiting"] /\ gen' = [gen EXCEPT ![r] = 1]
      /\ known' = [known EXCEPT ![r] = << >>]
      /\ UNCHANGED <<runnerVars, computed, outs, finished, queue>>
  <2>1. gen[r] \in 0 .. 1 /\ gen[r] < 1
    BY <1>1 DEF Submit, UniqueIdsTwoAhead, Types
  <2>2. gen[r] = 0
    BY <2>1
  <2> QED BY <2>2 DEF Submit
<1>3. /\ status'[r] = "waiting" /\ gen'[r] = 1 /\ known'[r] = << >>
      /\ \A q \in Req : q # r => status'[q] = status[q] /\ gen'[q] = gen[q]
                                 /\ known'[q] = known[q]
  BY <1>1, <1>2 DEF Types
<1>4. /\ SamePipeline /\ Depth' /\ Objects' /\ RowsReady' /\ StepsFit'
      /\ \A q \in Req : Pos2(q)' = Pos2(q) /\ Stay2(q)' = Stay2(q)
  BY <1>2, ClientKeeps
<1>5. /\ Ahead1' = Ahead1 /\ Ahead2' = Ahead2
      /\ \A q \in Req : Output(1, q)' = Output(1, q) /\ Output(2, q)' = Output(2, q)
  BY <1>4 DEF SamePipeline
<1>6. /\ Output(1, r) < 0 /\ Output(2, r) < 0
      /\ Samples(Ahead1, r) < 0 /\ Samples(Ahead2, r) < 0
      /\ Pos2(r) = Nothing /\ Stay2(r) = Nothing /\ outs[r] = 0 /\ computed[r] = 0
  BY <1>1, <1>2 DEF Latest
<1>7. Types'
  <2>1. status' \in [Req -> Statuses]
    BY <1>1, <1>2 DEF Types, Statuses
  <2>2. gen' \in [Req -> 0 .. MaxGen]
    BY <1>1, <1>2 DEF Types, UniqueIdsTwoAhead
  <2>3. known' \in [Req -> Seq(AnyToken)]
    <3>1. << >> \in Seq(AnyToken)
      OBVIOUS
    <3> QED BY <1>1, <1>2, <3>1 DEF Types
  <2> QED BY <1>1, <1>2, <2>1, <2>2, <2>3 DEF Types, runnerVars, InBatch
<1>8. Chain'
  <2>1. ASSUME NEW q \in Req
        PROVE  /\ ChunkAlone(Output(1, q)', Output(2, q)',
                             Samples(Ahead1', q), Samples(Ahead2', q))
               /\ status'[q] # "idle" =>
                    InOrder(Output(1, q)', Output(2, q)',
                            Samples(Ahead1', q), Samples(Ahead2', q),
                            PromptLen + Len(known'[q]), outs'[q] - Len(known'[q]))
    <3>1. CASE q # r
      BY <1>1, <1>2, <1>3, <1>5, <3>1 DEF Chain
    <3>2. CASE q = r
      <4>1. /\ Output(1, r) \in Int /\ Output(2, r) \in Int
            /\ Samples(Ahead1, r) \in Int /\ Samples(Ahead2, r) \in Int
        BY <1>1, PipelineType
      <4>2. outs'[r] - Len(known'[r]) = 0
        <5>1. outs'[r] = 0 /\ Len(known'[r]) = 0
          BY <1>2, <1>3, <1>6
        <5> QED BY <5>1
      <4>3. InOrder(Output(1, r), Output(2, r), Samples(Ahead1, r), Samples(Ahead2, r),
                    PromptLen + Len(known'[r]), 0)
        BY <1>6, <4>1, NoneInOrder
      <4> QED BY <1>1, <1>5, <3>2, <4>2, <4>3 DEF Chain
    <3> QED BY <3>1, <3>2
  <2> QED BY <2>1 DEF Chain
<1>9. Latest'
  <2>1. ASSUME NEW q \in Req
        PROVE  /\ status'[q] # "idle" =>
                    /\ gen'[q] = 1
                    /\ Pos2(q)' >= 0 => computed'[q] = Pos2(q)'
                    /\ computed'[q] >= PromptLen =>
                         computed'[q] = PromptLen + outs'[q] - 1 /\ outs'[q] >= 1
                    /\ Pos2(q)' = Chunk => computed'[q] < PromptLen
                    /\ Stay2(q)' >= 0 => outs'[q] = Stay2(q)'
               /\ status'[q] # "running" => computed'[q] = 0
               /\ Pos2(q)' >= 0 /\ status'[q] # "idle" => status'[q] = "running"
               /\ status'[q] = "waiting" => known'[q] = << >> /\ outs'[q] = 0
               /\ status'[q] = "idle" => outs'[q] = 0
               /\ gen'[q] = 0 => /\ status'[q] = "idle" /\ known'[q] = << >>
                                 /\ Pos2(q)' = Nothing /\ Stay2(q)' = Nothing
                                 /\ Output(1, q)' < 0 /\ Output(2, q)' < 0
                                 /\ Samples(Ahead1', q) < 0 /\ Samples(Ahead2', q) < 0
    <3>1. CASE q # r
      BY <1>1, <1>2, <1>3, <1>4, <1>5, <3>1 DEF Latest
    <3>2. CASE q = r
      BY <1>2, <1>3, <1>4, <1>6, <3>2, AsyncBoundAssumption DEF Nothing, Chunk
    <3> QED BY <3>1, <3>2
  <2> QED BY <2>1 DEF Latest
<1>10. StreamGenuine'
  <2>1. ASSUME NEW q \in Req
        PROVE  known'[q] = SubSeq(History(q, gen'[q], PromptLen + Len(known'[q])),
                                  PromptLen + 1, PromptLen + Len(known'[q]))
    <3>1. CASE q # r
      BY <1>1, <1>3, <3>1 DEF StreamGenuine
    <3>2. CASE q = r
      <4>1. 1 \in Nat
        OBVIOUS
      <4> QED BY <1>3, <3>2, <4>1, NothingKnown
    <3> QED BY <3>1, <3>2
  <2> QED BY <2>1 DEF StreamGenuine
<1> QED BY <1>4, <1>7, <1>8, <1>9, <1>10 DEF IInv

(* What a request that ends has in the pipeline no longer matters. *)
LEMMA FinishStep ==
  ASSUME UniqueIdsTwoAhead, IInv, NEW r \in Req, Finish(r)
  PROVE  IInv'
<1>1. Types /\ Chain /\ Latest /\ StreamGenuine /\ Objects
  BY DEF IInv
<1>2. /\ status[r] # "idle"
      /\ status' = [status EXCEPT ![r] = "idle"] /\ computed' = [computed EXCEPT ![r] = 0]
      /\ outs' = [outs EXCEPT ![r] = 0] /\ known' = [known EXCEPT ![r] = << >>]
      /\ finished' = finished \cup {r}
      /\ UNCHANGED <<runnerVars, gen, queue>>
  BY DEF Finish
<1>3. /\ status'[r] = "idle" /\ computed'[r] = 0 /\ outs'[r] = 0 /\ known'[r] = << >>
      /\ \A q \in Req : q # r =>
           status'[q] = status[q] /\ computed'[q] = computed[q] /\ outs'[q] = outs[q]
           /\ known'[q] = known[q]
  BY <1>1, <1>2 DEF Types
<1>4. /\ SamePipeline /\ Depth' /\ Objects' /\ RowsReady' /\ StepsFit'
      /\ \A q \in Req : Pos2(q)' = Pos2(q) /\ Stay2(q)' = Stay2(q)
  BY <1>2, ClientKeeps
<1>5. /\ Ahead1' = Ahead1 /\ Ahead2' = Ahead2
      /\ \A q \in Req : Output(1, q)' = Output(1, q) /\ Output(2, q)' = Output(2, q)
  BY <1>4 DEF SamePipeline
<1>6. gen[r] = 1
  BY <1>1, <1>2 DEF Latest
<1>7. Types'
  <2>1. status' \in [Req -> Statuses]
    BY <1>1, <1>2 DEF Types, Statuses
  <2>2. computed' \in [Req -> Nat] /\ outs' \in [Req -> Nat]
    BY <1>1, <1>2 DEF Types
  <2>3. known' \in [Req -> Seq(AnyToken)]
    <3>1. << >> \in Seq(AnyToken)
      OBVIOUS
    <3> QED BY <1>1, <1>2, <3>1 DEF Types
  <2>4. finished' \in SUBSET Req
    BY <1>1, <1>2 DEF Types
  <2> QED BY <1>1, <1>2, <2>1, <2>2, <2>3, <2>4 DEF Types, runnerVars, InBatch
<1>8. Chain'
  <2>1. ASSUME NEW q \in Req
        PROVE  /\ ChunkAlone(Output(1, q)', Output(2, q)',
                             Samples(Ahead1', q), Samples(Ahead2', q))
               /\ status'[q] # "idle" =>
                    InOrder(Output(1, q)', Output(2, q)',
                            Samples(Ahead1', q), Samples(Ahead2', q),
                            PromptLen + Len(known'[q]), outs'[q] - Len(known'[q]))
    BY <1>1, <1>3, <1>5 DEF Chain
  <2> QED BY <2>1 DEF Chain
<1>9. Latest'
  <2>1. ASSUME NEW q \in Req
        PROVE  /\ status'[q] # "idle" =>
                    /\ gen'[q] = 1
                    /\ Pos2(q)' >= 0 => computed'[q] = Pos2(q)'
                    /\ computed'[q] >= PromptLen =>
                         computed'[q] = PromptLen + outs'[q] - 1 /\ outs'[q] >= 1
                    /\ Pos2(q)' = Chunk => computed'[q] < PromptLen
                    /\ Stay2(q)' >= 0 => outs'[q] = Stay2(q)'
               /\ status'[q] # "running" => computed'[q] = 0
               /\ Pos2(q)' >= 0 /\ status'[q] # "idle" => status'[q] = "running"
               /\ status'[q] = "waiting" => known'[q] = << >> /\ outs'[q] = 0
               /\ status'[q] = "idle" => outs'[q] = 0
               /\ gen'[q] = 0 => /\ status'[q] = "idle" /\ known'[q] = << >>
                                 /\ Pos2(q)' = Nothing /\ Stay2(q)' = Nothing
                                 /\ Output(1, q)' < 0 /\ Output(2, q)' < 0
                                 /\ Samples(Ahead1', q) < 0 /\ Samples(Ahead2', q) < 0
    <3>1. CASE q # r
      BY <1>1, <1>2, <1>3, <1>4, <1>5, <3>1 DEF Latest
    <3>2. CASE q = r
      BY <1>2, <1>3, <1>6, <3>2
    <3> QED BY <3>1, <3>2
  <2> QED BY <2>1 DEF Latest
<1>10. StreamGenuine'
  <2>1. ASSUME NEW q \in Req
        PROVE  known'[q] = SubSeq(History(q, gen[q], PromptLen + Len(known'[q])),
                                  PromptLen + 1, PromptLen + Len(known'[q]))
    <3>1. CASE q # r
      BY <1>1, <1>3, <3>1 DEF StreamGenuine
    <3>2. CASE q = r
      <4>1. gen[r] \in Nat
        BY <1>6
      <4> QED BY <1>3, <3>2, <4>1, NothingKnown
    <3> QED BY <3>1, <3>2
  <2> QED BY <1>2, <2>1 DEF StreamGenuine
<1> QED BY <1>4, <1>7, <1>8, <1>9, <1>10 DEF IInv

-----------------------------------------------------------------------------
(* Receiving the oldest output. *)

(* One output is under way when the runner is in a step, and the last is   *)
(* the only one, or it is the second and no step is ahead.                 *)
LEMMA TakeKeeps ==
  ASSUME Types, Objects, Depth, TakeOutput
  PROVE  /\ host' \in [Req -> Seq(AnyToken)] /\ outIds' \in [Req -> Seq(AnyToken)]
         /\ \A r \in InBatch(batch) : Len(host'[r]) = PromptLen + Len(outIds'[r])
         /\ \A r \in Req : Output(1, r) < 0 => host'[r] = host[r] /\ outIds'[r] = outIds[r]
         /\ last' \in AnyOutput /\ last'.reqs = last.reqs /\ last'.partial = last.partial
         /\ \A r \in Req : Sampled(last', r) = Pos0(r)
         /\ outputs' \in Seq(AnyOutput) /\ Len(outputs') = Len(outputs) - 1
         /\ Objects'
         /\ Head(outputs) \in AnyOutput /\ GenuineOutput(Head(outputs))
         /\ \A r \in Req :
              /\ Sampled(Head(outputs), r) = Output(1, r)
              /\ Output(1, r)' = Output(2, r) /\ Output(2, r)' = Nothing
              /\ \/ Output(1, r) = Pos0(r)
                 \/ pc = "idle" /\ Output(2, r) = Pos0(r)
<1> PICK s \in Seq(AnyOutput) : s = outputs
  BY DEF Types
<1> PICK n \in Nat : n = Len(s)
  OBVIOUS
<1>1. outputs # << >> /\ outputs' = Tail(s) /\ n >= 1
  BY DEF TakeOutput
<1>2. /\ Tail(s) \in Seq(AnyOutput) /\ Len(Tail(s)) = n - 1
      /\ \A i \in 1 .. n - 1 : Tail(s)[i] = s[i + 1]
      /\ Head(s) = s[1] /\ s[1] \in AnyOutput
  BY <1>1
<1>3. n <= 2 /\ (n = 1 \/ (n = 2 /\ pc = "idle"))
  <2>1. Len(queue) \in Nat
    BY DEF Types
  <2>2. Len(queue) + (IF pc = "idle" THEN 0 ELSE 1) + n <= 2
    BY DEF Depth, UnderWay
  <2> QED BY <1>1, <2>1, <2>2
<1>4. /\ last \in AnyOutput /\ GenuineOutput(last) /\ s[n] = last
      /\ \A i \in 1 .. n : s[i] \in AnyOutput /\ GenuineOutput(s[i])
  <2>1. last \in AnyOutput /\ GenuineOutput(last) /\ s[n] = last
    BY <1>1 DEF Types, Objects
  <2>2. \A i \in 1 .. n : s[i] \in AnyOutput
    OBVIOUS
  <2>3. \A i \in DOMAIN s : GenuineOutput(s[i])
    BY DEF Objects
  <2>4. DOMAIN s = 1 .. n
    OBVIOUS
  <2> QED BY <2>1, <2>2, <2>3, <2>4
<1>5. GenuineOutput(s[1])
  BY <1>1, <1>4
<1>6. ASSUME NEW r \in Req
      PROVE  /\ Sampled(s[1], r) = Output(1, r)
             /\ Output(1, r)' = Output(2, r) /\ Output(2, r)' = Nothing
             /\ \/ Output(1, r) = Pos0(r)
                \/ pc = "idle" /\ Output(2, r) = Pos0(r)
  <2>1. Sampled(s[1], r) = Output(1, r)
    BY <1>1 DEF Output
  <2>2. CASE n = 1
    <3>1. Output(2, r) = Nothing /\ Output(1, r)' = Nothing /\ Output(2, r)' = Nothing
      BY <1>1, <1>2, <2>2 DEF Output
    <3> QED BY <1>4, <2>1, <2>2, <3>1 DEF Pos0
  <2>3. CASE n = 2 /\ pc = "idle"
    <3>1. Output(2, r) = Sampled(s[2], r)
      BY <2>3 DEF Output
    <3>2. Len(outputs') = 1 /\ outputs'[1] = s[2]
      BY <1>1, <1>2, <2>3
    <3>3. Output(1, r)' = Sampled(s[2], r) /\ Output(2, r)' = Nothing
      BY <3>2 DEF Output
    <3> QED BY <1>4, <2>1, <2>3, <3>1, <3>3 DEF Pos0
  <2> QED BY <1>3, <2>2, <2>3
<1>7. /\ host' \in [Req -> Seq(AnyToken)] /\ outIds' \in [Req -> Seq(AnyToken)]
      /\ \A r \in InBatch(batch) : Len(host'[r]) = PromptLen + Len(outIds'[r])
      /\ \A r \in Req : Sampled(s[1], r) < 0 => host'[r] = host[r] /\ outIds'[r] = outIds[r]
  <2>1. CASE outputRank
    <3>1. host' = HostAfter(s[1]) /\ outIds' = OutIdsAfter(s[1])
      BY <1>2, <2>1 DEF TakeOutput
    <3> QED BY <1>2, <1>5, <3>1, HostAfterLemma
  <2>2. CASE ~outputRank
    <3>1. host' = host /\ outIds' = outIds
      BY <2>2 DEF TakeOutput
    <3> QED BY <3>1 DEF Types
  <2> QED BY <2>1, <2>2
<1>8. /\ last' \in AnyOutput /\ last'.reqs = last.reqs /\ last'.partial = last.partial
      /\ GenuineOutput(last') /\ \A r \in Req : Sampled(last', r) = Pos0(r)
      /\ n # 1 => last' = last
  <2>1. last' = last \/ (n = 1 /\ last' = [last EXCEPT !.list = TRUE])
    BY DEF TakeOutput
  <2>2. /\ [last EXCEPT !.list = TRUE] \in AnyOutput
        /\ [last EXCEPT !.list = TRUE].reqs = last.reqs
        /\ [last EXCEPT !.list = TRUE].partial = last.partial
        /\ \A r : Sampled([last EXCEPT !.list = TRUE], r) = Sampled(last, r)
        /\ GenuineOutput([last EXCEPT !.list = TRUE])
    BY <1>4, ListLemma
  <2>3. CASE last' = last
    BY <1>4, <2>3 DEF Pos0
  <2>4. CASE n = 1 /\ last' = [last EXCEPT !.list = TRUE]
    BY <2>2, <2>4 DEF Pos0
  <2> QED BY <2>1, <2>3, <2>4
<1>9. Objects'
  <2>1. outputs' # << >> => outputs'[Len(outputs')] = last'
    <3>1. CASE n = 1
      <4>1. Len(outputs') = 0 /\ outputs' \in Seq(AnyOutput)
        BY <1>1, <1>2, <3>1
      <4> QED BY <4>1
    <3>2. CASE n = 2
      BY <1>1, <1>2, <1>4, <1>8, <3>2
    <3> QED BY <1>3, <3>1, <3>2
  <2>2. \A i \in DOMAIN outputs' : GenuineOutput(outputs'[i])
    <3>1. \A i \in 1 .. n - 1 : outputs'[i] = s[i + 1] /\ i + 1 \in 1 .. n
      BY <1>1, <1>2
    <3>2. DOMAIN outputs' = 1 .. n - 1
      BY <1>1, <1>2
    <3> QED BY <1>4, <3>1, <3>2
  <2> QED BY <1>8, <2>1, <2>2 DEF Objects
<1> QED BY <1>1, <1>2, <1>5, <1>6, <1>7, <1>8, <1>9

(* The oldest token leaves the pipeline for the stream. *)
LEMMA ShiftInOrder ==
  ASSUME NEW a \in Int, NEW b \in Int, NEW c \in Int, NEW d \in Int,
         NEW p \in Nat, NEW l \in Nat, NEW o \in Nat,
         InOrder(a, b, c, d, p + l, o - l)
  PROVE  /\ InOrder(b, Nothing, c, d, p + (l + Bit(a)), o - (l + Bit(a)))
         /\ a >= 0 => a = p + l
         /\ o = 0 /\ l = 0 => a < 0
BY DEF InOrder, Bit, Nothing

(* What is received continues the stream. *)
LEMMA ReceivedLemma ==
  ASSUME IInv, TakeOutput, NEW r \in Req
  PROVE  LET k == known[r] \o ReceivedFrom(Head(outputs), r)
         IN  /\ k \in Seq(AnyToken)
             /\ k = SubSeq(History(r, gen[r], PromptLen + Len(k)),
                           PromptLen + 1, PromptLen + Len(k))
             /\ status[r] # "idle" => Len(k) = Len(known[r]) + Bit(Output(1, r))
             /\ status[r] = "idle" => k = known[r]
             /\ Output(1, r) < 0 => k = known[r]
<1>1. Types /\ Objects /\ Depth /\ Chain /\ Latest /\ StreamGenuine
  BY DEF IInv
<1> PICK k \in Seq(AnyToken) : k = known[r]
  BY <1>1 DEF Types
<1> PICK a \in Int : a = Output(1, r)
  BY <1>1, PipelineType
<1> PICK o : o = Head(outputs)
  OBVIOUS
<1>2. o \in AnyOutput /\ GenuineOutput(o) /\ Sampled(o, r) = a
  BY <1>1, TakeKeeps
<1>3. SampledOf(o, r) = IF a >= 0 THEN << OutputTok(r, a) >> ELSE << >>
  BY <1>2, SampledOfLemma
<1>4. k = SubSeq(History(r, gen[r], PromptLen + Len(k)), PromptLen + 1, PromptLen + Len(k))
  BY <1>1 DEF StreamGenuine
<1>5. CASE a >= 0 /\ status[r] # "idle"
  <2>1. gen[r] = 1
    BY <1>1, <1>5 DEF Latest
  <2>2. a = PromptLen + Len(k)
    BY <1>1, <1>5 DEF Chain, InOrder
  <2>3. ReceivedFrom(o, r) = << OutputTok(r, a) >>
    BY <1>3, <1>5, <2>1 DEF ReceivedFrom, OutputTok
  <2>4. Genuine(k, r, 1)
    BY <1>4, <2>1, GenuineIsTail
  <2> PICK m : m = k \o << OutputTok(r, PromptLen + Len(k)) >>
    OBVIOUS
  <2>5. m \in Seq(AnyToken) /\ Len(m) = Len(k) + 1 /\ Genuine(m, r, 1)
    BY <2>4, GenuineAppend
  <2>6. m = SubSeq(History(r, 1, PromptLen + Len(m)), PromptLen + 1, PromptLen + Len(m))
    <3>1. 1 \in Nat
      OBVIOUS
    <3> QED BY <2>5, <3>1, GenuineIsTail
  <2>7. m = known[r] \o ReceivedFrom(o, r)
    BY <2>2, <2>3
  <2>8. Bit(a) = 1
    BY <1>5 DEF Bit
  <2>9. /\ known[r] \o ReceivedFrom(Head(outputs), r) = m
        /\ Len(m) = Len(known[r]) + Bit(Output(1, r))
        /\ ~(Output(1, r) < 0) /\ status[r] # "idle"
    <3>1. known[r] \o ReceivedFrom(Head(outputs), r) = m
      BY <2>7, Zenon
    <3>2. ~(a < 0)
      BY <1>5
    <3> QED BY <1>5, <2>5, <2>8, <3>1, <3>2, Zenon
  <2> QED BY <2>1, <2>5, <2>6, <2>9
<1>6. CASE ~(a >= 0 /\ status[r] # "idle")
  <2>1. ReceivedFrom(o, r) = << >>
    BY <1>3, <1>6 DEF ReceivedFrom
  <2>2. known[r] \o ReceivedFrom(o, r) = k
    <3>1. k \o << >> = k
      OBVIOUS
    <3> QED BY <2>1, <3>1
  <2>3. status[r] # "idle" => Bit(a) = 0 /\ Len(k) = Len(k) + 0
    BY <1>6 DEF Bit
  <2> QED BY <1>4, <1>6, <2>2, <2>3
<1> QED BY <1>5, <1>6

(* Receiving, with the rows the output thread writes. *)
LEMMA ReceiveStep ==
  ASSUME UniqueIdsTwoAhead, IInv, Receive
  PROVE  IInv'
<1>1. /\ Types /\ Depth /\ Chain /\ StepsFit /\ Latest
      /\ Objects /\ RowsReady /\ StreamGenuine
  BY DEF IInv
<1>2. /\ TakeOutput /\ outputs # << >>
      /\ UNCHANGED <<outputRank, pc, step, changed, batch, ids, gen, queue>>
  BY DEF Receive, TakeOutput
<1> PICK now : now = [r \in Req |-> known[r] \o ReceivedFrom(Head(outputs), r)]
  OBVIOUS
<1> PICK done : done = {r \in Req : status[r] # "idle" /\ Len(now[r]) = MaxOut}
  OBVIOUS
<1>3. /\ known' = now /\ finished' = finished \cup done
      /\ status' = [r \in Req |-> IF r \in done THEN "idle" ELSE status[r]]
      /\ computed' = [r \in Req |-> IF r \in done THEN 0 ELSE computed[r]]
      /\ outs' = [r \in Req |-> IF r \in done THEN 0 ELSE outs[r]]
  BY DEF Receive
<1>4. /\ host' \in [Req -> Seq(AnyToken)] /\ outIds' \in [Req -> Seq(AnyToken)]
      /\ \A r \in InBatch(batch) : Len(host'[r]) = PromptLen + Len(outIds'[r])
      /\ \A r \in Req : Output(1, r) < 0 => host'[r] = host[r] /\ outIds'[r] = outIds[r]
      /\ last' \in AnyOutput /\ last'.reqs = last.reqs /\ last'.partial = last.partial
      /\ \A r \in Req : Sampled(last', r) = Pos0(r)
      /\ outputs' \in Seq(AnyOutput) /\ Len(outputs') = Len(outputs) - 1
      /\ Objects'
      /\ \A r \in Req :
           /\ Output(1, r)' = Output(2, r) /\ Output(2, r)' = Nothing
           /\ \/ Output(1, r) = Pos0(r)
              \/ pc = "idle" /\ Output(2, r) = Pos0(r)
  BY <1>1, <1>2, TakeKeeps
<1>5. ASSUME NEW r \in Req
      PROVE  /\ now[r] \in Seq(AnyToken)
             /\ now[r] = SubSeq(History(r, gen[r], PromptLen + Len(now[r])),
                                PromptLen + 1, PromptLen + Len(now[r]))
             /\ status[r] # "idle" => Len(now[r]) = Len(known[r]) + Bit(Output(1, r))
             /\ status[r] = "idle" => now[r] = known[r]
             /\ Output(1, r) < 0 => now[r] = known[r]
  BY <1>2, ReceivedLemma
<1>6. Ahead1' = Ahead1 /\ Ahead2' = Ahead2
  BY <1>2 DEF Ahead1, Ahead2
<1>7. ASSUME NEW r \in last.partial
      PROVE  host'[r] = host[r] /\ outIds'[r] = outIds[r]
  <2>1. r \in Req /\ Pos0(r) = Chunk
    BY <1>1 DEF Types, AnyOutput, Pos0, Sampled
  <2>2. Output(1, r) < 0
    BY <1>1, <1>4, <2>1 DEF Chain, ChunkAlone, Chunk
  <2> QED BY <1>4, <2>1, <2>2
<1>8. ASSUME NEW r \in Req
      PROVE  /\ Pos0(r)' = Pos0(r) /\ Stay0(r)' = Stay0(r)
             /\ Pos1(r)' = Pos1(r) /\ Stay1(r)' = Stay1(r)
             /\ Pos2(r)' = Pos2(r) /\ Stay2(r)' = Stay2(r)
  <2>1. Pos0(r)' = Pos0(r)
    BY <1>4 DEF Pos0
  <2>2. Stay0(r)' = Stay0(r)
    <3>1. InBatch(batch)' = InBatch(batch) /\ pc' = pc
      BY <1>2 DEF InBatch
    <3> QED BY <1>4, <1>7, <3>1 DEF Stay0
  <2>3. Pos1(r)' = Pos1(r) /\ Stay1(r)' = Stay1(r)
    BY <1>6, <2>1, <2>2 DEF Pos1, Stay1
  <2> QED BY <1>6, <2>1, <2>2, <2>3 DEF Pos2, Stay2
<1>9. StepsFit'
  <2>1. \A r \in Scheduled(Ahead1) : r \in Req /\ Fits(Pos0(r), Stay0(r), Ahead1, r)
    BY <1>1 DEF StepsFit, Scheduled
  <2>2. \A r \in Scheduled(Ahead2) : r \in Req /\ Fits(Pos1(r), Stay1(r), Ahead2, r)
    BY <1>1 DEF StepsFit, Scheduled
  <2>3. \A r \in Scheduled(Ahead1') : Fits(Pos0(r)', Stay0(r)', Ahead1', r)
    BY <1>6, <1>8, <2>1
  <2>4. \A r \in Scheduled(Ahead2') : Fits(Pos1(r)', Stay1(r)', Ahead2', r)
    BY <1>6, <1>8, <2>2
  <2> QED BY <2>3, <2>4 DEF StepsFit
<1>10. Types'
  <2>1. status' \in [Req -> Statuses]
    BY <1>1, <1>3 DEF Types, Statuses
  <2>2. computed' \in [Req -> Nat] /\ outs' \in [Req -> Nat]
    BY <1>1, <1>3 DEF Types
  <2>3. known' \in [Req -> Seq(AnyToken)]
    BY <1>3, <1>5
  <2>4. finished' \in SUBSET Req
    BY <1>1, <1>3 DEF Types
  <2> QED BY <1>1, <1>2, <1>4, <2>1, <2>2, <2>3, <2>4 DEF Types, InBatch
<1>11. Depth'
  <2>1. Len(outputs) \in Nat /\ Len(queue) \in Nat
    BY <1>1 DEF Types
  <2> QED BY <1>1, <1>2, <1>4, <2>1 DEF Depth, UnderWay
<1>12. RowsReady'
  <2>1. InBatch(batch)' = InBatch(batch) /\ InBatch(batch) \subseteq Req
    BY <1>1, <1>2 DEF InBatch, Types
  <2>2. /\ pc \in {"idle", "update"} =>
             /\ InBatch(batch)' \subseteq InBatch(last'.reqs)
             /\ \A r \in InBatch(batch)' \cap last'.partial : Row(r, Len(outIds[r]))'
    <3>1. \A r \in last'.partial : host'[r] = host[r] /\ outIds'[r] = outIds[r]
      BY <1>4, <1>7
    <3> QED BY <1>1, <1>4, <2>1, <3>1 DEF RowsReady, Row
  <2>3. /\ pc \in {"prepare", "swap", "sample"} =>
             \A r \in InBatch(batch)' : Pos0(r)' < 0 => Row(r, step.outs[r])'
    <3>1. ASSUME pc \in {"prepare", "swap", "sample"}, NEW r \in InBatch(batch), Pos0(r) < 0
          PROVE  Row(r, step.outs[r])'
      <4>1. r \in Req /\ Output(1, r) < 0
        BY <1>4, <2>1, <3>1
      <4> QED BY <1>1, <1>2, <1>4, <3>1, <4>1 DEF RowsReady, Row
    <3> QED BY <1>8, <2>1, <3>1
  <2>4. \A p \in DOMAIN batch : Pos0(batch[p])' = Pos0(batch[p])
    <3>1. \A p \in DOMAIN batch : Sampled(last', batch[p]) = Pos0(batch[p])
      BY <1>1, <1>4 DEF Types
    <3> QED BY <1>2, <3>1 DEF Pos0
  <2>5. \A r : Due(step, r)' = Due(step, r)
    BY <1>2 DEF Due
  <2>6. pc' = pc /\ step' = step /\ batch' = batch /\ ids' = ids
    BY <1>2
  <2>7. pc \in {"swap", "sample"} =>
          /\ DOMAIN ids = DOMAIN batch
          /\ pc = "swap" =>
               \A p \in DOMAIN batch : Pos0(batch[p]) < 0 => ids[p] = Due(step, batch[p])
          /\ pc = "sample" => \A p \in DOMAIN batch : ids[p] = Due(step, batch[p])
    BY <1>1 DEF RowsReady
  <2>8. pc \in {"prepare", "swap", "sample"} =>
          InBatch(batch) = Scheduled(step) /\ Scheduled(step) # {}
    BY <1>1 DEF RowsReady
  <2> QED BY <2>1, <2>2, <2>3, <2>4, <2>5, <2>6, <2>7, <2>8 DEF RowsReady
<1>13. Chain'
  <2>1. ASSUME NEW r \in Req
        PROVE  /\ ChunkAlone(Output(1, r)', Output(2, r)',
                             Samples(Ahead1', r), Samples(Ahead2', r))
               /\ status'[r] # "idle" =>
                    InOrder(Output(1, r)', Output(2, r)',
                            Samples(Ahead1', r), Samples(Ahead2', r),
                            PromptLen + Len(known'[r]), outs'[r] - Len(known'[r]))
    <3> PICK a \in Int : a = Output(1, r)
      BY <1>1, PipelineType
    <3> PICK b \in Int : b = Output(2, r)
      BY <1>1, PipelineType
    <3> PICK c \in Int : c = Samples(Ahead1, r)
      BY <1>1, PipelineType
    <3> PICK d \in Int : d = Samples(Ahead2, r)
      BY <1>1, PipelineType
    <3> PICK l \in Nat : l = Len(known[r])
      BY <1>1 DEF Types
    <3> PICK o \in Nat : o = outs[r]
      BY <1>1 DEF Types
    <3>1. /\ Output(1, r)' = b /\ Output(2, r)' = Nothing
          /\ Samples(Ahead1', r) = c /\ Samples(Ahead2', r) = d
      BY <1>4, <1>6
    <3>2. ChunkAlone(b, Nothing, c, d)
      BY <1>1 DEF Chain, ChunkAlone, Nothing, Chunk
    <3>3. ASSUME status'[r] # "idle"
          PROVE  InOrder(b, Nothing, c, d,
                         PromptLen + Len(known'[r]), outs'[r] - Len(known'[r]))
      <4>1. status[r] # "idle" /\ r \notin done /\ outs'[r] = o
        BY <1>3, <3>3
      <4>2. InOrder(a, b, c, d, PromptLen + l, o - l)
        BY <1>1, <4>1 DEF Chain
      <4>3. Len(known'[r]) = l + Bit(a)
        BY <1>3, <1>5, <4>1
      <4>4. InOrder(b, Nothing, c, d, PromptLen + (l + Bit(a)), o - (l + Bit(a)))
        BY <4>2, ShiftInOrder, AsyncBoundAssumption
      <4> QED BY <4>1, <4>3, <4>4, Zenon
    <3> QED BY <3>1, <3>2, <3>3
  <2> QED BY <2>1 DEF Chain
<1>14. Latest'
  <2>1. ASSUME NEW q \in Req
        PROVE  /\ status'[q] # "idle" =>
                    /\ gen'[q] = 1
                    /\ Pos2(q)' >= 0 => computed'[q] = Pos2(q)'
                    /\ computed'[q] >= PromptLen =>
                         computed'[q] = PromptLen + outs'[q] - 1 /\ outs'[q] >= 1
                    /\ Pos2(q)' = Chunk => computed'[q] < PromptLen
                    /\ Stay2(q)' >= 0 => outs'[q] = Stay2(q)'
               /\ status'[q] # "running" => computed'[q] = 0
               /\ Pos2(q)' >= 0 /\ status'[q] # "idle" => status'[q] = "running"
               /\ status'[q] = "waiting" => known'[q] = << >> /\ outs'[q] = 0
               /\ status'[q] = "idle" => outs'[q] = 0
               /\ gen'[q] = 0 => /\ status'[q] = "idle" /\ known'[q] = << >>
                                 /\ Pos2(q)' = Nothing /\ Stay2(q)' = Nothing
                                 /\ Output(1, q)' < 0 /\ Output(2, q)' < 0
                                 /\ Samples(Ahead1', q) < 0 /\ Samples(Ahead2', q) < 0
    <3>1. CASE q \in done
      <4>1. status'[q] = "idle" /\ computed'[q] = 0 /\ outs'[q] = 0 /\ status[q] # "idle"
        BY <1>3, <3>1
      <4>2. gen'[q] = 1
        BY <1>1, <1>2, <4>1 DEF Latest
      <4> QED BY <4>1, <4>2
    <3>2. CASE q \notin done
      <4>1. status'[q] = status[q] /\ computed'[q] = computed[q] /\ outs'[q] = outs[q]
        BY <1>3, <3>2
      <4>2. status[q] = "waiting" => known'[q] = << >>
        <5>1. ASSUME status[q] = "waiting"  PROVE known'[q] = << >>
          <6>1. known[q] = << >> /\ outs[q] = 0 /\ Len(known[q]) = 0
            BY <1>1, <5>1 DEF Latest
          <6>2. InOrder(Output(1, q), Output(2, q), Samples(Ahead1, q), Samples(Ahead2, q),
                        PromptLen + Len(known[q]), outs[q] - Len(known[q]))
            BY <1>1, <5>1 DEF Chain
          <6>3. /\ Output(1, q) \in Int /\ Output(2, q) \in Int
                /\ Samples(Ahead1, q) \in Int /\ Samples(Ahead2, q) \in Int
            BY <1>1, PipelineType
          <6>4. Output(1, q) < 0
            BY <6>1, <6>2, <6>3 DEF InOrder, Bit
          <6> QED BY <1>3, <1>5, <6>1, <6>4
        <5> QED BY <5>1
      <4>3. gen[q] = 0 => known'[q] = << >>
        BY <1>1, <1>3, <1>5 DEF Latest
      <4>4. gen'[q] = gen[q] /\ Nothing < 0
        BY <1>2 DEF Nothing
      <4> QED BY <1>1, <1>4, <1>6, <1>8, <4>1, <4>2, <4>3, <4>4 DEF Latest
    <3> QED BY <3>1, <3>2
  <2> QED BY <2>1 DEF Latest
<1>15. StreamGenuine'
  BY <1>2, <1>3, <1>5 DEF StreamGenuine
<1> QED BY <1>4, <1>9, <1>10, <1>11, <1>12, <1>13, <1>14, <1>15 DEF IInv

-----------------------------------------------------------------------------
(* The specification. *)

(* Initially nothing is under way. *)
LEMMA InitIInv ==
  ASSUME ServingInit
  PROVE  IInv
<1>1. /\ outputRank \in BOOLEAN /\ pc = "idle" /\ step = NoStep /\ changed = FALSE
      /\ batch = << >> /\ ids = << >> /\ last = NoOutput /\ outputs = << >>
      /\ host = [r \in Req |-> << >>] /\ outIds = [r \in Req |-> << >>]
      /\ status = [r \in Req |-> "idle"] /\ gen = [r \in Req |-> 0]
      /\ computed = [r \in Req |-> 0] /\ outs = [r \in Req |-> 0]
      /\ known = [r \in Req |-> << >>] /\ finished = {} /\ queue = << >>
  BY AsyncRankAssumption DEF ServingInit, Init
<1>2. /\ << >> \in Seq(AnyToken) /\ << >> \in Seq(Req) /\ << >> \in Seq(AnyStep)
      /\ << >> \in Seq(AnyOutput) /\ << >> \in Seq(Seq(AnyToken))
      /\ Len(<< >>) = 0 /\ DOMAIN << >> = {}
  OBVIOUS
<1>3. NoOutput \in AnyOutput /\ NoOutput.reqs = << >> /\ NoOutput.partial = {}
      /\ GenuineOutput(NoOutput)
  BY <1>2 DEF NoOutput, AnyOutput, GenuineOutput, InBatch
<1>4. InBatch(<< >>) = {}
  BY <1>2 DEF InBatch
<1>5. Types
  <2>1. host \in [Req -> Seq(AnyToken)] /\ outIds \in [Req -> Seq(AnyToken)]
        /\ known \in [Req -> Seq(AnyToken)]
    BY <1>1, <1>2
  <2>2. \A r \in InBatch(batch) : Len(host[r]) = PromptLen + Len(outIds[r])
    BY <1>1, <1>4
  <2>3. status \in [Req -> Statuses] /\ gen \in [Req -> 0 .. MaxGen]
        /\ computed \in [Req -> Nat] /\ outs \in [Req -> Nat]
    BY <1>1, AsyncBoundAssumption DEF Statuses
  <2> QED BY <1>1, <1>2, <1>3, <2>1, <2>2, <2>3, NoStepLemma DEF Types
<1>6. Ahead1 = NoStep /\ Ahead2 = NoStep
  BY <1>1, <1>2 DEF Ahead1, Ahead2
<1>7. ASSUME NEW r \in Req
      PROVE  /\ Output(1, r) = Nothing /\ Output(2, r) = Nothing
             /\ Samples(Ahead1, r) = Nothing /\ Samples(Ahead2, r) = Nothing
             /\ Pos2(r) = Nothing /\ Stay2(r) = Nothing
  <2>1. Output(1, r) = Nothing /\ Output(2, r) = Nothing
    BY <1>1, <1>2 DEF Output
  <2>2. Pos0(r) = Nothing /\ Stay0(r) = Nothing
    BY <1>1, <1>3, <1>4 DEF Pos0, Stay0, Sampled
  <2>3. Pos1(r) = Nothing /\ Stay1(r) = Nothing
    BY <1>6, <2>2, NoStepLemma DEF Pos1, Stay1, NextPos, NextStay
  <2> QED BY <1>6, <2>1, <2>3, NoStepLemma DEF Pos2, Stay2, NextPos, NextStay
<1>8. Depth
  BY <1>1, <1>2 DEF Depth, UnderWay
<1>9. Chain
  BY <1>1, <1>7 DEF Chain, ChunkAlone, Nothing, Chunk
<1>10. StepsFit
  BY <1>6, NoStepLemma DEF StepsFit
<1>11. Latest
  BY <1>1, <1>7 DEF Latest, Nothing
<1>12. Objects
  BY <1>1, <1>2, <1>3 DEF Objects
<1>13. RowsReady
  BY <1>1, <1>3, <1>4 DEF RowsReady
<1>14. StreamGenuine
  BY <1>1, NothingKnown DEF StreamGenuine
<1> QED BY <1>5, <1>8, <1>9, <1>10, <1>11, <1>12, <1>13, <1>14 DEF IInv

(* Stuttering. *)
LEMMA StutterStep ==
  ASSUME IInv, UNCHANGED servingVars
  PROVE  IInv'
<1>1. /\ UNCHANGED <<runnerVars, queue>> /\ SameRequests /\ finished' = finished
  BY DEF servingVars, schedulerVars, SameRequests
<1>2. Types /\ Chain /\ StepsFit /\ Latest /\ StreamGenuine
  BY DEF IInv
<1>3. SamePipeline /\ Depth' /\ Objects' /\ RowsReady'
  BY <1>1, ClientKeeps
<1>4. Chain' /\ StepsFit' /\ Latest'
  BY <1>1, <1>2, <1>3, SamePipelineKeeps
<1>5. Types'
  BY <1>1, <1>2 DEF Types, runnerVars, SameRequests, InBatch
<1>6. StreamGenuine'
  BY <1>1, <1>2 DEF StreamGenuine, SameRequests
<1> QED BY <1>3, <1>4, <1>5, <1>6 DEF IInv

(* Every step keeps the invariant. *)
LEMMA NextStep ==
  ASSUME UniqueIdsTwoAhead, IInv, [ServingNext]_servingVars
  PROVE  IInv'
<1>1. CASE UNCHANGED servingVars
  BY <1>1, StutterStep
<1>2. ASSUME NEW r \in Req, Submit(r) \/ Finish(r)  PROVE IInv'
  BY <1>2, SubmitStep, FinishStep
<1>3. CASE Schedule
  BY <1>3, SchedulePrefillStep, ScheduleDecodeStep DEF Schedule
<1>4. CASE Execute
  <2>1. CASE /\ queue # << >> /\ Begin(Head(queue)) /\ queue' = Tail(queue)
             /\ UNCHANGED <<status, gen, computed, outs, known, finished>>
    BY <2>1, BeginStep
  <2>2. CASE UpdateStates /\ UNCHANGED schedulerVars
    BY <2>2, UpdateStep
  <2>3. CASE Prepare /\ UNCHANGED schedulerVars
    BY <2>3, PrepareStep
  <2>4. CASE Swap /\ UNCHANGED schedulerVars
    BY <2>4, SwapStep
  <2>5. CASE SampleTokens /\ UNCHANGED schedulerVars
    BY <2>5, SampleStep
  <2> QED BY <1>4, <2>1, <2>2, <2>3, <2>4, <2>5 DEF Execute
<1>5. CASE Receive
  BY <1>5, ReceiveStep
<1> QED BY <1>1, <1>2, <1>3, <1>4, <1>5 DEF ServingNext

(* The invariant. *)
LEMMA InvariantHolds == UniqueIdsTwoAhead => (ServingSpec => []IInv)
<1> SUFFICES ASSUME UniqueIdsTwoAhead PROVE ServingSpec => []IInv
  OBVIOUS
<1>1. ServingInit => IInv
  BY InitIInv
<1>2. IInv /\ [ServingNext]_servingVars => IInv'
  BY NextStep
<1> QED BY <1>1, <1>2, PTL DEF ServingSpec

(* The stream a client receives is its own continuation, each token once,  *)
(* in order and sampled from the request's exact history, on every rank,   *)
(* while ids are not used twice and at most two steps are under way.       *)
THEOREM AlwaysStreamGenuine == UniqueIdsTwoAhead => (ServingSpec => []StreamGenuine)
<1>1. IInv => StreamGenuine
  BY DEF IInv
<1> QED BY <1>1, InvariantHolds, PTL

-----------------------------------------------------------------------------
(* Host rows on the output rank.  A row lacks at most the tokens of the    *)
(* outputs that have not become lists, and a step never brings back a row  *)
(* whose token it decodes from is still in such an output.                 *)

(* The requests the batch holds after the step before so. *)
NextIn(x, so, r) == IF so = NoStep THEN x ELSE r \in Scheduled(so)
In0(r) == r \in InBatch(batch)
In1(r) == NextIn(In0(r), Ahead1, r)
In2(r) == NextIn(In1(r), Ahead2, r)

(* A row that a step decodes from is in the batch already. *)
Carried ==
  /\ \A r \in finished : status[r] = "idle" /\ gen[r] = 1
  /\ \A i \in DOMAIN queue : queue[i] # NoStep
  /\ pc # "idle" => step # NoStep
  /\ \A r \in Scheduled(Ahead1) :
       /\ r \notin Ahead1.finished
       /\ pc \in {"idle", "update"} /\ Pos0(r) >= 0 => In0(r)
  /\ \A r \in Scheduled(Ahead2) : r \notin Ahead2.finished /\ (Pos1(r) >= 0 => In1(r))
  /\ \A r \in Req : status[r] # "idle" /\ outs[r] < MaxOut /\ Pos2(r) >= 0 => In2(r)

(* Between steps the step executed last tells what was sampled last. *)
StepSampled ==
  pc = "idle" =>
    \A r \in InBatch(batch) : Samples(step, r) = Pos0(r) /\ step.gen[r] = 1

(* The tokens of a request that the last output, and the one before it     *)
(* while both are under way, have yet to bring to its row.                 *)
Pending(o, r) == IF ~o.list /\ Sampled(o, r) >= 0 THEN 1 ELSE 0
Earlier(r) == IF Len(outputs) = 2 THEN Pending(outputs[1], r) ELSE 0

(* The row of a request lacks exactly those, and an output under way       *)
(* before the last one is a list no later than it.                         *)
HostRows ==
  /\ last.list \/ outputs # << >>
  /\ Len(outputs) = 2 => ~last.list
  /\ \A r \in InBatch(batch) :
       /\ host[r] = History(r, 1, Len(host[r]))
       /\ Pos0(r) >= 0 => Len(host[r]) + Pending(last, r) + Earlier(r) = Pos0(r) + 1
       /\ Len(outputs) = 2 /\ Sampled(outputs[1], r) >= 0 =>
            Pos0(r) = Sampled(outputs[1], r) + 1

(* The inductive invariant of the host rows. *)
HInv == IInv /\ Carried /\ StepSampled /\ (outputRank => HostRows)

(* No view changes but that of the batch while a step runs. *)
LEMMA CarriedSame ==
  ASSUME Carried, Ahead1' = Ahead1, Ahead2' = Ahead2,
         \A r \in Req : Pos0(r)' = Pos0(r),
         \/ \A r \in Req : In0(r)' = In0(r)
         \/ Ahead1 # NoStep /\ pc' \notin {"idle", "update"},
         pc' \in {"idle", "update"} => pc \in {"idle", "update"},
         \A i \in DOMAIN queue' : queue'[i] # NoStep,
         pc' # "idle" => step' # NoStep,
         \A r \in finished' : status'[r] = "idle" /\ gen'[r] = 1,
         \A r \in Req : /\ status'[r] # "idle" /\ outs'[r] < MaxOut /\ Pos2(r) >= 0
                        => status[r] # "idle" /\ outs[r] < MaxOut
  PROVE  Carried'
<1>1. ASSUME NEW r \in Req
      PROVE  /\ Pos1(r)' = Pos1(r) /\ Pos2(r)' = Pos2(r)
             /\ In1(r)' = In1(r) /\ In2(r)' = In2(r)
  <2>1. Pos1(r)' = Pos1(r)
    BY DEF Pos1
  <2>2. Pos2(r)' = Pos2(r)
    BY <2>1 DEF Pos2
  <2>3. In1(r)' = In1(r)
    BY DEF In1, NextIn
  <2>4. In2(r)' = In2(r)
    BY <2>3 DEF In2
  <2> QED BY <2>1, <2>2, <2>3, <2>4
<1>2. Scheduled(Ahead1) \subseteq Req /\ Scheduled(Ahead2) \subseteq Req
  BY DEF Scheduled
<1>3. ASSUME NEW r \in Scheduled(Ahead1')
      PROVE  /\ r \notin Ahead1'.finished
             /\ pc' \in {"idle", "update"} /\ Pos0(r)' >= 0 => In0(r)'
  BY <1>2, <1>3 DEF Carried
<1>4. ASSUME NEW r \in Scheduled(Ahead2')
      PROVE  r \notin Ahead2'.finished /\ (Pos1(r)' >= 0 => In1(r)')
  BY <1>1, <1>2, <1>4 DEF Carried
<1>5. ASSUME NEW r \in Req, status'[r] # "idle", outs'[r] < MaxOut, Pos2(r)' >= 0
      PROVE  In2(r)'
  BY <1>1, <1>5 DEF Carried
<1> QED BY <1>3, <1>4, <1>5 DEF Carried

(* The step leaves the pipeline, and its batch stays. *)
LEMMA CarriedConsumed ==
  ASSUME Carried, Ahead1 = step, pc # "idle",
         Ahead1' = Ahead2, Ahead2' = NoStep, \A r \in Req : Pos0(r)' = Pos1(r),
         \A r \in Req : In0(r)' = (r \in Scheduled(step)),
         pc' = "idle", UNCHANGED <<status, gen, outs, finished, queue>>
  PROVE  Carried'
<1>1. step # NoStep
  BY DEF Carried
<1>2. Ahead1' = Ahead2 /\ Ahead2' = NoStep
  OBVIOUS
<1>3. Scheduled(NoStep) = {} /\ \A r \in Req : Samples(NoStep, r) = Nothing
  BY NoStepLemma
<1>4. ASSUME NEW r \in Req
      PROVE  /\ Pos0(r)' = Pos1(r) /\ Pos1(r)' = Pos2(r) /\ Pos2(r)' = Pos2(r)
             /\ In0(r)' = In1(r) /\ In1(r)' = In2(r) /\ In2(r)' = In2(r)
  <2>1. Pos0(r)' = Pos1(r)
    OBVIOUS
  <2>2. Pos1(r)' = Pos2(r)
    BY <1>2, <2>1 DEF Pos1, Pos2
  <2>3. Pos2(r)' = Pos1(r)'
    BY <1>2, <1>3 DEF Pos2, NextPos
  <2>4. In0(r)' = In1(r)
    BY <1>1 DEF In1, NextIn
  <2>5. In1(r)' = In2(r)
    BY <1>2, <2>4 DEF In1, In2
  <2>6. In2(r)' = In1(r)'
    BY <1>2 DEF In2, NextIn
  <2> QED BY <2>1, <2>2, <2>3, <2>4, <2>5, <2>6
<1>5. Scheduled(Ahead2) \subseteq Req
  BY DEF Scheduled
<1>6. ASSUME NEW r \in Scheduled(Ahead1')
      PROVE  r \notin Ahead1'.finished /\ (Pos0(r)' >= 0 => In0(r)')
  BY <1>2, <1>4, <1>5, <1>6 DEF Carried
<1>7. Scheduled(Ahead2') = {}
  BY <1>2, <1>3
<1>8. ASSUME NEW r \in Req, status'[r] # "idle", outs'[r] < MaxOut, Pos2(r)' >= 0
      PROVE  In2(r)'
  BY <1>4, <1>8 DEF Carried
<1>9. /\ \A r \in finished' : status'[r] = "idle" /\ gen'[r] = 1
      /\ \A i \in DOMAIN queue' : queue'[i] # NoStep
  BY DEF Carried
<1> QED BY <1>6, <1>7, <1>8, <1>9 DEF Carried

(* A scheduled step is not empty, and decodes rows that are still there. *)
LEMMA CarriedEnqueue ==
  ASSUME UniqueIdsTwoAhead, IInv, Carried, UnderWay < QueueDepth,
         NEW so \in AnyStep, so.finished = finished,
         queue' = Append(queue, so), finished' = {}, UNCHANGED <<runnerVars, gen>>,
         Scheduled(so) # {} \/ finished # {},
         \A r \in Scheduled(so) : status[r] # "idle" /\ outs[r] < MaxOut,
         \A r \in Req : status'[r] # "idle" <=> status[r] # "idle",
         Scheduled(so) = {} =>
           \A r \in Req : status[r] # "idle" /\ Pos2(r) >= 0 => ~(outs'[r] < MaxOut)
  PROVE  Carried'
<1>1. Types /\ Objects
  BY DEF IInv
<1>2. UNCHANGED runnerVars
  OBVIOUS
<1>3. /\ \/ Ahead1 = NoStep /\ Ahead2 = NoStep /\ Ahead1' = so /\ Ahead2' = NoStep
         \/ Ahead2 = NoStep /\ Ahead1' = Ahead1 /\ Ahead2' = so
      /\ \A r \in Req : Pos0(r)' = Pos0(r)
  BY <1>1, <1>2, EnqueuePipeline
<1>4. Scheduled(NoStep) = {} /\ NoStep.finished = {}
  BY NoStepLemma DEF NoStep
<1>5. so # NoStep
  BY <1>4
<1>6. pc' = pc /\ step' = step /\ \A r \in Req : In0(r)' = In0(r)
  BY DEF runnerVars, In0, InBatch
<1>7. \A x, r : NextPos(x, NoStep, r) = x /\ NextIn(x, NoStep, r) = x
  BY <1>4 DEF NextPos, NextIn
<1>8. ASSUME NEW r \in Req
      PROVE  /\ Pos2(r)' = NextPos(Pos2(r), so, r) /\ In2(r)' = (r \in Scheduled(so))
             /\ Ahead1 = NoStep /\ Ahead2 = NoStep => Pos2(r) = Pos0(r) /\ In2(r) = In0(r)
             /\ Ahead2 = NoStep => Pos2(r) = Pos1(r) /\ In2(r) = In1(r)
             /\ Ahead1' = Ahead1 => Pos1(r)' = Pos1(r) /\ In1(r)' = In1(r)
  <2>1. Ahead1 = NoStep /\ Ahead2 = NoStep => Pos2(r) = Pos0(r) /\ In2(r) = In0(r)
    BY <1>7 DEF Pos1, Pos2, In1, In2
  <2>2. Ahead2 = NoStep => Pos2(r) = Pos1(r) /\ In2(r) = In1(r)
    BY <1>7 DEF Pos2, In2
  <2>3. Ahead1' = Ahead1 => Pos1(r)' = Pos1(r) /\ In1(r)' = In1(r)
    BY <1>3, <1>6 DEF Pos1, In1
  <2>4. CASE Ahead1 = NoStep /\ Ahead2 = NoStep /\ Ahead1' = so /\ Ahead2' = NoStep
    <3>1. Pos1(r)' = NextPos(Pos2(r), so, r) /\ In1(r)' = (r \in Scheduled(so))
      BY <1>3, <1>5, <2>1, <2>4 DEF Pos1, In1, NextIn
    <3>2. Pos2(r)' = Pos1(r)' /\ In2(r)' = In1(r)'
      BY <1>7, <2>4 DEF Pos2, In2
    <3> QED BY <2>1, <2>2, <2>3, <3>1, <3>2
  <2>5. CASE Ahead2 = NoStep /\ Ahead1' = Ahead1 /\ Ahead2' = so
    <3>1. Pos2(r)' = NextPos(Pos2(r), so, r) /\ In2(r)' = (r \in Scheduled(so))
      BY <1>5, <2>2, <2>3, <2>5 DEF Pos2, In2, NextIn
    <3> QED BY <2>1, <2>2, <2>3, <3>1
  <2> QED BY <1>3, <2>4, <2>5
<1>9. ASSUME NEW r \in Scheduled(so)
      PROVE  r \in Req /\ r \notin so.finished /\ (Pos2(r) >= 0 => In2(r))
  BY DEF Scheduled, Carried
<1>10. /\ \A r \in Scheduled(Ahead1') :
            /\ r \notin Ahead1'.finished
            /\ pc' \in {"idle", "update"} /\ Pos0(r)' >= 0 => In0(r)'
       /\ \A r \in Scheduled(Ahead2') : r \notin Ahead2'.finished /\ (Pos1(r)' >= 0 => In1(r)')
  <2>1. CASE Ahead1 = NoStep /\ Ahead2 = NoStep /\ Ahead1' = so /\ Ahead2' = NoStep
    BY <1>3, <1>4, <1>6, <1>8, <1>9, <2>1
  <2>2. CASE Ahead2 = NoStep /\ Ahead1' = Ahead1 /\ Ahead2' = so
    <3>1. \A r \in Scheduled(Ahead1) :
            /\ r \in Req /\ r \notin Ahead1.finished
            /\ pc \in {"idle", "update"} /\ Pos0(r) >= 0 => In0(r)
      BY DEF Carried, Scheduled
    <3>2. \A r \in Scheduled(Ahead1') :
            /\ r \notin Ahead1'.finished
            /\ pc' \in {"idle", "update"} /\ Pos0(r)' >= 0 => In0(r)'
      BY <1>3, <1>6, <2>2, <3>1
    <3>3. \A r \in Scheduled(Ahead2') :
            r \notin Ahead2'.finished /\ (Pos1(r)' >= 0 => In1(r)')
      BY <1>8, <1>9, <2>2
    <3> QED BY <3>2, <3>3
  <2> QED BY <1>3, <2>1, <2>2
<1>11. \A i \in DOMAIN queue' : queue'[i] # NoStep
  <2> PICK q \in Seq(AnyStep) : q = queue
    BY <1>1 DEF Types
  <2>1. \A i \in DOMAIN q : q[i] # NoStep
    BY DEF Carried
  <2> PICK n \in Nat : n = Len(q)
    OBVIOUS
  <2>2. /\ DOMAIN q = 1 .. n /\ DOMAIN queue' = 1 .. n + 1
        /\ \A i \in 1 .. n : queue'[i] = q[i]
        /\ queue'[n + 1] = so
    OBVIOUS
  <2>3. \A i \in 1 .. n + 1 : i \in 1 .. n \/ i = n + 1
    OBVIOUS
  <2> QED BY <1>5, <2>1, <2>2, <2>3
<1>12. ASSUME NEW r \in Req, status'[r] # "idle", outs'[r] < MaxOut, Pos2(r)' >= 0
       PROVE  In2(r)'
  <2>1. CASE Scheduled(so) = {}
    BY <1>8, <1>12, <2>1 DEF NextPos
  <2>2. CASE Scheduled(so) # {}
    <3>1. Pos2(r)' = Samples(so, r)
      BY <1>8, <2>2 DEF NextPos
    <3>2. r \in Scheduled(so)
      BY <1>12, <3>1 DEF Samples, Nothing
    <3> QED BY <1>8, <3>2
  <2> QED BY <2>1, <2>2
<1>13. pc' # "idle" => step' # NoStep
  BY <1>6 DEF Carried
<1> QED BY <1>10, <1>11, <1>12, <1>13 DEF Carried

-----------------------------------------------------------------------------
(* The rows of the output rank. *)

(* A history goes on by one token. *)
LEMMA HistoryGrows ==
  ASSUME NEW r \in Req, NEW n \in Nat
  PROVE  History(r, 1, n) \o << OutputTok(r, n) >> = History(r, 1, n + 1)
<1> PICK h : h = History(r, 1, n)
  OBVIOUS
<1> PICK f : f = History(r, 1, n + 1)
  OBVIOUS
<1> PICK t : t = OutputTok(r, n)
  OBVIOUS
<1>1. /\ h \in Seq(AnyToken) /\ Len(h) = n
      /\ \A i \in 1 .. n : h[i] = [req |-> r, gen |-> 1, pos |-> i - 1]
  BY HistoryLemma
<1>2. /\ f \in Seq(AnyToken) /\ Len(f) = n + 1
      /\ \A i \in 1 .. n + 1 : f[i] = [req |-> r, gen |-> 1, pos |-> i - 1]
  <2>1. n + 1 \in Nat
    OBVIOUS
  <2> QED BY <2>1, HistoryLemma
<1>3. t \in AnyToken
  BY DEF OutputTok, AnyToken
<1>4. h \o << t >> \in Seq(AnyToken) /\ Len(h \o << t >>) = n + 1
  BY <1>1, <1>3
<1>5. ASSUME NEW i \in 1 .. n + 1  PROVE (h \o << t >>)[i] = f[i]
  <2>0. i \in 1 .. n \/ i = n + 1
    OBVIOUS
  <2>1. CASE i \in 1 .. n
    <3>1. (h \o << t >>)[i] = h[i]
      BY <2>1, <1>1, <1>3
    <3>2. f[i] = [req |-> r, gen |-> 1, pos |-> i - 1]
      BY <1>2
    <3>3. h[i] = [req |-> r, gen |-> 1, pos |-> i - 1]
      BY <2>1, <1>1
    <3> QED BY <3>1, <3>2, <3>3
  <2>2. CASE i = n + 1
    <3>1. (h \o << t >>)[i] = t
      BY <2>2, <1>1, <1>3
    <3>2. f[i] = t
      <4>1. i - 1 = n
        BY <2>2
      <4> QED BY <4>1, <1>2 DEF OutputTok
    <3> QED BY <3>1, <3>2
  <2> QED BY <2>0, <2>1, <2>2
<1> QED BY <1>2, <1>4, <1>5, SameElements

(* Materializing an output completes the rows by what was pending in it. *)
LEMMA RowGrows ==
  ASSUME Types, NEW o \in AnyOutput, GenuineOutput(o), NEW r \in InBatch(batch),
         host[r] = History(r, 1, Len(host[r])),
         Pending(o, r) = 1 => Sampled(o, r) = Len(host[r])
  PROVE  /\ HostAfter(o)[r] = History(r, 1, Len(HostAfter(o)[r]))
         /\ Len(HostAfter(o)[r]) = Len(host[r]) + Pending(o, r)
<1>1. r \in Req
  BY DEF Types, InBatch
<1> PICK h \in Seq(AnyToken) : h = host[r]
  BY <1>1 DEF Types
<1> PICK n \in Nat : n = Len(h)
  OBVIOUS
<1>2. SampledOf(o, r) =
        IF Sampled(o, r) >= 0 THEN << OutputTok(r, Sampled(o, r)) >> ELSE << >>
  BY <1>1, SampledOfLemma
<1>3. Written(o, r) = SampledOf(o, r)
  BY DEF Written
<1>4. Sampled(o, r) >= 0 => ~AllPartial(o)
  <2>1. Sampled(o, r) >= 0 => r \in InBatch(o.reqs) \ o.partial
    BY <1>1, SampledLemma
  <2> QED BY <2>1 DEF AllPartial
<1>5. h \o << >> = h
  OBVIOUS
<1>6. CASE Pending(o, r) = 1
  <2>1. ~o.list /\ Sampled(o, r) >= 0
    BY <1>6 DEF Pending
  <2>2. Sampled(o, r) = n
    BY <1>6
  <2>3. HostAfter(o)[r] = h \o << OutputTok(r, n) >>
    BY <1>1, <1>2, <1>3, <1>4, <2>1, <2>2 DEF HostAfter, Effective
  <2>4. HostAfter(o)[r] = History(r, 1, n + 1)
    BY <1>1, <2>3, HistoryGrows
  <2>5. Len(History(r, 1, n + 1)) = n + 1
    <3>1. n + 1 \in Nat
      OBVIOUS
    <3> QED BY <1>1, <3>1, HistoryLemma
  <2> QED BY <1>6, <2>4, <2>5
<1>7. CASE Pending(o, r) # 1
  <2>1. Pending(o, r) = 0 /\ (o.list \/ ~(Sampled(o, r) >= 0))
    BY <1>7 DEF Pending
  <2>2. HostAfter(o)[r] = h
    BY <1>1, <1>2, <1>3, <1>5, <2>1 DEF HostAfter, Effective
  <2> QED BY <2>1, <2>2
<1> QED BY <1>6, <1>7

(* The main thread materializes only an output that none is pending before. *)
LEMMA MaterializeRows ==
  ASSUME Types, Objects, HostRows, Len(outputs) <= 1, MaterializeLast, batch' = batch
  PROVE  HostRows'
<1>1. last \in AnyOutput /\ GenuineOutput(last) /\ Len(outputs) \in Nat
  BY DEF Types, Objects
<1>2. Kept
  BY MaterializeKeeps
<1>3. \A r \in Req : Pos0(r)' = Pos0(r)
  BY <1>2, KeptPipeline
<1>4. Len(outputs') = Len(outputs) /\ Len(outputs) # 2
  <2>1. Len(outputs') = Len(outputs)
    BY <1>2 DEF Kept
  <2>2. Len(outputs) # 2
    BY <1>1
  <2> QED BY <2>1, <2>2
<1>5. last'.list = TRUE
  BY <1>1, ListLemma DEF MaterializeLast
<1>6. InBatch(batch)' = InBatch(batch) /\ InBatch(batch) \subseteq Req
  BY DEF InBatch, Types
<1>7. ASSUME NEW r \in InBatch(batch)
      PROVE  /\ host'[r] = History(r, 1, Len(host'[r]))
             /\ Pos0(r)' >= 0 =>
                  Len(host'[r]) + Pending(last', r) + Earlier(r)' = Pos0(r)' + 1
  <2>1. r \in Req /\ host[r] = History(r, 1, Len(host[r]))
    BY <1>6 DEF HostRows
  <2>2. Pos0(r) >= 0 => Len(host[r]) + Pending(last, r) + Earlier(r) = Pos0(r) + 1
    BY DEF HostRows
  <2>3. Earlier(r) = 0 /\ Earlier(r)' = 0 /\ Pending(last', r) = 0
    BY <1>4, <1>5 DEF Earlier, Pending
  <2> PICK n \in Nat : n = Len(host[r])
    BY <2>1 DEF Types
  <2> PICK x \in Int : x = Pos0(r)
    BY <2>1, PipelineType
  <2> PICK y \in {0, 1} : y = Pending(last, r)
    BY DEF Pending
  <2>4. Pending(last, r) = 1 => x >= 0
    BY DEF Pending, Pos0
  <2>5. y = 1 => x = n
    BY <2>2, <2>3, <2>4
  <2>6. y = 1 => Sampled(last, r) = Len(host[r])
    BY <2>5 DEF Pos0
  <2>7. /\ HostAfter(last)[r] = History(r, 1, Len(HostAfter(last)[r]))
        /\ Len(HostAfter(last)[r]) = n + y
    BY <1>1, <2>1, <2>6, RowGrows
  <2>8. host' = HostAfter(last)
    BY DEF MaterializeLast
  <2>9. x >= 0 => n + y = x + 1
    BY <2>2, <2>3
  <2>10. Pos0(r)' = x
    BY <1>3, <2>1
  <2> QED BY <2>3, <2>7, <2>8, <2>9, <2>10
<1> QED BY <1>4, <1>5, <1>6, <1>7 DEF HostRows

(* Nothing happens to rows and outputs. *)
LEMMA RowsUnchanged ==
  ASSUME HostRows, UNCHANGED <<host, batch, last, outputs>>
  PROVE  HostRows'
BY DEF HostRows, InBatch, Pos0, Pending, Earlier

(* The output thread takes the oldest output. *)
LEMMA TakeRows ==
  ASSUME Types, Objects, Depth, HostRows, TakeOutput, outputRank
  PROVE  HostRows'
<1> PICK s \in Seq(AnyOutput) : s = outputs
  BY DEF Types
<1> PICK n \in Nat : n = Len(s)
  OBVIOUS
<1>1. outputs # << >> /\ outputs' = Tail(s) /\ n >= 1
  BY DEF TakeOutput
<1>2. n <= 2
  BY DEF Depth, UnderWay, Types
<1>3. /\ Tail(s) \in Seq(AnyOutput) /\ Len(Tail(s)) = n - 1
      /\ Head(s) = s[1] /\ s[1] \in AnyOutput
  BY <1>1
<1> PICK o \in AnyOutput : o = s[1]
  BY <1>3
<1>4. GenuineOutput(o) /\ last \in AnyOutput /\ GenuineOutput(last)
  <2>1. 1 \in DOMAIN s
    BY <1>1
  <2> QED BY <2>1 DEF Objects, Types
<1>5. /\ host' = HostAfter(o)
      /\ last' = (IF n = 1 THEN [last EXCEPT !.list = TRUE] ELSE last)
      /\ batch' = batch
  BY <1>3 DEF TakeOutput
<1>6. \A r \in Req : Pos0(r)' = Pos0(r)
  BY <1>4, <1>5, ListLemma DEF Pos0
<1>7. InBatch(batch)' = InBatch(batch) /\ InBatch(batch) \subseteq Req
  BY <1>5 DEF InBatch, Types
<1>8. Len(outputs') # 2 /\ (n = 2 => outputs' # << >>) /\ (n = 1 => last'.list = TRUE)
  <2>1. n = 2 => Len(outputs') = 1
    BY <1>1, <1>3
  <2>2. Len(outputs') # 2
    BY <1>1, <1>2, <1>3
  <2>3. n = 1 => last'.list = TRUE
    BY <1>4, <1>5, ListLemma
  <2>4. n = 2 => outputs' # << >>
    <3>1. Len(<< >>) # 1
      OBVIOUS
    <3> QED BY <2>1, <3>1
  <2> QED BY <2>2, <2>3, <2>4
<1>9. ASSUME NEW r \in InBatch(batch)
      PROVE  /\ host'[r] = History(r, 1, Len(host'[r]))
             /\ Pos0(r)' >= 0 =>
                  Len(host'[r]) + Pending(last', r) + Earlier(r)' = Pos0(r)' + 1
  <2>1. r \in Req /\ host[r] = History(r, 1, Len(host[r]))
    BY <1>7 DEF HostRows
  <2> PICK m \in Nat : m = Len(host[r])
    BY <2>1 DEF Types
  <2> PICK x \in Int : x = Pos0(r)
    BY <2>1, PipelineType
  <2> PICK y \in {0, 1} : y = Pending(last, r)
    BY DEF Pending
  <2> PICK z \in {0, 1} : z = Pending(o, r)
    BY DEF Pending
  <2>2. Pos0(r)' = x /\ Earlier(r)' = 0
    BY <1>6, <1>8, <2>1 DEF Earlier
  <2>3. x >= 0 => m + y + Earlier(r) = x + 1
    BY DEF HostRows
  <2>4. z = 1 => Sampled(o, r) >= 0
    BY DEF Pending
  <2>5. y = 1 => x >= 0
    BY DEF Pending, Pos0
  <2>6. CASE n = 1
    <3>1. o = last /\ z = y /\ Earlier(r) = 0
      BY <1>1, <2>6 DEF Objects, Earlier
    <3>2. z = 1 => x = m
      BY <2>3, <2>5, <3>1
    <3>3. z = 1 => Sampled(o, r) = m
      BY <3>1, <3>2 DEF Pos0
    <3>4. /\ HostAfter(o)[r] = History(r, 1, Len(HostAfter(o)[r]))
          /\ Len(HostAfter(o)[r]) = m + z
      BY <1>4, <2>1, <3>3, RowGrows
    <3>5. Pending(last', r) = 0
      BY <1>8, <2>6 DEF Pending
    <3>6. x >= 0 => m + z = x + 1
      BY <2>3, <3>1
    <3> QED BY <1>5, <2>2, <3>4, <3>5, <3>6
  <2>7. CASE n = 2
    <3>1. Earlier(r) = z /\ last' = last /\ Pending(last', r) = y /\ last.list = FALSE
      <4>1. ~last.list /\ last.list \in BOOLEAN
        BY <1>4, <2>7 DEF HostRows, AnyOutput
      <4> QED BY <1>5, <2>7, <4>1 DEF Earlier
    <3>2. Sampled(o, r) \in Int /\ (Sampled(o, r) >= 0 => x = Sampled(o, r) + 1)
      BY <1>4, <2>1, <2>7, SampledLemma DEF HostRows
    <3>3. x >= 0 => y = 1
      BY <3>1 DEF Pending, Pos0
    <3>4. z = 1 => Sampled(o, r) = m
      BY <2>3, <2>4, <3>1, <3>2, <3>3
    <3>5. /\ HostAfter(o)[r] = History(r, 1, Len(HostAfter(o)[r]))
          /\ Len(HostAfter(o)[r]) = m + z
      BY <1>4, <2>1, <3>4, RowGrows
    <3>6. x >= 0 => m + z + y = x + 1
      BY <2>3, <3>1
    <3> QED BY <1>5, <2>2, <3>1, <3>5, <3>6
  <2> QED BY <1>1, <1>2, <2>6, <2>7
<1>10. last'.list \/ outputs' # << >>
  BY <1>1, <1>2, <1>8
<1> QED BY <1>7, <1>8, <1>9, <1>10 DEF HostRows

(* A count that leaves a token pending is no larger. *)
LEMMA NoMore ==
  ASSUME NEW p \in Nat, NEW u \in Nat, NEW m \in Nat, NEW y \in {0, 1},
         p + u + y = p + m - 1 + 1
  PROVE  u <= m
OBVIOUS

(* A row of h tokens, y of them pending, is as long as the step that ends  *)
(* at e and samples at w, whether another sampled before it, at x, or not. *)
LEMMA RowLags ==
  ASSUME NEW h \in Nat, NEW e \in Nat, NEW y \in {0, 1}, NEW x \in Int, NEW w \in Int,
         w >= 0 => w = e,
         x >= 0 => h + y = x + 1,
         x >= 0 => e = x + 1 /\ w >= 0,
         x < 0 => y = 0,
         x < 0 /\ w >= 0 => h = e
  PROVE  w >= 0 => h + 1 + y = w + 1
<1> SUFFICES ASSUME w >= 0 PROVE h + 1 + y = w + 1
  OBVIOUS
<1>1. CASE x >= 0
  BY <1>1
<1>2. CASE x < 0
  BY <1>2
<1> QED BY <1>1, <1>2

(* Where a step that fits ends, if it samples. *)
LEMMA FitsSampledEnd ==
  ASSUME NEW so \in AnyStep, NEW r \in Req, NEW pos \in Int, NEW stay,
         Fits(pos, stay, so, r)
  PROVE  /\ pos >= 0 => End(so, r) = pos + 1 /\ End(so, r) >= PromptLen
         /\ End(so, r) >= PromptLen => End(so, r) = PromptLen + so.outs[r]
<1> PICK c \in Nat : c = so.computed[r]
  BY StepFields
<1> PICK m \in Nat : m = so.outs[r]
  BY StepFields
<1> PICK t \in Nat : t = so.toks[r]
  BY StepFields
<1> PICK p \in Nat : p = PromptLen
  BY AsyncBoundAssumption
<1>1. End(so, r) = c + t
  BY DEF End
<1>2. CASE DecodeFits(pos, so, r)
  <2>1. t = 1 /\ m >= 1 /\ c = p + m - 1 /\ (pos >= 0 => pos = c)
    BY <1>2 DEF DecodeFits
  <2> QED BY <1>1, <2>1
<1>3. CASE PrefillFits(pos, stay, so, r)
  <2>1. pos < 0 /\ (c + t >= p => c + t = p + m)
    BY <1>1, <1>3 DEF PrefillFits
  <2> QED BY <1>1, <2>1
<1> QED BY <1>2, <1>3 DEF Fits

(* The length of a history. *)
LEMMA HistoryLength ==
  ASSUME NEW r \in Req, NEW n \in Nat, NEW m \in Nat
  PROVE  Len(History(r, 1, n + m)) = n + m
<1>1. n + m \in Nat /\ 1 \in Nat
  OBVIOUS
<1> QED BY <1>1, HistoryLemma

(* _update_states brings rows back, and trims none that is still complete  *)
(* but for tokens under way.                                               *)
LEMMA UpdateRows ==
  ASSUME IInv, Carried, HostRows, UpdateStates, UNCHANGED schedulerVars
  PROVE  HostRows'
<1>1. Types /\ Objects /\ StepsFit /\ Depth
  BY DEF IInv
<1>2. /\ pc = "update" /\ step' = step
      /\ InBatch(batch)' = Scheduled(step)
      /\ \A r \in Req : Pos0(r)' = Pos0(r)
      /\ \A r \in Req : host'[r] = UpdatedHost(step, r)
  BY UpdateFacts
<1>3. last' = last /\ outputs' = outputs
  BY DEF UpdateStates
<1>4. Len(outputs) # 2
  <2>1. Len(outputs) \in Nat /\ Len(queue) \in Nat
    BY <1>1 DEF Types
  <2> QED BY <1>1, <1>2, <2>1 DEF Depth, UnderWay
<1>5. Ahead1 = step
  BY <1>2 DEF Ahead1
<1>6. ASSUME NEW r \in Scheduled(step)
      PROVE  /\ host'[r] = History(r, 1, Len(host'[r]))
             /\ Pos0(r)' >= 0 =>
                  Len(host'[r]) + Pending(last', r) + Earlier(r)' = Pos0(r)' + 1
  <2>1. r \in Req /\ Pos0(r) \in Int
    BY <1>1, PipelineType DEF Scheduled
  <2>2. CASE Pos0(r) < 0
    <3>1. UpdatedHost(step, r) = History(r, 1, PromptLen + step.outs[r])
      BY <1>2, <2>2, UpdatedRow
    <3>2. PromptLen + step.outs[r] \in Nat
      <4>1. step \in AnyStep
        BY <1>1 DEF Types
      <4>2. step.outs[r] \in Nat
        BY <2>1, <4>1, StepFields
      <4> QED BY <4>2, AsyncBoundAssumption
    <3>3. Len(History(r, 1, PromptLen + step.outs[r])) = PromptLen + step.outs[r]
      BY <2>1, <3>2, HistoryLemma
    <3> QED BY <1>2, <2>1, <2>2, <3>1, <3>3
  <2>3. CASE Pos0(r) >= 0
    <3>1. r \in InBatch(batch) /\ r \notin step.finished
      BY <1>2, <1>5, <2>3 DEF Carried, In0
    <3>2. DecodeFits(Pos0(r), step, r)
      BY <1>1, <1>5, <2>1, <2>3 DEF StepsFit, Fits, PrefillFits
    <3>m. PICK m \in Nat : m = step.outs[r]
      BY <1>1, <2>1, StepFields DEF Types
    <3>c. PICK c \in Nat : c = step.computed[r]
      BY <1>1, <2>1, StepFields DEF Types
    <3>u. PICK u \in Nat : u = Len(outIds[r])
      BY <1>1, <2>1 DEF Types
    <3>h. PICK h \in Nat : h = Len(host[r])
      BY <1>1, <2>1 DEF Types
    <3>y. PICK y \in {0, 1} : y = Pending(last, r)
      BY DEF Pending
    <3>3. r \notin step.new /\ Pos0(r) = c /\ c = PromptLen + m - 1
      BY <2>3, <3>2, <3>m, <3>c DEF DecodeFits
    <3>4. h = PromptLen + u
      BY <1>1, <3>1, <3>u, <3>h DEF Types
    <3>5. /\ host[r] = History(r, 1, h)
          /\ h + y + Earlier(r) = Pos0(r) + 1
      BY <2>3, <3>1, <3>h, <3>y DEF HostRows
    <3>6. Earlier(r) = 0 /\ Earlier(r)' = Earlier(r) /\ Pending(last', r) = y
      BY <1>3, <1>4, <3>y DEF Earlier, Pending
    <3>7. u <= m
      <4>p. PICK p \in Nat : p = PromptLen
        BY AsyncBoundAssumption
      <4>1. h + y = c + 1
        <5>1. h + y + 0 = c + 1
          BY <3>3, <3>5, <3>6, Zenon
        <5> QED BY <3>h, <3>y, <3>c, <5>1
      <4>2. c = p + m - 1 /\ h = p + u
        BY <3>3, <3>4, <4>p, Zenon
      <4>3. p + u + y = p + m - 1 + 1
        BY <4>1, <4>2, Zenon
      <4> QED BY <3>m, <3>u, <3>y, <4>p, <4>3, NoMore
    <3>8. UpdatedHost(step, r) = host[r]
      BY <3>1, <3>3, <3>7, <3>m, <3>u DEF UpdatedHost
    <3> QED BY <1>2, <2>1, <3>h, <3>5, <3>6, <3>8
  <2> QED BY <2>1, <2>2, <2>3
<1>7. last'.list \/ outputs' # << >>
  BY <1>3 DEF HostRows
<1> QED BY <1>2, <1>3, <1>4, <1>6, <1>7 DEF HostRows

(* A row lacks the token just sampled, and the one before if it is under   *)
(* way still.                                                              *)
LEMMA SampleRows ==
  ASSUME IInv, HostRows, SampleTokens, UNCHANGED schedulerVars
  PROVE  HostRows'
<1>1. Types /\ Objects /\ StepsFit /\ Depth /\ RowsReady
  BY DEF IInv
<1>2. /\ pc = "sample" /\ outputs' = Append(outputs, last')
      /\ host' = host /\ batch' = batch /\ last'.list = FALSE
  BY DEF SampleTokens
<1>3. /\ last' \in AnyOutput
      /\ \A r \in Req : Sampled(last', r) = Samples(step, r)
  BY SampledTokens
<1> PICK n \in Nat : n = Len(outputs)
  BY <1>1 DEF Types
<1> PICK p \in Nat : p = PromptLen /\ p >= 1
  BY AsyncBoundAssumption
<1>4. n <= 1
  <2>1. Len(queue) \in Nat
    BY <1>1 DEF Types
  <2>2. Len(queue) + 1 + n <= 2
    BY <1>1, <1>2 DEF Depth, UnderWay
  <2> QED BY <2>1, <2>2
<1>5. /\ Len(outputs') = n + 1 /\ outputs' # << >>
      /\ n = 1 => outputs'[1] = last
      /\ n = 0 => outputs = << >>
      /\ Len(outputs) # 2
  <2> PICK s \in Seq(AnyOutput) : s = outputs
    BY <1>1 DEF Types
  <2>1. Append(s, last') \in Seq(AnyOutput) /\ Len(Append(s, last')) = Len(s) + 1
    BY <1>3
  <2>2. Append(s, last') # << >>
    <3>1. Len(s) + 1 # 0 /\ Len(<< >>) = 0
      OBVIOUS
    <3> QED BY <2>1, <3>1
  <2>3. ASSUME Len(s) = 1  PROVE Append(s, last')[1] = last
    <3>1. s # << >> /\ 1 \in 1 .. Len(s)
      BY <2>3
    <3>2. s[1] = last
      BY <1>1, <2>3, <3>1 DEF Objects
    <3>3. Append(s, last')[1] = s[1]
      BY <1>3, <3>1
    <3> QED BY <3>2, <3>3
  <2>4. Len(s) = 0 => s = << >>
    OBVIOUS
  <2>5. n # 2
    BY <1>4
  <2> QED BY <1>2, <2>1, <2>2, <2>3, <2>4, <2>5
<1>6. Ahead1 = step /\ InBatch(batch) = Scheduled(step) /\ InBatch(batch)' = InBatch(batch)
  BY <1>1, <1>2 DEF Ahead1, RowsReady, InBatch
<1>7. ASSUME NEW r \in InBatch(batch)
      PROVE  /\ host'[r] = History(r, 1, Len(host'[r]))
             /\ Pos0(r)' >= 0 =>
                  Len(host'[r]) + Pending(last', r) + Earlier(r)' = Pos0(r)' + 1
             /\ Len(outputs') = 2 /\ Sampled(outputs'[1], r) >= 0 =>
                  Pos0(r)' = Sampled(outputs'[1], r) + 1
  <2>1. r \in Req /\ r \in Scheduled(step) /\ step \in AnyStep
    BY <1>1, <1>6 DEF Scheduled, Types
  <2>2. Fits(Pos0(r), Stay0(r), step, r)
    BY <1>1, <1>6, <2>1 DEF StepsFit
  <2>e. PICK e \in Nat : e = End(step, r)
    BY <2>1, StepFields
  <2>c. PICK c \in Nat, m \in Nat : c = step.computed[r] /\ m = step.outs[r]
    BY <2>1, StepFields
  <2>h. PICK h \in Nat : h = Len(host[r])
    BY <1>1, <2>1 DEF Types
  <2>y. PICK y \in {0, 1} : y = Pending(last, r)
    BY DEF Pending
  <2>x. PICK x \in Int : x = Pos0(r)
    BY <1>1, <2>1, PipelineType
  <2>w. PICK w \in Int : w = Samples(step, r)
    BY <2>1, SamplesLemma
  <2>3. Pos0(r)' = w /\ Sampled(last', r) = w
    BY <1>3, <2>1, <2>w DEF Pos0
  <2>4. w >= 0 <=> e >= PromptLen
    BY <2>1, <2>e, <2>w, SamplesLemma
  <2>5. w >= 0 => w = e
    BY <2>1, <2>e, <2>w, SamplesLemma
  <2>6. Pending(last', r) = IF w >= 0 THEN 1 ELSE 0
    BY <1>2, <2>3, <2>w DEF Pending
  <2>7. Earlier(r)' = y
    <3>1. CASE n = 1
      <4>1. Len(outputs') = 2 /\ outputs'[1] = last
        BY <1>5, <3>1
      <4>2. Earlier(r)' = Pending(outputs'[1], r)
        BY <4>1 DEF Earlier
      <4> QED BY <4>1, <4>2, <2>y
    <3>2. CASE n = 0
      <4>1. Len(outputs') # 2 /\ outputs = << >>
        <5>1. n + 1 # 2
          BY <3>2
        <5> QED BY <1>5, <3>2, <5>1
      <4>2. last.list
        BY <4>1 DEF HostRows
      <4>3. Pending(last, r) = 0
        BY <4>2 DEF Pending
      <4> QED BY <2>y, <4>1, <4>3 DEF Earlier
    <3> QED BY <1>4, <2>y, <3>1, <3>2
  <2>8. host[r] = History(r, 1, h)
    BY <2>h DEF HostRows
  <2>9. x >= 0 => h + y = x + 1
    <3>2. Earlier(r) = 0
      BY <1>5 DEF Earlier
    <3>3. x >= 0 => h + y + Earlier(r) = x + 1
      BY <2>h, <2>x, <2>y DEF HostRows
    <3> QED BY <2>h, <2>x, <2>y, <3>2, <3>3
  <2>f. /\ Pos0(r) >= 0 => End(step, r) = Pos0(r) + 1 /\ End(step, r) >= PromptLen
        /\ End(step, r) >= PromptLen => End(step, r) = PromptLen + step.outs[r]
    BY <2>1, <2>2, <2>x, FitsSampledEnd
  <2>10. x >= 0 => e = x + 1 /\ w >= 0
    BY <2>4, <2>e, <2>x, <2>w, <2>f
  <2>11. x < 0 => y = 0
    BY <2>x, <2>y DEF Pending, Pos0
  <2>12. x < 0 /\ w >= 0 => h = e
    <3> SUFFICES ASSUME x < 0, w >= 0 PROVE h = e
      OBVIOUS
    <3>1. host[r] = History(r, 1, p + m)
      BY <1>1, <1>2, <2>c, <2>x DEF RowsReady, Row
    <3>2. h = p + m
      <4>2. Len(History(r, 1, p + m)) = p + m
        BY <2>1, <2>c, HistoryLength
      <4> QED BY <2>h, <3>1, <4>2
    <3>3. e = p + m
      BY <2>4, <2>c, <2>e, <2>f
    <3> QED BY <3>2, <3>3
  <2>13. w >= 0 => h + 1 + y = w + 1
    BY <2>5, <2>9, <2>10, <2>11, <2>12
  <2>14. Len(outputs') = 2 => outputs'[1] = last
    <3>1. n + 1 = 2 => n = 1
      OBVIOUS
    <3> QED BY <1>5, <3>1, Zenon
  <2>15. Len(outputs') = 2 /\ Sampled(outputs'[1], r) >= 0 =>
           w = Sampled(outputs'[1], r) + 1
    <3>1. x >= 0 => w = x + 1
      BY <2>w, <2>5, <2>10
    <3> QED BY <2>x, <2>14, <3>1 DEF Pos0
  <2> QED BY <1>2, <2>h, <2>w, <2>3, <2>6, <2>7, <2>8, <2>13, <2>15
<1> QED BY <1>2, <1>5, <1>6, <1>7 DEF HostRows

-----------------------------------------------------------------------------
(* Each step keeps HInv. *)

(* The batch and its steps keep what was sampled last. *)
LEMMA SampledSame ==
  ASSUME StepSampled, batch' = batch, step' = step, pc' = "idle" => pc = "idle",
         \A r \in Req : Pos0(r)' = Pos0(r), InBatch(batch) \subseteq Req
  PROVE  StepSampled'
BY DEF StepSampled, InBatch

(* The main thread takes a step from the queue. *)
LEMMA BeginHost ==
  ASSUME HInv, IInv', queue # << >>, Begin(Head(queue)), queue' = Tail(queue),
         UNCHANGED <<status, gen, computed, outs, known, finished>>
  PROVE  HInv'
<1>1. IInv /\ Types /\ Objects /\ Depth /\ Carried
  BY DEF HInv, IInv
<1>2. /\ pc = "idle" /\ pc' = "update" /\ step' = Head(queue)
      /\ outputRank' = outputRank /\ batch' = batch
  BY DEF Begin
<1>3. MaterializeLast \/ UNCHANGED <<host, outIds, last, outputs>>
  BY DEF Begin
<1>4. Kept
  BY <1>1, <1>3, MaterializeKeeps, UnchangedKeeps
<1>5. \A r \in Req : Pos0(r)' = Pos0(r)
  BY <1>1, <1>4, KeptPipeline
<1> PICK q \in Seq(AnyStep) : q = queue
  BY <1>1 DEF Types
<1> PICK n \in Nat : n = Len(q) /\ n >= 1
  OBVIOUS
<1>6. /\ Head(q) = q[1] /\ Len(Tail(q)) = n - 1
      /\ Tail(q) \in Seq(AnyStep)
      /\ \A i \in 1 .. n - 1 : Tail(q)[i] = q[i + 1]
      /\ Tail(q) # << >> => n >= 2
      /\ Tail(q) = << >> => n = 1
  <2>1. /\ Head(q) = q[1] /\ Len(Tail(q)) = n - 1
        /\ Tail(q) \in Seq(AnyStep)
        /\ \A i \in 1 .. n - 1 : Tail(q)[i] = q[i + 1]
    OBVIOUS
  <2> PICK t \in Seq(AnyStep) : t = Tail(q)
    BY <2>1
  <2>2. t = << >> <=> Len(t) = 0
    OBVIOUS
  <2> QED BY <2>1, <2>2
<1>7. Ahead1' = Ahead1 /\ Ahead2' = Ahead2
  <2>1. n >= 2 => Tail(q)[1] = q[2]
    BY <1>6
  <2> QED BY <1>2, <1>6, <2>1 DEF Ahead1, Ahead2
<1>8. /\ \A i \in DOMAIN queue' : queue'[i] # NoStep
      /\ step' # NoStep
  <2>1. \A i \in 1 .. n : q[i] # NoStep
    BY <1>1 DEF Carried
  <2>2. DOMAIN Tail(q) = 1 .. n - 1
    BY <1>6
  <2>3. \A i \in 1 .. n - 1 : i + 1 \in 1 .. n
    OBVIOUS
  <2>4. 1 \in 1 .. n
    OBVIOUS
  <2> QED BY <1>2, <1>6, <2>1, <2>2, <2>3, <2>4
<1>9. Carried'
  <2>1. \A r \in Req : In0(r)' = In0(r)
    BY <1>2 DEF In0, InBatch
  <2>2. /\ \A r \in finished' : status'[r] = "idle" /\ gen'[r] = 1
        /\ \A r \in Req : status'[r] # "idle" /\ outs'[r] < MaxOut /\ Pos2(r) >= 0
                          => status[r] # "idle" /\ outs[r] < MaxOut
    BY <1>1 DEF Carried
  <2> QED BY <1>1, <1>2, <1>5, <1>7, <1>8, <2>1, <2>2, CarriedSame
<1>10. StepSampled'
  BY <1>2 DEF StepSampled
<1>11. outputRank' => HostRows'
  <2> SUFFICES ASSUME outputRank PROVE HostRows'
    BY <1>2
  <2>1. Len(outputs) <= 1
    <3>1. Len(outputs) \in Nat
      BY <1>1 DEF Types
    <3>2. n + 0 + Len(outputs) <= 2
      BY <1>1, <1>2 DEF Depth, UnderWay
    <3> QED BY <3>1, <3>2
  <2>2. HostRows
    BY DEF HInv
  <2>3. CASE MaterializeLast
    BY <1>1, <1>2, <2>1, <2>2, <2>3, MaterializeRows
  <2>4. CASE UNCHANGED <<host, outIds, last, outputs>>
    BY <1>2, <2>2, <2>4, RowsUnchanged
  <2> QED BY <1>3, <2>3, <2>4
<1> QED BY <1>9, <1>10, <1>11 DEF HInv

(* Nothing of the scheduler changes. *)
LEMMA SchedulerSame ==
  ASSUME Carried, UNCHANGED schedulerVars
  PROVE  /\ UNCHANGED <<status, gen, outs, finished, queue>>
         /\ \A i \in DOMAIN queue' : queue'[i] # NoStep
         /\ \A r \in finished' : status'[r] = "idle" /\ gen'[r] = 1
         /\ \A r \in Req : status'[r] # "idle" /\ outs'[r] < MaxOut /\ Pos2(r) >= 0
                           => status[r] # "idle" /\ outs[r] < MaxOut
<1>1. UNCHANGED <<status, gen, outs, finished, queue>>
  BY DEF schedulerVars
<1> QED BY <1>1 DEF Carried

(* _prepare_model_input. *)
LEMMA PrepareHost ==
  ASSUME HInv, IInv', Prepare, UNCHANGED schedulerVars
  PROVE  HInv'
<1>1. IInv /\ Carried
  BY DEF HInv
<1>2. /\ pc = "prepare" /\ pc' = "swap"
      /\ UNCHANGED <<outputRank, step, batch, host, last, outputs>>
  BY DEF Prepare
<1>3. queue' = queue
  BY DEF schedulerVars
<1>4. Carried'
  <2>1. Ahead1' = Ahead1 /\ Ahead2' = Ahead2
    BY <1>2, <1>3 DEF Ahead1, Ahead2
  <2>2. \A r \in Req : In0(r)' = In0(r) /\ Pos0(r)' = Pos0(r)
    BY <1>2 DEF In0, InBatch, Pos0
  <2>3. step' # NoStep
    BY <1>1, <1>2 DEF Carried
  <2> QED BY <1>1, <1>2, <2>1, <2>2, <2>3, SchedulerSame, CarriedSame
<1>5. StepSampled'
  BY <1>2 DEF StepSampled
<1>6. outputRank' => HostRows'
  BY <1>2, RowsUnchanged DEF HInv
<1> QED BY <1>4, <1>5, <1>6 DEF HInv

(* _maybe_swap_async_input_ids. *)
LEMMA SwapHost ==
  ASSUME HInv, IInv', Swap, UNCHANGED schedulerVars
  PROVE  HInv'
<1>1. IInv /\ Types /\ Objects /\ Depth /\ Carried
  BY DEF HInv, IInv
<1>2. /\ pc = "swap" /\ pc' = "sample"
      /\ UNCHANGED <<outputRank, step, batch>>
  BY DEF Swap
<1>3. MaterializeLast \/ UNCHANGED <<host, outIds, last, outputs>>
  BY DEF Swap
<1>4. Kept
  BY <1>1, <1>3, MaterializeKeeps, UnchangedKeeps
<1>5. \A r \in Req : Pos0(r)' = Pos0(r)
  BY <1>1, <1>4, KeptPipeline
<1>6. queue' = queue
  BY DEF schedulerVars
<1>7. Carried'
  <2>1. Ahead1' = Ahead1 /\ Ahead2' = Ahead2
    BY <1>2, <1>6 DEF Ahead1, Ahead2
  <2>2. \A r \in Req : In0(r)' = In0(r)
    BY <1>2 DEF In0, InBatch
  <2>3. step' # NoStep
    BY <1>1, <1>2 DEF Carried
  <2> QED BY <1>1, <1>2, <1>5, <2>1, <2>2, <2>3, SchedulerSame, CarriedSame
<1>8. StepSampled'
  BY <1>2 DEF StepSampled
<1>9. outputRank' => HostRows'
  <2> SUFFICES ASSUME outputRank PROVE HostRows'
    BY <1>2
  <2>1. Len(outputs) <= 1
    <3>1. Len(outputs) \in Nat /\ Len(queue) \in Nat
      BY <1>1 DEF Types
    <3>2. Len(queue) + 1 + Len(outputs) <= 2
      BY <1>1, <1>2 DEF Depth, UnderWay
    <3> QED BY <3>1, <3>2
  <2>2. HostRows
    BY DEF HInv
  <2>3. CASE MaterializeLast
    BY <1>1, <1>2, <2>1, <2>2, <2>3, MaterializeRows
  <2>4. CASE UNCHANGED <<host, outIds, last, outputs>>
    BY <1>2, <2>2, <2>4, RowsUnchanged
  <2> QED BY <1>3, <2>3, <2>4
<1> QED BY <1>7, <1>8, <1>9 DEF HInv

(* _update_states; an empty step ends there. *)
LEMMA UpdateHost ==
  ASSUME HInv, IInv', UpdateStates, UNCHANGED schedulerVars
  PROVE  HInv'
<1>1. IInv /\ Types /\ Depth /\ Carried
  BY DEF HInv, IInv
<1>2. /\ pc = "update" /\ queue' = queue /\ step' = step
      /\ pc' = (IF Scheduled(step) = {} THEN "idle" ELSE "prepare")
      /\ InBatch(batch)' = Scheduled(step)
      /\ \A r \in Req : Pos0(r)' = Pos0(r) /\ Output(1, r)' = Output(1, r)
                        /\ Output(2, r)' = Output(2, r)
  BY <1>1, UpdateFacts
<1>3. outputRank' = outputRank /\ outputs' = outputs
  BY DEF UpdateStates
<1>4. Ahead1 = step /\ step # NoStep
  BY <1>1, <1>2 DEF Ahead1, Carried
<1>5. Carried'
  <2>1. CASE Scheduled(step) # {}
    <3>1. pc' = "prepare"
      BY <1>2, <2>1
    <3>2. Ahead1' = Ahead1 /\ Ahead2' = Ahead2
      BY <1>2, <3>1 DEF Ahead1, Ahead2
    <3> QED BY <1>1, <1>2, <1>4, <3>1, <3>2, SchedulerSame, CarriedSame
  <2>2. CASE Scheduled(step) = {}
    <3>1. pc' = "idle"
      BY <1>2, <2>2
    <3>2. Len(queue) <= 1
      <4>1. Len(queue) \in Nat /\ Len(outputs) \in Nat
        BY <1>1 DEF Types
      <4>2. Len(queue) + 1 + Len(outputs) <= 2
        BY <1>1, <1>2 DEF Depth, UnderWay
      <4> QED BY <4>1, <4>2
    <3>3. Ahead1' = Ahead2 /\ Ahead2' = NoStep
      <4>1. ~(Len(queue) >= 2)
        <5>1. Len(queue) \in Nat
          BY <1>1 DEF Types
        <5> QED BY <3>2, <5>1
      <4> QED BY <1>2, <3>1, <4>1 DEF Ahead1, Ahead2
    <3>4. \A r \in Req : Pos0(r)' = Pos1(r)
      BY <1>2, <1>4, <2>2 DEF Pos1, NextPos
    <3>5. \A r \in Req : In0(r)' = (r \in Scheduled(step))
      BY <1>2 DEF In0
    <3> QED BY <1>1, <1>2, <1>4, <3>1, <3>3, <3>4, <3>5, SchedulerSame, CarriedConsumed
  <2> QED BY <2>1, <2>2
<1>6. StepSampled'
  BY <1>2 DEF StepSampled
<1>7. outputRank' => HostRows'
  BY <1>1, <1>3, UpdateRows DEF HInv
<1> QED BY <1>5, <1>6, <1>7 DEF HInv

(* sample_tokens. *)
LEMMA SampleHost ==
  ASSUME HInv, IInv', SampleTokens, UNCHANGED schedulerVars
  PROVE  HInv'
<1>1. IInv /\ Types /\ Depth /\ Carried /\ StepsFit /\ RowsReady
  BY DEF HInv, IInv
<1>2. /\ pc = "sample" /\ pc' = "idle"
      /\ UNCHANGED <<outputRank, step, batch>>
  BY DEF SampleTokens
<1>3. queue' = queue
  BY DEF schedulerVars
<1>4. \A r \in Req : Sampled(last', r) = Samples(step, r)
  BY <1>1, SampledTokens
<1>5. InBatch(batch) = Scheduled(step) /\ Scheduled(step) # {}
  BY <1>1, <1>2 DEF RowsReady
<1>6. Ahead1 = step
  BY <1>2 DEF Ahead1
<1>7. Len(queue) <= 1 /\ Len(queue) \in Nat /\ (Len(outputs) = 0 \/ Len(queue) = 0)
  <2>1. Len(queue) \in Nat /\ Len(outputs) \in Nat
    BY <1>1 DEF Types
  <2>2. Len(queue) + 1 + Len(outputs) <= 2
    BY <1>1, <1>2 DEF Depth, UnderWay
  <2> QED BY <2>1, <2>2
<1>8. Ahead1' = Ahead2 /\ Ahead2' = NoStep
  <2>1. ~(Len(queue) >= 2)
    BY <1>7
  <2> QED BY <1>2, <1>3, <2>1 DEF Ahead1, Ahead2
<1>9. \A r \in Req : Pos0(r)' = Pos1(r) /\ Pos0(r)' = Samples(step, r)
  BY <1>4, <1>5, <1>6 DEF Pos0, Pos1, NextPos
<1>10. InBatch(batch)' = InBatch(batch)
  BY <1>2 DEF InBatch
<1>11. Carried'
  <2>1. \A r \in Req : In0(r)' = (r \in Scheduled(step))
    BY <1>5, <1>10 DEF In0
  <2> QED BY <1>1, <1>2, <1>6, <1>8, <1>9, <2>1, SchedulerSame, CarriedConsumed
<1>12. StepSampled'
  <2>1. \A r \in Scheduled(step) : r \in Req /\ step.gen[r] = 1
    BY <1>1, <1>6 DEF StepsFit, Fits, Known, Scheduled
  <2> QED BY <1>2, <1>5, <1>9, <1>10, <2>1 DEF StepSampled
<1>13. outputRank' => HostRows'
  BY <1>1, <1>2, SampleRows DEF HInv
<1> QED BY <1>11, <1>12, <1>13 DEF HInv

(* The scheduler and the clients leave the runner alone. *)
LEMMA RunnerSame ==
  ASSUME HInv, UNCHANGED runnerVars
  PROVE  StepSampled' /\ (outputRank' => HostRows')
<1>1. /\ outputRank' = outputRank /\ pc' = pc /\ step' = step /\ batch' = batch
      /\ host' = host /\ last' = last /\ outputs' = outputs
  BY DEF runnerVars
<1>2. StepSampled'
  BY <1>1 DEF HInv, StepSampled, InBatch, Pos0
<1>3. outputRank' => HostRows'
  BY <1>1, RowsUnchanged DEF HInv
<1> QED BY <1>2, <1>3

(* Clients and stuttering. *)
LEMMA ClientHost ==
  ASSUME HInv, IInv', UNCHANGED <<runnerVars, queue>>,
         \A r \in finished' : status'[r] = "idle" /\ gen'[r] = 1,
         \A r \in Req : /\ status'[r] # "idle" /\ outs'[r] < MaxOut /\ Pos2(r) >= 0
                        => status[r] # "idle" /\ outs[r] < MaxOut
  PROVE  HInv'
<1>1. IInv /\ Carried
  BY DEF HInv
<1>2. /\ pc' = pc /\ step' = step /\ batch' = batch /\ last' = last /\ queue' = queue
  BY DEF runnerVars
<1>3. Ahead1' = Ahead1 /\ Ahead2' = Ahead2
  BY <1>2 DEF Ahead1, Ahead2
<1>4. \A r \in Req : Pos0(r)' = Pos0(r) /\ In0(r)' = In0(r)
  BY <1>2 DEF Pos0, In0, InBatch
<1>5. /\ \A i \in DOMAIN queue' : queue'[i] # NoStep
      /\ pc' # "idle" => step' # NoStep
  BY <1>1, <1>2 DEF Carried
<1>6. Carried'
  BY <1>1, <1>2, <1>3, <1>4, <1>5, CarriedSame
<1>7. StepSampled' /\ (outputRank' => HostRows')
  BY RunnerSame
<1> QED BY <1>6, <1>7 DEF HInv

(* A new request has nothing in the pipeline. *)
LEMMA SubmitHost ==
  ASSUME UniqueIdsTwoAhead, HInv, IInv', NEW r \in Req, Submit(r)
  PROVE  HInv'
<1>1. IInv /\ Types /\ Latest /\ Carried
  BY DEF HInv, IInv
<1>2. /\ status[r] = "idle" /\ gen[r] = 0
      /\ status' = [status EXCEPT ![r] = "waiting"] /\ gen' = [gen EXCEPT ![r] = 1]
      /\ UNCHANGED <<runnerVars, computed, outs, finished, queue>>
  <2>1. gen[r] \in 0 .. 1 /\ gen[r] < 1
    BY <1>1 DEF Submit, UniqueIdsTwoAhead, Types
  <2>2. gen[r] = 0
    BY <2>1
  <2> QED BY <2>2 DEF Submit
<1>3. /\ \A q \in Req : q # r => status'[q] = status[q] /\ gen'[q] = gen[q]
      /\ Pos2(r) = Nothing /\ r \notin finished
  <2>1. Pos2(r) = Nothing
    BY <1>1, <1>2 DEF Latest
  <2>2. r \notin finished
    BY <1>1, <1>2 DEF Carried
  <2> QED BY <1>1, <1>2, <2>1, <2>2 DEF Types
<1>4. \A q \in finished' : status'[q] = "idle" /\ gen'[q] = 1
  <2>1. finished \subseteq Req /\ finished' = finished
    BY <1>1, <1>2 DEF Types
  <2> QED BY <1>1, <1>3, <2>1 DEF Carried
<1>5. \A q \in Req : /\ status'[q] # "idle" /\ outs'[q] < MaxOut /\ Pos2(q) >= 0
                     => status[q] # "idle" /\ outs[q] < MaxOut
  BY <1>2, <1>3 DEF Nothing
<1> QED BY <1>2, <1>4, <1>5, ClientHost

(* A request that ends is reported. *)
LEMMA FinishHost ==
  ASSUME UniqueIdsTwoAhead, HInv, IInv', NEW r \in Req, Finish(r)
  PROVE  HInv'
<1>1. IInv /\ Types /\ Latest /\ Carried
  BY DEF HInv, IInv
<1>2. /\ status[r] # "idle" /\ status' = [status EXCEPT ![r] = "idle"]
      /\ outs' = [outs EXCEPT ![r] = 0]
      /\ finished' = finished \cup {r}
      /\ UNCHANGED <<runnerVars, gen, queue>>
  BY DEF Finish
<1>3. /\ status'[r] = "idle" /\ gen[r] = 1
      /\ \A q \in Req : q # r => status'[q] = status[q] /\ outs'[q] = outs[q]
  BY <1>1, <1>2 DEF Types, Latest
<1>4. \A q \in finished' : status'[q] = "idle" /\ gen'[q] = 1
  <2>1. finished \subseteq Req
    BY <1>1 DEF Types
  <2> QED BY <1>1, <1>2, <1>3, <2>1 DEF Carried
<1>5. \A q \in Req : /\ status'[q] # "idle" /\ outs'[q] < MaxOut /\ Pos2(q) >= 0
                     => status[q] # "idle" /\ outs[q] < MaxOut
  BY <1>3
<1> QED BY <1>2, <1>4, <1>5, ClientHost

(* Stuttering. *)
LEMMA StutterHost ==
  ASSUME HInv, IInv', UNCHANGED servingVars
  PROVE  HInv'
<1>1. UNCHANGED <<runnerVars, queue>> /\ UNCHANGED <<status, gen, outs, finished>>
  BY DEF servingVars, schedulerVars
<1>2. \A q \in finished' : status'[q] = "idle" /\ gen'[q] = 1
  BY <1>1 DEF HInv, Carried
<1> QED BY <1>1, <1>2, ClientHost

(* A prefill is scheduled. *)
LEMMA SchedulePrefillHost ==
  ASSUME UniqueIdsTwoAhead, HInv, IInv', NEW r \in Req, NEW n \in 1 .. MaxPos,
         SchedulePrefill(r, n)
  PROVE  HInv'
<1>1. IInv /\ Types /\ Carried
  BY DEF HInv, IInv
<1> PICK so : so = [finished |-> finished,
                    new |-> IF status[r] = "waiting" THEN {r} ELSE {}, prefill |-> TRUE,
                    toks |-> [q \in Req |-> IF q = r THEN n ELSE 0],
                    computed |-> computed, outs |-> outs, known |-> known, gen |-> gen]
  OBVIOUS
<1>2. /\ UnderWay < QueueDepth /\ queue' = Append(queue, so) /\ finished' = {}
      /\ status' = [status EXCEPT ![r] = "running"]
      /\ UNCHANGED <<runnerVars, gen>>
      /\ status[r] # "idle" /\ outs[r] < MaxOut
  BY DEF SchedulePrefill, Enqueue
<1>3. n \in Nat /\ n >= 1
  BY AsyncBoundAssumption DEF MaxPos
<1>4. so \in AnyStep /\ so.finished = finished
  <2>1. [q \in Req |-> IF q = r THEN n ELSE 0] \in [Req -> Nat]
    BY <1>3
  <2>2. /\ finished \in SUBSET Req /\ computed \in [Req -> Nat] /\ outs \in [Req -> Nat]
        /\ known \in [Req -> Seq(AnyToken)]
    BY <1>1 DEF Types
  <2>3. (IF status[r] = "waiting" THEN {r} ELSE {}) \in SUBSET Req
    OBVIOUS
  <2>4. gen \in [Req -> Nat]
    <3>1. gen \in [Req -> 0 .. 1] /\ 0 .. 1 \subseteq Nat
      BY <1>1 DEF Types, UniqueIdsTwoAhead
    <3> QED BY <3>1
  <2> QED BY <2>1, <2>2, <2>3, <2>4 DEF AnyStep
<1>5. Scheduled(so) = {r}
  BY <1>3 DEF Scheduled
<1>6. \A q \in Req : status'[q] # "idle" <=> status[q] # "idle"
  BY <1>1, <1>2 DEF Types
<1>7. Carried'
  BY <1>1, <1>2, <1>4, <1>5, <1>6, CarriedEnqueue
<1>8. StepSampled' /\ (outputRank' => HostRows')
  BY <1>2, RunnerSame
<1> QED BY <1>7, <1>8 DEF HInv

(* A decode is scheduled, or a step that only reports. *)
LEMMA ScheduleDecodeHost ==
  ASSUME UniqueIdsTwoAhead, HInv, IInv', NEW P \in SUBSET Req, ScheduleDecode(P)
  PROVE  HInv'
<1>1. IInv /\ Types /\ Objects /\ Carried /\ Latest
  BY DEF HInv, IInv
<1> PICK S : S = {r \in Req \ P : /\ status[r] = "running" /\ computed[r] >= PromptLen
                                  /\ outs[r] < MaxOut}
  OBVIOUS
<1> PICK one : one = [r \in Req |-> IF r \in S THEN 1 ELSE 0]
  OBVIOUS
<1> PICK so : so = [finished |-> finished, new |-> {}, prefill |-> FALSE, toks |-> one,
                    computed |-> computed, outs |-> outs, known |-> known, gen |-> gen]
  OBVIOUS
<1>2. /\ UnderWay < QueueDepth /\ queue' = Append(queue, so) /\ finished' = {}
      /\ outs' = [r \in Req |-> outs[r] + one[r]]
      /\ status' = [r \in Req |-> IF r \in P THEN "preempted" ELSE status[r]]
      /\ UNCHANGED <<runnerVars, gen>>
      /\ \A r \in P : status[r] = "running"
      /\ P # {} => S # {}
      /\ S \cup finished # {}
  BY DEF ScheduleDecode, Enqueue
<1>3. one \in [Req -> Nat] /\ \A r \in Req : one[r] = IF r \in S THEN 1 ELSE 0
  OBVIOUS
<1>4. so \in AnyStep /\ so.finished = finished
  <2>1. /\ finished \in SUBSET Req /\ computed \in [Req -> Nat] /\ outs \in [Req -> Nat]
        /\ known \in [Req -> Seq(AnyToken)]
    BY <1>1 DEF Types
  <2>2. gen \in [Req -> Nat]
    <3>1. gen \in [Req -> 0 .. 1] /\ 0 .. 1 \subseteq Nat
      BY <1>1 DEF Types, UniqueIdsTwoAhead
    <3> QED BY <3>1
  <2> QED BY <1>3, <2>1, <2>2 DEF AnyStep
<1>5. Scheduled(so) = S /\ S \subseteq Req
  BY <1>3 DEF Scheduled
<1>6. \A r \in Req : status'[r] # "idle" <=> status[r] # "idle"
  BY <1>2
<1>7. \A r \in S : status[r] # "idle" /\ outs[r] < MaxOut
  OBVIOUS
<1>8. ASSUME S = {}, NEW r \in Req, status[r] # "idle", Pos2(r) >= 0
      PROVE  ~(outs'[r] < MaxOut)
  <2>1. P = {}
    BY <1>2, <1>8
  <2>2. outs'[r] = outs[r]
    <3>1. outs'[r] = outs[r] + 0 /\ outs[r] \in Nat
      BY <1>1, <1>2, <1>3, <1>8 DEF Types
    <3> QED BY <3>1
  <2>3. status[r] = "running" /\ computed[r] = Pos2(r)
    BY <1>1, <1>8 DEF Latest
  <2>4. computed[r] >= PromptLen
    BY <1>1, <1>8, <2>3, PipelineType
  <2> QED BY <1>8, <2>1, <2>2, <2>3, <2>4
<1>9. Carried'
  BY <1>1, <1>2, <1>4, <1>5, <1>6, <1>7, <1>8, CarriedEnqueue
<1>10. StepSampled' /\ (outputRank' => HostRows')
  BY <1>2, RunnerSame
<1> QED BY <1>9, <1>10 DEF HInv

(* An output is received. *)
LEMMA ReceiveHost ==
  ASSUME UniqueIdsTwoAhead, HInv, IInv', Receive
  PROVE  HInv'
<1>1. IInv /\ Types /\ Objects /\ Depth /\ Carried /\ Latest
  BY DEF HInv, IInv
<1>2. /\ TakeOutput
      /\ UNCHANGED <<outputRank, pc, step, batch, gen, queue>>
  BY DEF Receive, TakeOutput
<1> PICK done : /\ done \subseteq {r \in Req : status[r] # "idle"}
                /\ finished' = finished \cup done
                /\ status' = [r \in Req |-> IF r \in done THEN "idle" ELSE status[r]]
                /\ outs' = [r \in Req |-> IF r \in done THEN 0 ELSE outs[r]]
  <2> PICK now : now = [r \in Req |-> known[r] \o ReceivedFrom(Head(outputs), r)]
    OBVIOUS
  <2> PICK d : d = {r \in Req : status[r] # "idle" /\ Len(now[r]) = MaxOut}
    OBVIOUS
  <2>1. /\ finished' = finished \cup d
        /\ status' = [r \in Req |-> IF r \in d THEN "idle" ELSE status[r]]
        /\ outs' = [r \in Req |-> IF r \in d THEN 0 ELSE outs[r]]
    BY DEF Receive
  <2> QED BY <2>1
<1>3. \A r \in Req : Pos0(r)' = Pos0(r)
  BY <1>1, <1>2, TakeKeeps DEF Pos0
<1>4. Ahead1' = Ahead1 /\ Ahead2' = Ahead2
  BY <1>2 DEF Ahead1, Ahead2
<1>5. \A r \in Req : In0(r)' = In0(r)
  BY <1>2 DEF In0, InBatch
<1>6. \A r \in finished' : status'[r] = "idle" /\ gen'[r] = 1
  <2>1. ASSUME NEW r \in done  PROVE status'[r] = "idle" /\ gen'[r] = 1
    BY <1>1, <1>2 DEF Latest
  <2>2. ASSUME NEW r \in finished, r \notin done  PROVE status'[r] = "idle" /\ gen'[r] = 1
    <3>1. r \in Req /\ status[r] = "idle" /\ gen[r] = 1
      BY <1>1 DEF Types, Carried
    <3> QED BY <1>2, <2>2, <3>1
  <2> QED BY <2>1, <2>2
<1>7. \A r \in Req : /\ status'[r] # "idle" /\ outs'[r] < MaxOut /\ Pos2(r) >= 0
                     => status[r] # "idle" /\ outs[r] < MaxOut
  OBVIOUS
<1>8. /\ \A i \in DOMAIN queue' : queue'[i] # NoStep
      /\ pc' # "idle" => step' # NoStep
  BY <1>1, <1>2 DEF Carried
<1>9. Carried'
  BY <1>1, <1>2, <1>3, <1>4, <1>5, <1>6, <1>7, <1>8, CarriedSame
<1>10. StepSampled'
  <2>1. InBatch(batch) \subseteq Req
    BY <1>1 DEF Types, InBatch
  <2> QED BY <1>2, <1>3, <2>1, SampledSame DEF HInv
<1>11. outputRank' => HostRows'
  BY <1>1, <1>2, TakeRows DEF HInv
<1> QED BY <1>9, <1>10, <1>11 DEF HInv

(* Initially there is nothing. *)
LEMMA InitHInv ==
  ASSUME ServingInit
  PROVE  HInv
<1>1. /\ pc = "idle" /\ batch = << >> /\ last = NoOutput /\ outputs = << >>
      /\ status = [r \in Req |-> "idle"] /\ finished = {} /\ queue = << >>
  BY DEF ServingInit, Init
<1>2. /\ Len(<< >>) = 0 /\ DOMAIN << >> = {} /\ InBatch(<< >>) = {}
  BY DEF InBatch
<1>3. Ahead1 = NoStep /\ Ahead2 = NoStep
  BY <1>1, <1>2 DEF Ahead1, Ahead2
<1>4. Carried
  BY <1>1, <1>2, <1>3, NoStepLemma DEF Carried
<1>5. StepSampled
  BY <1>1, <1>2 DEF StepSampled
<1>6. HostRows
  BY <1>1, <1>2 DEF HostRows, NoOutput
<1> QED BY <1>4, <1>5, <1>6, InitIInv DEF HInv

(* Every step keeps HInv. *)
LEMMA NextHost ==
  ASSUME UniqueIdsTwoAhead, HInv, [ServingNext]_servingVars
  PROVE  HInv'
<1>0. IInv'
  BY NextStep DEF HInv
<1>1. CASE UNCHANGED servingVars
  BY <1>0, <1>1, StutterHost
<1>2. ASSUME NEW r \in Req, Submit(r) \/ Finish(r)  PROVE HInv'
  BY <1>0, <1>2, SubmitHost, FinishHost
<1>3. CASE Schedule
  BY <1>0, <1>3, SchedulePrefillHost, ScheduleDecodeHost DEF Schedule
<1>4. CASE Execute
  <2>1. CASE /\ queue # << >> /\ Begin(Head(queue)) /\ queue' = Tail(queue)
             /\ UNCHANGED <<status, gen, computed, outs, known, finished>>
    BY <1>0, <2>1, BeginHost
  <2>2. CASE UpdateStates /\ UNCHANGED schedulerVars
    BY <1>0, <2>2, UpdateHost
  <2>3. CASE Prepare /\ UNCHANGED schedulerVars
    BY <1>0, <2>3, PrepareHost
  <2>4. CASE Swap /\ UNCHANGED schedulerVars
    BY <1>0, <2>4, SwapHost
  <2>5. CASE SampleTokens /\ UNCHANGED schedulerVars
    BY <1>0, <2>5, SampleHost
  <2> QED BY <1>4, <2>1, <2>2, <2>3, <2>4, <2>5 DEF Execute
<1>5. CASE Receive
  BY <1>0, <1>5, ReceiveHost
<1> QED BY <1>1, <1>2, <1>3, <1>4, <1>5 DEF ServingNext

(* The invariant of the output rank. *)
LEMMA HostInvariantHolds == UniqueIdsTwoAhead => (ServingSpec => []HInv)
<1> SUFFICES ASSUME UniqueIdsTwoAhead PROVE ServingSpec => []HInv
  OBVIOUS
<1>1. ServingInit => HInv
  BY InitHInv
<1>2. HInv /\ [ServingNext]_servingVars => HInv'
  BY NextHost
<1> QED BY <1>1, <1>2, PTL DEF ServingSpec

(* On the output rank the host row of a request in the batch is always a   *)
(* prefix of its own history: no token missing, doubled or of another      *)
(* request, however the output thread, the main thread's own get_output    *)
(* and the trims and rebuilds of _update_states follow one another.        *)
THEOREM AlwaysHostRowsGenuine == UniqueIdsTwoAhead => (ServingSpec => []HostRowsGenuine)
<1>1. HInv => HostRowsGenuine
  <2> SUFFICES ASSUME HInv, outputRank, pc # "update", NEW r \in InBatch(batch)
               PROVE  host[r] = History(r, step.gen[r], Len(host[r]))
    BY DEF HostRowsGenuine
  <2>1. host[r] = History(r, 1, Len(host[r]))
    BY DEF HInv, HostRows
  <2>2. step.gen[r] = 1
    <3>1. CASE pc = "idle"
      BY <3>1 DEF HInv, StepSampled
    <3>2. CASE pc # "idle"
      <4>1. pc \in {"prepare", "swap", "sample"}
        BY <3>2 DEF HInv, IInv, Types
      <4>2. r \in Scheduled(step)
        BY <4>1 DEF HInv, IInv, RowsReady
      <4>3. Ahead1 = step
        BY <3>2 DEF Ahead1
      <4> QED BY <4>2, <4>3 DEF HInv, IInv, StepsFit, Fits, Known
    <3> QED BY <3>1, <3>2
  <2> QED BY <2>1, <2>2
<1> QED BY <1>1, HostInvariantHolds, PTL

(* On the output rank no sampled token is lost to the host rows: when the  *)
(* last output has become a list, the rows of its requests end with it,    *)
(* whichever thread made it one.                                           *)
THEOREM AlwaysTokensNotDropped == UniqueIdsTwoAhead => (ServingSpec => []TokensNotDropped)
<1>1. HInv => TokensNotDropped
  <2> SUFFICES ASSUME HInv, outputRank, pc = "idle", last.list,
                      NEW r \in InBatch(batch) \ last.partial
               PROVE  Len(host[r]) = step.computed[r] + step.toks[r] + 1
    BY DEF TokensNotDropped
  <2>0. /\ Types /\ Objects /\ HostRows /\ StepSampled /\ RowsReady
    BY DEF HInv, IInv
  <2>1. r \in Req /\ InBatch(batch) \subseteq InBatch(last.reqs)
    <3>1. batch \in Seq(Req)
      BY <2>0 DEF Types
    <3>2. InBatch(batch) \subseteq Req
      BY <3>1 DEF InBatch
    <3> QED BY <2>0, <3>2 DEF RowsReady
  <2>2. Pos0(r) >= 0
    <3>1. last \in AnyOutput /\ GenuineOutput(last) /\ r \in InBatch(last.reqs) \ last.partial
      BY <2>0, <2>1 DEF Types, Objects
    <3> QED BY <2>0, <2>1, <3>1, SampledLemma DEF Pos0
  <2>3. Pending(last, r) = 0 /\ Earlier(r) = 0
    <3>1. Len(outputs) # 2
      BY <2>0 DEF HostRows
    <3> QED BY <3>1 DEF Pending, Earlier
  <2>4. Len(host[r]) + Pending(last, r) + Earlier(r) = Pos0(r) + 1
    BY <2>0, <2>2, Zenon DEF HostRows
  <2>5. Samples(step, r) = Pos0(r)
    BY <2>0 DEF StepSampled
  <2>6. Pos0(r) = End(step, r)
    BY <2>0, <2>1, <2>2, <2>5, SamplesLemma DEF Types
  <2>7. Len(host[r]) \in Nat
    BY <2>0, <2>1 DEF Types
  <2>8. End(step, r) = step.computed[r] + step.toks[r]
    BY DEF End
  <2> QED BY <2>3, <2>4, <2>6, <2>7, <2>8
<1> QED BY <1>1, HostInvariantHolds, PTL
-----------------------------------------------------------------------------
(* The bounds. *)

(* An output samples nothing past the last token of a stream. *)
Below(o) == \A r \in Req : Sampled(o, r) < MaxPos

OutputsBelow == Below(last) /\ \A i \in DOMAIN outputs : Below(outputs[i])

(* On every rank a row lacks the tokens its last output has yet to bring:  *)
(* it may lack more where no output thread writes it.                      *)
RowsLag ==
  \A r \in InBatch(batch) :
    Pos0(r) >= 0 => Len(host[r]) + Pending(last, r) <= Pos0(r) + 1

(* The types the model declares, where Types is wider. *)
Narrow ==
  /\ step \in Steps
  /\ host \in [Req -> Seq(Token)] /\ outIds \in [Req -> Seq(Token)]
  /\ \A r \in Req : Len(outIds[r]) <= MaxOut
  /\ ids \in Seq(Seq(Token))
  /\ last \in Outputs /\ outputs \in Seq(Outputs)
  /\ computed \in [Req -> 0 .. MaxPos] /\ outs \in [Req -> 0 .. MaxOut]
  /\ known \in [Req -> Seq(Token)]
  /\ queue \in Seq(Steps)

(* The inductive invariant of the bounds. *)
TInv == HInv /\ Narrow /\ OutputsBelow /\ RowsLag

(* A sequence whose elements are in a smaller set. *)
LEMMA SmallerElements ==
  ASSUME NEW S, NEW T, NEW s \in Seq(S), \A i \in 1 .. Len(s) : s[i] \in T
  PROVE  s \in Seq(T)
OBVIOUS

(* A row that lags behind a token below MaxPos has at most MaxOut outputs. *)
LEMMA LagBound ==
  ASSUME NEW h \in Nat, NEW u \in Nat, NEW y \in {0, 1}, NEW x \in Int,
         h = PromptLen + u, h + y <= x + 1, x < MaxPos
  PROVE  u <= MaxOut
BY AsyncBoundAssumption DEF MaxPos

(* The tokens of a history are tokens. *)
LEMMA HistoryTokens ==
  ASSUME NEW r \in Req, NEW g \in 0 .. MaxGen, NEW n \in Nat, n <= MaxPos
  PROVE  /\ History(r, g, n) \in Seq(Token)
         /\ \A c \in Nat : SubSeq(History(r, g, n), c + 1, n) \in Seq(Token)
<1>1. History(r, g, n) \in Seq(Token)
  <2>1. \A i \in 1 .. n : [req |-> r, gen |-> g, pos |-> i - 1] \in Token
    BY AsyncBoundAssumption DEF Token, MaxPos
  <2> QED BY <2>1 DEF History
<1>2. Len(History(r, g, n)) = n
  BY DEF History
<1> PICK h \in Seq(Token) : h = History(r, g, n) /\ Len(h) = n
  BY <1>1, <1>2
<1>3. ASSUME NEW c \in Nat  PROVE SubSeq(h, c + 1, n) \in Seq(Token)
  OBVIOUS
<1> QED BY <1>1, <1>3

(* So are those an output holds for a request. *)
LEMMA SampledOfTokens ==
  ASSUME NEW o \in Outputs, GenuineOutput(o), NEW r \in Req
  PROVE  /\ SampledOf(o, r) \in Seq(Token)
         /\ Len(SampledOf(o, r)) = IF r \in InBatch(o.reqs) \ o.partial THEN 1 ELSE 0
<1>1. CASE r \in InBatch(o.reqs) \ o.partial
  <2>1. PICK p \in DOMAIN o.reqs : o.reqs[p] = r /\ TokenFor(o, r) = o.toks[p]
    BY <1>1 DEF InBatch, TokenFor
  <2>2. TokenFor(o, r) \in Token
    BY <2>1 DEF GenuineOutput, Outputs
  <2>3. SampledOf(o, r) = << TokenFor(o, r) >>
    BY <1>1 DEF SampledOf, TokenFor
  <2>4. \A t \in Token : << t >> \in Seq(Token) /\ Len(<< t >>) = 1
    OBVIOUS
  <2> QED BY <1>1, <2>2, <2>3, <2>4
<1>2. CASE r \notin InBatch(o.reqs) \ o.partial
  <2>1. << >> \in Seq(Token) /\ Len(<< >>) = 0
    OBVIOUS
  <2> QED BY <1>2, <2>1 DEF SampledOf
<1> QED BY <1>1, <1>2

(* An output that becomes a list. *)
LEMMA ListOutput ==
  ASSUME NEW o \in Outputs
  PROVE  [o EXCEPT !.list = TRUE] \in Outputs
BY DEF Outputs

(* No more than the last n elements. *)
LEMMA LastNLength ==
  ASSUME NEW S, NEW s \in Seq(S), NEW n \in Nat
  PROVE  Len(LastN(s, n)) \in Nat /\ Len(LastN(s, n)) <= n
<1>1. CASE n >= Len(s)
  BY <1>1 DEF LastN
<1>2. CASE ~(n >= Len(s))
  <2> PICK m \in Nat : m = Len(s) /\ n < m
    BY <1>2
  <2>1. Len(SubSeq(s, m - n + 1, m)) = n
    OBVIOUS
  <2> QED BY <1>2, <2>1 DEF LastN
<1> QED BY <1>1, <1>2

(* What an output brings to the rows. *)
LEMMA MaterializeBounds ==
  ASSUME Types, Narrow, NEW o \in Outputs, o \in AnyOutput, GenuineOutput(o)
  PROVE  /\ HostAfter(o) \in [Req -> Seq(Token)]
         /\ OutIdsAfter(o) \in [Req -> Seq(Token)]
         /\ \A r \in Req : /\ r \notin InBatch(batch) => OutIdsAfter(o)[r] = outIds[r]
                           /\ Len(HostAfter(o)[r]) <= Len(host[r]) + Pending(o, r)
<1>1. ASSUME NEW r \in Req
      PROVE  /\ HostAfter(o)[r] \in Seq(Token) /\ OutIdsAfter(o)[r] \in Seq(Token)
             /\ r \notin InBatch(batch) => OutIdsAfter(o)[r] = outIds[r]
             /\ Len(HostAfter(o)[r]) <= Len(host[r]) + Pending(o, r)
  <2> PICK h \in Seq(Token) : h = host[r]
    BY DEF Narrow
  <2> PICK u \in Seq(Token) : u = outIds[r]
    BY DEF Narrow
  <2>1. /\ SampledOf(o, r) \in Seq(Token)
        /\ Len(SampledOf(o, r)) = IF r \in InBatch(o.reqs) \ o.partial THEN 1 ELSE 0
    BY SampledOfTokens
  <2>2. << >> \in Seq(Token) /\ Len(<< >>) = 0
    OBVIOUS
  <2>3. PICK w \in Seq(Token) : w = Written(o, r) /\ (r \notin InBatch(batch) => w = << >>)
                                /\ (w = SampledOf(o, r) \/ w = << >>)
    BY <2>1, <2>2 DEF Written
  <2>4. /\ h \o w \in Seq(Token) /\ Len(h \o w) = Len(h) + Len(w)
        /\ u \o w \in Seq(Token) /\ (w = << >> => u \o w = u)
    OBVIOUS
  <2>5. CASE Effective(o)
    <3>1. HostAfter(o)[r] = h \o w /\ OutIdsAfter(o)[r] = u \o w
      BY <2>3, <2>5 DEF HostAfter, OutIdsAfter
    <3>2. Len(w) <= Pending(o, r)
      <4>1. r \in InBatch(o.reqs) \ o.partial => Pending(o, r) = 1
        BY <2>5, SampledLemma DEF Pending, Effective
      <4> PICK y \in {0, 1} : y = Pending(o, r)
        BY DEF Pending
      <4>2. CASE r \in InBatch(o.reqs) \ o.partial
        <5>1. Pending(o, r) = 1 /\ (Len(w) = 1 \/ Len(w) = 0)
          BY <2>1, <2>2, <2>3, <4>1, <4>2
        <5>2. 1 <= 1 /\ 0 <= 1
          OBVIOUS
        <5> QED BY <5>1, <5>2, Zenon
      <4>3. CASE r \notin InBatch(o.reqs) \ o.partial
        <5>1. Len(w) = 0
          BY <2>1, <2>2, <2>3, <4>3
        <5> QED BY <5>1
      <4> QED BY <4>2, <4>3
    <3>3. Len(h) \in Nat /\ Len(w) \in Nat /\ Pending(o, r) \in {0, 1}
      BY DEF Pending
    <3>4. Len(h \o w) <= Len(h) + Pending(o, r)
      BY <2>4, <3>2, <3>3
    <3> QED BY <2>3, <2>4, <3>1, <3>4
  <2>6. CASE ~Effective(o)
    <3>1. HostAfter(o)[r] = h /\ OutIdsAfter(o)[r] = u
      BY <2>6 DEF HostAfter, OutIdsAfter
    <3>2. Len(h) \in Nat /\ Pending(o, r) \in {0, 1}
      BY DEF Pending
    <3> QED BY <3>1, <3>2
  <2> QED BY <2>5, <2>6
<1> QED BY <1>1 DEF HostAfter, OutIdsAfter

(* On the output rank the rows say so already. *)
LEMMA HostRowsLag == HInv /\ outputRank => RowsLag
<1> SUFFICES ASSUME HInv, outputRank, NEW r \in InBatch(batch), Pos0(r) >= 0
             PROVE  Len(host[r]) + Pending(last, r) <= Pos0(r) + 1
  BY DEF RowsLag
<1>1. Types /\ Objects /\ HostRows
  BY DEF HInv, IInv
<1>2. r \in Req
  BY <1>1 DEF Types, InBatch
<1> PICK h \in Nat : h = Len(host[r])
  BY <1>1, <1>2 DEF Types
<1> PICK x \in Int : x = Pos0(r)
  BY <1>1, <1>2, PipelineType
<1> PICK y \in {0, 1} : y = Pending(last, r)
  BY DEF Pending
<1> PICK z \in {0, 1} : z = Earlier(r)
  BY DEF Earlier, Pending
<1>3. h + y + z = x + 1
  BY <1>1 DEF HostRows
<1> QED BY <1>3

(* Rows that lag behind their last token bound their output ids. *)
RowsBounded ==
  \A r \in InBatch(batch) : Pos0(r) >= 0 => Len(outIds[r]) <= MaxOut

LEMMA LagBounds == Types /\ Objects /\ OutputsBelow /\ RowsLag => RowsBounded
<1> SUFFICES ASSUME Types, Objects, OutputsBelow, RowsLag,
                    NEW r \in InBatch(batch), Pos0(r) >= 0
             PROVE  Len(outIds[r]) <= MaxOut
  BY DEF RowsBounded
<1>1. r \in Req
  BY DEF Types, InBatch
<1> PICK h \in Nat : h = Len(host[r])
  BY <1>1 DEF Types
<1> PICK u \in Nat : u = Len(outIds[r])
  BY <1>1 DEF Types
<1> PICK x \in Int : x = Pos0(r)
  BY <1>1, PipelineType
<1> PICK y \in {0, 1} : y = Pending(last, r)
  BY DEF Pending
<1>2. h = PromptLen + u /\ h + y <= x + 1 /\ x < MaxPos
  BY <1>1 DEF Types, OutputsBelow, RowsLag, Below, Pos0
<1> QED BY <1>2, LagBound

(* The main thread's get_output, or none. *)
LEMMA MaterializeNarrow ==
  ASSUME TInv, HInv', MaterializeLast \/ UNCHANGED <<host, outIds, last, outputs>>,
         batch' = batch, outputRank' = outputRank
  PROVE  /\ host' \in [Req -> Seq(Token)] /\ outIds' \in [Req -> Seq(Token)]
         /\ \A r \in Req : Len(outIds'[r]) <= MaxOut
         /\ last' \in Outputs /\ outputs' \in Seq(Outputs)
         /\ OutputsBelow' /\ RowsLag'
<1>1. /\ Types /\ Objects /\ Narrow /\ OutputsBelow /\ RowsLag
      /\ Types' /\ Objects'
  BY DEF TInv, HInv, IInv
<1>2. CASE UNCHANGED <<host, outIds, last, outputs>>
  BY <1>1, <1>2 DEF Narrow, OutputsBelow, RowsLag, Below, Pos0, Pending, InBatch
<1>3. CASE MaterializeLast
  <2>1. last \in Outputs /\ last \in AnyOutput /\ GenuineOutput(last)
    BY <1>1 DEF Types, Objects, Narrow
  <2>2. /\ host' \in [Req -> Seq(Token)] /\ outIds' \in [Req -> Seq(Token)]
        /\ \A r \in Req : /\ r \notin InBatch(batch) => outIds'[r] = outIds[r]
                          /\ Len(host'[r]) <= Len(host[r]) + Pending(last, r)
    BY <1>1, <1>3, <2>1, MaterializeBounds DEF MaterializeLast
  <2>3. Kept
    BY <1>1, <1>3, MaterializeKeeps
  <2>4. last' \in Outputs /\ last'.list = TRUE
    BY <1>3, <2>1 DEF MaterializeLast, Outputs
  <2>5. outputs' \in Seq(Outputs)
    <3> PICK s \in Seq(Outputs) : s = outputs
      BY <1>1 DEF Narrow
    <3>1. \A i \in 1 .. Len(s) : [s[i] EXCEPT !.list = TRUE] \in Outputs
      BY ListOutput
    <3>2. CASE s = << >>
      BY <1>3, <3>2 DEF MaterializeLast
    <3>3. CASE s # << >>
      <4>1. outputs' = [s EXCEPT ![Len(s)] = [s[Len(s)] EXCEPT !.list = TRUE]]
        BY <1>3, <3>3 DEF MaterializeLast
      <4>2. Len(s) \in 1 .. Len(s)
        BY <3>3
      <4> QED BY <3>1, <4>1, <4>2
    <3> QED BY <3>2, <3>3
  <2>6. \A r \in Req : Pos0(r)' = Pos0(r)
    BY <1>1, <2>3, KeptPipeline
  <2>7. OutputsBelow'
    <3>1. Below(last')
      BY <1>1, <2>3 DEF OutputsBelow, Below, Kept, Pos0
    <3>2. \A i \in DOMAIN outputs' : Below(outputs'[i])
      BY <1>1, <2>3 DEF OutputsBelow, Below, Kept
    <3> QED BY <3>1, <3>2 DEF OutputsBelow, Below
  <2>8. RowsLag'
    <3> SUFFICES ASSUME NEW r \in InBatch(batch), Pos0(r)' >= 0
                 PROVE  Len(host'[r]) + Pending(last', r) <= Pos0(r)' + 1
      BY DEF RowsLag, InBatch, Pending
    <3>1. r \in Req
      BY <1>1 DEF Types, InBatch
    <3> PICK h \in Nat : h = Len(host[r])
      BY <1>1, <3>1 DEF Types
    <3> PICK m \in Nat : m = Len(host'[r])
      BY <2>2, <3>1
    <3> PICK x \in Int : x = Pos0(r)
      BY <1>1, <3>1, PipelineType
    <3> PICK y \in {0, 1} : y = Pending(last, r)
      BY DEF Pending
    <3>2. h + y <= x + 1
      BY <1>1, <2>6, <3>1 DEF RowsLag
    <3>3. m <= h + y /\ Pending(last', r) = 0 /\ Pos0(r)' = x
      BY <2>2, <2>4, <2>6, <3>1 DEF Pending
    <3> QED BY <3>2, <3>3
  <2>9. ASSUME NEW r \in Req  PROVE Len(outIds'[r]) <= MaxOut
    <3>1. CASE r \notin InBatch(batch)
      BY <1>1, <2>2, <3>1 DEF Narrow
    <3>2. CASE r \in InBatch(batch) /\ Pos0(r) < 0
      BY <1>1, <2>3, <3>2 DEF Narrow, Kept
    <3>3. CASE r \in InBatch(batch) /\ Pos0(r) >= 0
      <4>1. RowsBounded'
        BY <1>1, <2>7, <2>8, LagBounds, PTL
      <4>2. r \in InBatch(batch)' /\ Pos0(r)' >= 0
        BY <2>6, <3>3 DEF InBatch
      <4> QED BY <4>1, <4>2 DEF RowsBounded
    <3>4. Pos0(r) \in Int
      BY <1>1, PipelineType
    <3> QED BY <3>1, <3>2, <3>3, <3>4
  <2> QED BY <2>2, <2>4, <2>5, <2>7, <2>8, <2>9
<1> QED BY <1>2, <1>3

(* A step begins. *)
LEMMA BeginNarrow ==
  ASSUME TInv, HInv', queue # << >>, Begin(Head(queue)), queue' = Tail(queue),
         UNCHANGED <<status, gen, computed, outs, known, finished>>
  PROVE  TInv'
<1>1. Narrow
  BY DEF TInv
<1>2. /\ step' = Head(queue) /\ UNCHANGED <<outputRank, batch, ids>>
      /\ MaterializeLast \/ UNCHANGED <<host, outIds, last, outputs>>
  BY DEF Begin
<1>3. /\ host' \in [Req -> Seq(Token)] /\ outIds' \in [Req -> Seq(Token)]
      /\ \A r \in Req : Len(outIds'[r]) <= MaxOut
      /\ last' \in Outputs /\ outputs' \in Seq(Outputs)
      /\ OutputsBelow' /\ RowsLag'
  BY <1>2, MaterializeNarrow
<1>4. Head(queue) \in Steps /\ Tail(queue) \in Seq(Steps)
  BY <1>1 DEF Narrow
<1>5. Narrow'
  BY <1>1, <1>2, <1>3, <1>4 DEF Narrow
<1> QED BY <1>3, <1>5 DEF TInv

(* A step's inputs and its end are within the model's positions. *)
LEMMA StepBounds ==
  ASSUME Types, StepsFit, pc # "idle", NEW r \in Scheduled(step)
  PROVE  /\ r \in Req /\ End(step, r) \in Nat
         /\ End(step, r) <= PromptLen + step.outs[r] /\ step.outs[r] < MaxOut
         /\ End(step, r) < MaxPos
<1>1. r \in Req
  BY DEF Scheduled
<1>2. step \in AnyStep
  BY DEF Types
<1>3. Fits(Pos0(r), Stay0(r), step, r)
  BY DEF StepsFit, Ahead1
<1>4. End(step, r) \in Nat /\ step.outs[r] \in Nat
  BY <1>1, <1>2, StepFields
<1>5. End(step, r) <= PromptLen + step.outs[r]
  BY <1>1, <1>2, <1>3, FitsEnd
<1>6. step.outs[r] < MaxOut
  BY <1>3 DEF Fits, DecodeFits, PrefillFits
<1> QED BY <1>1, <1>4, <1>5, <1>6, AsyncBoundAssumption DEF MaxPos

(* Input preparation reads rows and what lies past them. *)
LEMMA PrepareNarrow ==
  ASSUME TInv, HInv', Prepare, UNCHANGED schedulerVars
  PROVE  TInv'
<1>1. Narrow /\ Types /\ Types' /\ OutputsBelow /\ RowsLag
  BY DEF TInv, HInv, IInv
<1>2. /\ UNCHANGED <<step, batch, host, outIds, last, outputs>>
      /\ UNCHANGED <<computed, outs, known, queue>>
      /\ ids' = [p \in DOMAIN batch |-> Gathered(host[batch[p]], batch[p])]
  BY DEF Prepare, schedulerVars
<1>3. ASSUME NEW p \in DOMAIN batch
      PROVE  Gathered(host[batch[p]], batch[p]) \in Seq(Token)
  <2>1. batch[p] \in Req
    BY <1>1 DEF Types
  <2> PICK row \in Seq(Token) : row = host[batch[p]]
    BY <1>1, <2>1 DEF Narrow
  <2>2. step.toks[batch[p]] \in Nat /\ step.computed[batch[p]] \in Nat
    BY <1>1, <2>1, StepFields DEF Types
  <2>3. Garbage \in Token
    BY AsyncBoundAssumption DEF Garbage, Token, MaxPos
  <2>4. \A i \in 1 .. step.toks[batch[p]] :
          (IF step.computed[batch[p]] + i <= Len(row) THEN row[step.computed[batch[p]] + i]
                                                      ELSE Garbage) \in Token
    BY <2>2, <2>3
  <2> QED BY <2>2, <2>4 DEF Gathered
<1>4. ids' \in Seq(Seq(Token))
  <2>1. DOMAIN batch = 1 .. Len(batch) /\ Len(batch) \in Nat
    BY <1>1 DEF Types
  <2> QED BY <1>2, <1>3, <2>1
<1>5. Narrow'
  BY <1>1, <1>2, <1>4 DEF Narrow
<1>6. OutputsBelow' /\ RowsLag'
  BY <1>1, <1>2 DEF OutputsBelow, RowsLag, Below, Pos0, Pending, InBatch
<1> QED BY <1>5, <1>6 DEF TInv

(* What the future, the rows and the fixup feed is what is due. *)
LEMMA SwapNarrow ==
  ASSUME TInv, HInv', Swap, UNCHANGED schedulerVars
  PROVE  TInv'
<1>1. Narrow /\ Types /\ Types' /\ IInv /\ StepsFit /\ RowsReady /\ pc = "swap"
  BY DEF TInv, HInv, IInv, Swap
<1>2. /\ UNCHANGED <<outputRank, step, batch>>
      /\ UNCHANGED <<computed, outs, known, queue>>
      /\ MaterializeLast \/ UNCHANGED <<host, outIds, last, outputs>>
  BY DEF Swap, schedulerVars
<1>3. /\ host' \in [Req -> Seq(Token)] /\ outIds' \in [Req -> Seq(Token)]
      /\ \A r \in Req : Len(outIds'[r]) <= MaxOut
      /\ last' \in Outputs /\ outputs' \in Seq(Outputs)
      /\ OutputsBelow' /\ RowsLag'
  BY <1>2, MaterializeNarrow
<1>4. ids' \in Seq(Seq(Token))
  <2>1. /\ DOMAIN ids' = DOMAIN batch
        /\ \A p \in DOMAIN batch : ids'[p] = Due(step, batch[p])
    BY <1>1, SwapFeeds
  <2>2. ASSUME NEW p \in DOMAIN batch  PROVE Due(step, batch[p]) \in Seq(Token)
    <3>1. batch[p] \in Req /\ batch[p] \in Scheduled(step)
      BY <1>1, BatchRows
    <3>2. /\ step.computed[batch[p]] \in Nat
          /\ step.computed[batch[p]] + step.toks[batch[p]] \in Nat
          /\ step.computed[batch[p]] + step.toks[batch[p]] <= MaxPos
      <4>1. step.computed[batch[p]] \in Nat
        BY <1>1, <3>1, StepFields DEF Types
      <4> QED BY <1>1, <3>1, <4>1, StepBounds, AsyncBoundAssumption DEF End, MaxPos
    <3>3. 1 \in 0 .. MaxGen
      BY AsyncBoundAssumption
    <3> QED BY <3>1, <3>2, <3>3, HistoryTokens DEF Due, Owed
  <2>3. ids' \in Seq(Seq(AnyToken))
    BY <1>1 DEF Types
  <2>4. \A i \in 1 .. Len(ids') : ids'[i] \in Seq(Token)
    BY <2>1, <2>2, <2>3
  <2> QED BY <2>3, <2>4, SmallerElements
<1>5. Narrow'
  BY <1>1, <1>2, <1>3, <1>4 DEF Narrow
<1> QED BY <1>3, <1>5 DEF TInv

(* Rows that _update_states keeps, trims, drops or brings back. *)
LEMMA UpdatedTokens ==
  ASSUME Types, Narrow, pc = "update", NEW r \in Req
  PROVE  /\ UpdatedOutIds(step, r) \in Seq(Token)
         /\ Len(UpdatedOutIds(step, r)) <= MaxOut
         /\ UpdatedHost(step, r) \in Seq(Token)
         /\ r \in Scheduled(step) /\ r \in InBatch(batch) \ (step.finished \cup step.new) =>
              Len(UpdatedHost(step, r)) <= Len(host[r])
<1>1. /\ step.outs[r] \in 0 .. MaxOut /\ step.gen[r] \in 0 .. MaxGen
      /\ step.known[r] \in Seq(Token) /\ outIds[r] \in Seq(Token) /\ host[r] \in Seq(Token)
      /\ Len(outIds[r]) <= MaxOut
  BY DEF Narrow, Steps
<1>2. PromptLen \in Nat /\ MaxOut \in Nat /\ PromptLen <= MaxPos
  BY AsyncBoundAssumption DEF MaxPos
<1> PICK n \in Nat : n = step.outs[r] /\ n <= MaxOut
  BY <1>1, <1>2
<1> PICK k \in Seq(Token) : k = step.known[r]
  BY <1>1
<1> PICK u \in Seq(Token) : u = outIds[r] /\ Len(u) <= MaxOut
  BY <1>1
<1> PICK w \in Seq(Token) : w = host[r]
  BY <1>1
<1> PICK h \in Seq(Token) : h = History(r, step.gen[r], PromptLen)
  BY <1>1, <1>2, HistoryTokens
<1>3. LastN(h \o k, n) \in Seq(Token) /\ Len(LastN(h \o k, n)) <= n
  <2>1. h \o k \in Seq(Token)
    OBVIOUS
  <2> QED BY <2>1, LastNLemma, LastNLength
<1>4. << >> \in Seq(Token) /\ Len(<< >>) = 0
  OBVIOUS
<1>5. n < Len(u) => SubSeq(u, 1, n) \in Seq(Token) /\ Len(SubSeq(u, 1, n)) = n
  <2>1. n < Len(u) => n <= Len(u)
    OBVIOUS
  <2> QED BY <2>1, PrefixLemma
<1>6. UpdatedOutIds(step, r) \in
        {<< >>, LastN(h \o k, n), u} \cup (IF n < Len(u) THEN {SubSeq(u, 1, n)} ELSE {})
  BY DEF UpdatedOutIds
<1> PICK v : v = UpdatedOutIds(step, r)
  OBVIOUS
<1>7. v \in Seq(Token) /\ Len(v) <= MaxOut
  <2>1. CASE v = << >>
    BY <1>2, <1>4, <2>1
  <2>2. CASE v = LastN(h \o k, n)
    <3> PICK l \in Nat : l = Len(LastN(h \o k, n))
      BY <1>3
    <3> QED BY <1>2, <1>3, <2>2
  <2>3. CASE v = u
    BY <2>3
  <2>4. CASE n < Len(u) /\ v = SubSeq(u, 1, n)
    BY <1>5, <2>4
  <2> QED BY <1>6, <2>1, <2>2, <2>3, <2>4
<1>8. h \o v \in Seq(Token)
  BY <1>7
<1>9. CASE r \notin Scheduled(step)
  BY <1>4, <1>7, <1>9 DEF UpdatedHost
<1>10. CASE r \in Scheduled(step) /\ ~(r \in InBatch(batch) \ (step.finished \cup step.new))
  BY <1>7, <1>8, <1>10 DEF UpdatedHost
<1>11. CASE r \in Scheduled(step) /\ r \in InBatch(batch) \ (step.finished \cup step.new)
  <2>1. Len(w) = PromptLen + Len(u) /\ Len(u) \in Nat
    BY <1>11 DEF Types
  <2>2. CASE n < Len(u)
    <3>1. UpdatedHost(step, r) = SubSeq(w, 1, PromptLen + n)
      BY <1>11, <2>2 DEF UpdatedHost
    <3>2. PromptLen + n \in Nat /\ PromptLen + n <= Len(w)
      BY <1>2, <2>1, <2>2
    <3> PICK e \in Nat : e = PromptLen + n /\ e <= Len(w)
      BY <3>2
    <3>3. SubSeq(w, 1, e) \in Seq(Token) /\ Len(SubSeq(w, 1, e)) = e
      BY PrefixLemma
    <3> QED BY <1>7, <3>1, <3>3
  <2>3. CASE ~(n < Len(u))
    <3>1. UpdatedHost(step, r) = w
      BY <1>11, <2>3 DEF UpdatedHost
    <3> QED BY <1>7, <3>1
  <2> QED BY <2>2, <2>3
<1> QED BY <1>9, <1>10, <1>11

(* _update_states; a row it trims does not lag less. *)
LEMMA UpdateNarrow ==
  ASSUME TInv, HInv', UpdateStates, UNCHANGED schedulerVars
  PROVE  TInv'
<1>1. /\ IInv /\ Narrow /\ Types /\ Objects /\ OutputsBelow /\ RowsLag
      /\ StepsFit /\ Carried /\ Types'
  BY DEF TInv, HInv, IInv
<1>2. /\ UNCHANGED <<outputRank, step, ids, last, outputs>>
      /\ UNCHANGED <<computed, outs, known, queue>>
      /\ host' = [r \in Req |-> UpdatedHost(step, r)]
      /\ outIds' = [r \in Req |-> UpdatedOutIds(step, r)]
      /\ pc = "update" /\ InBatch(batch)' = Scheduled(step)
      /\ \A r \in Req : Pos0(r)' = Pos0(r)
  BY <1>1, UpdateFacts DEF UpdateStates, schedulerVars
<1>3. Narrow'
  <2>1. \A r \in Req : /\ UpdatedOutIds(step, r) \in Seq(Token)
                       /\ Len(UpdatedOutIds(step, r)) <= MaxOut
                       /\ UpdatedHost(step, r) \in Seq(Token)
    BY <1>1, <1>2, UpdatedTokens
  <2>2. /\ host' \in [Req -> Seq(Token)] /\ outIds' \in [Req -> Seq(Token)]
        /\ \A r \in Req : Len(outIds'[r]) <= MaxOut
    BY <1>2, <2>1
  <2> QED BY <1>1, <1>2, <2>2 DEF Narrow
<1>4. OutputsBelow'
  BY <1>1, <1>2 DEF OutputsBelow, Below
<1>5. RowsLag'
  <2> SUFFICES ASSUME NEW r \in Scheduled(step), Pos0(r) >= 0
               PROVE  Len(host'[r]) + Pending(last, r) <= Pos0(r) + 1
    <3>1. Scheduled(step) \subseteq Req
      BY DEF Scheduled
    <3>2. \A r \in Req : Pending(last, r)' = Pending(last, r)
      BY <1>2 DEF Pending
    <3> QED BY <1>2, <3>1, <3>2 DEF RowsLag
  <2>1. r \in Req /\ Ahead1 = step
    BY <1>2 DEF Scheduled, Ahead1
  <2>2. r \in InBatch(batch) /\ r \notin step.finished
    BY <1>1, <1>2, <2>1 DEF Carried, In0
  <2>3. r \notin step.new
    <3>1. Fits(Pos0(r), Stay0(r), step, r)
      BY <1>1, <2>1 DEF StepsFit
    <3>2. Pos0(r) \in Int
      BY <1>1, <2>1, PipelineType
    <3> QED BY <3>1, <3>2 DEF Fits, DecodeFits, PrefillFits
  <2> PICK h \in Nat : h = Len(host[r])
    BY <1>1, <2>1 DEF Types
  <2> PICK m \in Nat : m = Len(host'[r])
    BY <1>1, <2>1 DEF Types
  <2> PICK x \in Int : x = Pos0(r)
    BY <1>1, <2>1, PipelineType
  <2> PICK y \in {0, 1} : y = Pending(last, r)
    BY DEF Pending
  <2>4. m <= h
    BY <1>1, <1>2, <2>1, <2>2, <2>3, UpdatedTokens
  <2>5. h + y <= x + 1
    BY <1>1, <2>2 DEF RowsLag
  <2> QED BY <2>4, <2>5
<1> QED BY <1>3, <1>4, <1>5 DEF TInv

(* A token sampled is the one after the step's end. *)
LEMMA SampleNarrow ==
  ASSUME TInv, HInv', SampleTokens, UNCHANGED schedulerVars
  PROVE  TInv'
<1>1. /\ IInv /\ Narrow /\ Types /\ Objects /\ OutputsBelow /\ RowsLag
      /\ StepsFit /\ RowsReady /\ Types' /\ Objects'
  BY DEF TInv, HInv, IInv
<1>2. /\ pc = "sample" /\ outputs' = Append(outputs, last')
      /\ last' = [reqs |-> batch,
                  toks |-> [p \in DOMAIN batch |->
                              SampledFrom(ids[p], batch[p], step.gen[batch[p]])],
                  partial |-> Partial(step), list |-> FALSE]
      /\ UNCHANGED <<outputRank, step, batch, host, outIds, ids>>
      /\ UNCHANGED <<computed, outs, known, queue>>
  BY DEF SampleTokens, schedulerVars
<1>3. /\ last' \in AnyOutput
      /\ \A r \in Req : Sampled(last', r) = Samples(step, r)
  BY <1>1, SampledTokens
<1>4. /\ DOMAIN batch = 1 .. Len(batch) /\ Len(batch) \in Nat /\ batch \in Seq(Req)
      /\ InBatch(batch) = Scheduled(step) /\ step \in AnyStep
      /\ Scheduled(step) \subseteq Req
  BY <1>1, <1>2 DEF Types, RowsReady, Scheduled
<1>5. last' \in Outputs
  <2>1. ASSUME NEW p \in DOMAIN batch
        PROVE  SampledFrom(ids[p], batch[p], step.gen[batch[p]]) \in Token
    <3>1. batch[p] \in Req /\ batch[p] \in Scheduled(step)
      BY <1>1, <1>2, BatchRows
    <3>2. step.gen[batch[p]] \in 0 .. MaxGen
      BY <1>1, <3>1 DEF Narrow, Steps
    <3>3. End(step, batch[p]) \in -1 .. MaxPos /\ -1 \in -1 .. MaxPos
      BY <1>1, <1>2, <3>1, StepBounds, AsyncBoundAssumption DEF MaxPos
    <3> QED BY <3>1, <3>2, <3>3 DEF SampledFrom, End, Token
  <2>2. last'.toks \in Seq(Token)
    BY <1>2, <1>4, <2>1
  <2>3. Partial(step) \subseteq Req
    BY <1>4 DEF Partial
  <2> QED BY <1>2, <1>4, <2>2, <2>3 DEF Outputs
<1>6. Below(last')
  <2> SUFFICES ASSUME NEW r \in Req  PROVE Samples(step, r) < MaxPos
    BY <1>3 DEF Below
  <2>1. CASE r \in Scheduled(step)
    <3>1. End(step, r) < MaxPos /\ MaxPos \in Nat
      BY <1>1, <1>2, <2>1, StepBounds, AsyncBoundAssumption DEF MaxPos
    <3> QED BY <2>1, <3>1 DEF Samples, Chunk
  <2>2. CASE r \notin Scheduled(step)
    BY <2>2, AsyncBoundAssumption DEF Samples, Nothing, MaxPos
  <2> QED BY <2>1, <2>2
<1>7. outputs' \in Seq(Outputs) /\ OutputsBelow'
  <2> PICK s \in Seq(Outputs) : s = outputs
    BY <1>1 DEF Narrow
  <2>1. /\ Append(s, last') \in Seq(Outputs) /\ Len(Append(s, last')) = Len(s) + 1
        /\ DOMAIN Append(s, last') = 1 .. Len(s) + 1
        /\ \A i \in 1 .. Len(s) : Append(s, last')[i] = s[i]
        /\ Append(s, last')[Len(s) + 1] = last'
    BY <1>5
  <2>2. ASSUME NEW i \in DOMAIN outputs'  PROVE Below(outputs'[i])
    <3>1. i \in 1 .. Len(s) \/ i = Len(s) + 1
      BY <1>2, <2>1
    <3>2. CASE i \in 1 .. Len(s)
      <4>1. outputs'[i] = outputs[i] /\ i \in DOMAIN outputs
        BY <1>2, <2>1, <3>2
      <4> QED BY <1>1, <4>1 DEF OutputsBelow
    <3>3. CASE i = Len(s) + 1
      BY <1>2, <1>6, <2>1, <3>3
    <3> QED BY <3>1, <3>2, <3>3
  <2>3. OutputsBelow'
    BY <1>6, <2>2 DEF OutputsBelow, Below
  <2> QED BY <1>2, <2>1, <2>3
<1>8. RowsLag'
  <2> SUFFICES ASSUME NEW r \in Scheduled(step), Samples(step, r) >= 0
               PROVE  Len(host[r]) + 1 <= Samples(step, r) + 1
    <3>1. InBatch(batch)' = Scheduled(step) /\ Scheduled(step) \subseteq Req
      BY <1>2, <1>4 DEF InBatch
    <3>2. ASSUME NEW r \in Scheduled(step), Samples(step, r) >= 0,
                 Len(host[r]) + 1 <= Samples(step, r) + 1
          PROVE  Len(host'[r]) + Pending(last', r) <= Samples(step, r) + 1
      <4>1. Pending(last', r) = 1
        BY <1>2, <1>3, <1>4, <3>2 DEF Pending
      <4> QED BY <1>2, <3>2, <4>1
    <3>3. \A r \in Req : Pos0(r)' = Samples(step, r) /\ Pending(last, r)' = Pending(last', r)
      BY <1>3 DEF Pos0, Pending, Sampled, TokenFor
    <3> QED BY <3>1, <3>2, <3>3 DEF RowsLag
  <2>1. r \in Req /\ r \in InBatch(batch) /\ Ahead1 = step
    BY <1>2, <1>4 DEF Ahead1
  <2>2. Fits(Pos0(r), Stay0(r), step, r)
    BY <1>1, <2>1 DEF StepsFit
  <2> PICK h \in Nat : h = Len(host[r])
    BY <1>1, <2>1 DEF Types
  <2> PICK x \in Int : x = Pos0(r)
    BY <1>1, <2>1, PipelineType
  <2> PICK y \in {0, 1} : y = Pending(last, r)
    BY DEF Pending
  <2> PICK e \in Nat : e = End(step, r)
    BY <1>4, <2>1, StepFields
  <2>3. Samples(step, r) = e /\ e >= PromptLen
    BY <1>4, <2>1, SamplesLemma
  <2>4. (x >= 0 => e = x + 1) /\ e = PromptLen + step.outs[r]
    BY <1>4, <2>1, <2>2, <2>3, FitsSampledEnd
  <2>5. x >= 0 => h + y <= x + 1
    BY <1>1, <2>1 DEF RowsLag
  <2>6. x < 0 => h = e
    <3>1. ASSUME x < 0  PROVE h = e
      <4>1. host[r] = History(r, 1, PromptLen + step.outs[r])
        BY <1>1, <1>2, <2>1, <3>1 DEF RowsReady, Row
      <4>2. step.outs[r] \in Nat /\ PromptLen \in Nat
        BY <1>4, <2>1, StepFields, AsyncBoundAssumption
      <4> QED BY <2>1, <2>4, <4>1, <4>2, HistoryLength
    <3> QED BY <3>1
  <2>7. h <= e
    BY <2>4, <2>5, <2>6
  <2> QED BY <2>3, <2>7
<1>9. Narrow'
  BY <1>1, <1>2, <1>5, <1>7 DEF Narrow
<1> QED BY <1>6, <1>7, <1>8, <1>9 DEF TInv

(* The runner stays as it is. *)
LEMMA RunnerNarrow ==
  ASSUME TInv, HInv', UNCHANGED runnerVars,
         computed' \in [Req -> 0 .. MaxPos], outs' \in [Req -> 0 .. MaxOut],
         known' \in [Req -> Seq(Token)], queue' \in Seq(Steps)
  PROVE  TInv'
<1>1. Narrow /\ OutputsBelow /\ RowsLag
  BY DEF TInv
<1>2. UNCHANGED <<step, batch, host, outIds, ids, last, outputs>>
  BY DEF runnerVars
<1>3. Narrow'
  BY <1>1, <1>2 DEF Narrow
<1>4. OutputsBelow' /\ RowsLag'
  BY <1>1, <1>2 DEF OutputsBelow, RowsLag, Below, Pos0, Pending, InBatch
<1> QED BY <1>3, <1>4 DEF TInv

(* A step is put in the queue. *)
LEMMA EnqueueNarrow ==
  ASSUME Types, Narrow, NEW new \in SUBSET Req, NEW prefill \in BOOLEAN,
         NEW toks \in [Req -> 0 .. MaxPos], NEW newOuts, Enqueue(new, prefill, toks, newOuts)
  PROVE  queue' \in Seq(Steps)
<1>1. [finished |-> finished, new |-> new, prefill |-> prefill, toks |-> toks,
       computed |-> computed, outs |-> outs, known |-> known, gen |-> gen] \in Steps
  BY DEF Types, Narrow, Steps
<1> PICK q \in Seq(Steps) : q = queue
  BY DEF Narrow
<1> QED BY <1>1 DEF Enqueue

(* A prefill ends within the received tokens. *)
LEMMA SchedulePrefillNarrow ==
  ASSUME TInv, HInv', NEW r \in Req, NEW n \in 1 .. MaxPos, SchedulePrefill(r, n)
  PROVE  TInv'
<1>1. Types /\ Narrow
  BY DEF TInv, HInv, IInv
<1>2. PromptLen \in Nat /\ MaxOut \in Nat /\ MaxPos = PromptLen + MaxOut
  BY AsyncBoundAssumption DEF MaxPos
<1> PICK c \in Nat : c = computed[r]
  BY <1>1 DEF Types
<1> PICK o \in 0 .. MaxOut : o = outs[r]
  BY <1>1 DEF Narrow
<1>3. /\ o < MaxOut /\ n \in 1 .. PromptLen + o - c
      /\ Enqueue(IF status[r] = "waiting" THEN {r} ELSE {}, TRUE,
                 [q \in Req |-> IF q = r THEN n ELSE 0],
                 [outs EXCEPT ![r] = IF n = PromptLen + Len(known[r]) - computed[r]
                                     THEN @ + 1 ELSE @])
      /\ computed' = [computed EXCEPT ![r] = c + n]
      /\ UNCHANGED <<runnerVars, gen, known>>
  BY DEF SchedulePrefill
<1>4. queue' \in Seq(Steps)
  <2>1. (IF status[r] = "waiting" THEN {r} ELSE {}) \in SUBSET Req
    OBVIOUS
  <2>2. [q \in Req |-> IF q = r THEN n ELSE 0] \in [Req -> 0 .. MaxPos]
    BY <1>2
  <2> QED BY <1>1, <1>3, <2>1, <2>2, EnqueueNarrow
<1>5. outs' \in [Req -> 0 .. MaxOut]
  <2>1. outs' \in {outs, [outs EXCEPT ![r] = o + 1]}
    BY <1>1, <1>3 DEF Enqueue, Narrow
  <2>2. o + 1 \in 0 .. MaxOut
    BY <1>2, <1>3
  <2> QED BY <1>1, <2>1, <2>2 DEF Narrow
<1>6. computed' \in [Req -> 0 .. MaxPos]
  <2>1. c + n \in 0 .. MaxPos
    <3>1. n \in Nat /\ n <= PromptLen + o - c /\ o \in Nat /\ o <= MaxOut
      BY <1>2, <1>3
    <3>2. c + n \in Nat /\ c + n <= PromptLen + MaxOut
      BY <1>2, <3>1
    <3> QED BY <1>2, <3>2
  <2> QED BY <1>1, <1>3, <2>1 DEF Narrow
<1>7. known' \in [Req -> Seq(Token)] /\ UNCHANGED runnerVars
  BY <1>1, <1>3 DEF Narrow
<1> QED BY <1>4, <1>5, <1>6, <1>7, RunnerNarrow

(* A decode ends one token before the outputs it counts. *)
LEMMA ScheduleDecodeNarrow ==
  ASSUME TInv, HInv', NEW P \in SUBSET Req, ScheduleDecode(P)
  PROVE  TInv'
<1>1. Types /\ Narrow /\ Latest
  BY DEF TInv, HInv, IInv
<1>2. PromptLen \in Nat /\ MaxOut \in Nat /\ MaxPos = PromptLen + MaxOut /\ PromptLen >= 1
  BY AsyncBoundAssumption DEF MaxPos
<1> PICK S : S = {r \in Req \ P : /\ status[r] = "running" /\ computed[r] >= PromptLen
                                  /\ outs[r] < MaxOut}
  OBVIOUS
<1> PICK one : one = [r \in Req |-> IF r \in S THEN 1 ELSE 0]
  OBVIOUS
<1>3. /\ Enqueue({}, FALSE, one, [r \in Req |-> outs[r] + one[r]])
      /\ computed' = [r \in Req |-> IF r \in P THEN 0 ELSE computed[r] + one[r]]
      /\ UNCHANGED <<runnerVars, gen, known>>
  BY DEF ScheduleDecode
<1>4. queue' \in Seq(Steps)
  <2>1. one \in [Req -> 0 .. MaxPos]
    BY <1>2
  <2>2. {} \in SUBSET Req /\ FALSE \in BOOLEAN
    OBVIOUS
  <2> QED BY <1>1, <1>3, <2>1, <2>2, EnqueueNarrow
<1>5. ASSUME NEW r \in Req
      PROVE  outs[r] + one[r] \in 0 .. MaxOut /\ computed[r] + one[r] \in 0 .. MaxPos
  <2>1. outs[r] \in 0 .. MaxOut /\ computed[r] \in 0 .. MaxPos
    BY <1>1 DEF Narrow
  <2>2. CASE r \in S
    <3>1. /\ status[r] # "idle" /\ computed[r] >= PromptLen /\ outs[r] < MaxOut
          /\ one[r] = 1
      BY <2>2
    <3>2. computed[r] = PromptLen + outs[r] - 1
      BY <1>1, <3>1 DEF Latest
    <3> QED BY <1>2, <2>1, <3>1, <3>2
  <2>3. CASE r \notin S
    BY <1>2, <2>1, <2>3
  <2> QED BY <2>2, <2>3
<1>6. outs' \in [Req -> 0 .. MaxOut] /\ computed' \in [Req -> 0 .. MaxPos]
  <2>1. outs' = [r \in Req |-> outs[r] + one[r]]
    BY <1>3 DEF Enqueue
  <2>2. 0 \in 0 .. MaxPos
    BY <1>2
  <2> QED BY <1>3, <1>5, <2>1, <2>2
<1>7. known' \in [Req -> Seq(Token)] /\ UNCHANGED runnerVars
  BY <1>1, <1>3 DEF Narrow
<1> QED BY <1>4, <1>6, <1>7, RunnerNarrow

(* A client that submits or ends a request starts its counts anew. *)
LEMMA ClientNarrow ==
  ASSUME TInv, HInv', NEW r \in Req, Submit(r) \/ Finish(r)
  PROVE  TInv'
<1>1. Narrow
  BY DEF TInv
<1>2. << >> \in Seq(Token) /\ 0 \in 0 .. MaxPos /\ 0 \in 0 .. MaxOut
  BY AsyncBoundAssumption DEF MaxPos
<1>3. /\ computed' \in {computed, [computed EXCEPT ![r] = 0]}
      /\ outs' \in {outs, [outs EXCEPT ![r] = 0]}
      /\ known' = [known EXCEPT ![r] = << >>]
      /\ queue' = queue /\ UNCHANGED runnerVars
  BY DEF Submit, Finish
<1>4. /\ computed' \in [Req -> 0 .. MaxPos] /\ outs' \in [Req -> 0 .. MaxOut]
      /\ known' \in [Req -> Seq(Token)] /\ queue' \in Seq(Steps)
  BY <1>1, <1>2, <1>3 DEF Narrow
<1> QED BY <1>3, <1>4, RunnerNarrow

(* The output thread writes the tokens of the oldest output. *)
LEMMA ReceiveNarrow ==
  ASSUME TInv, HInv', Receive
  PROVE  TInv'
<1>1. /\ IInv /\ Narrow /\ Types /\ Objects /\ Depth /\ OutputsBelow /\ RowsLag
      /\ Types' /\ Objects'
      /\ (outputRank => HostRows)
  BY DEF TInv, HInv, IInv
<1>2. /\ TakeOutput /\ outputs # << >> /\ outputs' = Tail(outputs)
      /\ UNCHANGED <<outputRank, step, batch, ids, queue>>
      /\ IF outputRank
         THEN /\ host' = HostAfter(Head(outputs)) /\ outIds' = OutIdsAfter(Head(outputs))
              /\ last' = IF Len(outputs) = 1 THEN [last EXCEPT !.list = TRUE] ELSE last
         ELSE UNCHANGED <<host, outIds, last>>
  BY DEF Receive, TakeOutput
<1>3. /\ Head(outputs) \in AnyOutput /\ GenuineOutput(Head(outputs))
      /\ \A r \in Req : Sampled(last', r) = Pos0(r)
      /\ \A r \in Req : Output(1, r) < 0 => outIds'[r] = outIds[r]
      /\ \A r \in Req : Sampled(Head(outputs), r) = Output(1, r)
  BY <1>1, <1>2, TakeKeeps
<1>4. Head(outputs) \in Outputs /\ Head(outputs) = outputs[1] /\ 1 \in DOMAIN outputs
  BY <1>1, <1>2 DEF Narrow
<1>5. outputs' \in Seq(Outputs) /\ (\A i \in DOMAIN outputs' : Below(outputs'[i]))
  <2> PICK s \in Seq(Outputs) : s = outputs /\ Len(s) >= 1
    BY <1>1, <1>2 DEF Narrow
  <2>1. /\ Tail(s) \in Seq(Outputs) /\ Len(Tail(s)) = Len(s) - 1
        /\ \A i \in 1 .. Len(s) - 1 : Tail(s)[i] = s[i + 1]
    OBVIOUS
  <2>2. ASSUME NEW i \in DOMAIN outputs'  PROVE Below(outputs'[i])
    <3>1. i \in 1 .. Len(s) - 1 /\ i + 1 \in DOMAIN outputs
      BY <1>2, <2>1
    <3>2. outputs'[i] = outputs[i + 1]
      BY <1>2, <2>1, <3>1
    <3> QED BY <1>1, <3>1, <3>2 DEF OutputsBelow
  <2> QED BY <1>2, <2>1, <2>2
<1>6. last' \in Outputs /\ Below(last')
  <2>1. last' \in Outputs
    BY <1>1, <1>2 DEF Narrow, Outputs
  <2>2. Below(last')
    BY <1>1, <1>3 DEF OutputsBelow, Below, Pos0
  <2> QED BY <2>1, <2>2
<1>7. OutputsBelow'
  BY <1>5, <1>6 DEF OutputsBelow, Below
<1>8. RowsLag'
  <2>1. CASE outputRank
    <3>1. HInv' /\ outputRank'
      BY <1>2, <2>1
    <3> QED BY <3>1, HostRowsLag, PTL
  <2>2. CASE ~outputRank
    BY <1>1, <1>2, <2>2 DEF RowsLag, Pos0, Pending, InBatch
  <2> QED BY <2>1, <2>2
<1>9. /\ host' \in [Req -> Seq(Token)] /\ outIds' \in [Req -> Seq(Token)]
      /\ \A r \in Req : Len(outIds'[r]) <= MaxOut
  <2>1. CASE ~outputRank
    BY <1>1, <1>2, <2>1 DEF Narrow
  <2>2. CASE outputRank
    <3>1. /\ host' \in [Req -> Seq(Token)] /\ outIds' \in [Req -> Seq(Token)]
          /\ \A r \in Req : r \notin InBatch(batch) => outIds'[r] = outIds[r]
      BY <1>1, <1>2, <1>3, <1>4, <2>2, MaterializeBounds
    <3>2. ASSUME NEW r \in Req  PROVE Len(outIds'[r]) <= MaxOut
      <4>1. CASE r \notin InBatch(batch)
        BY <1>1, <3>1, <4>1 DEF Narrow
      <4>2. CASE r \in InBatch(batch) /\ Output(1, r) < 0
        BY <1>1, <1>3, <4>2 DEF Narrow
      <4>3. CASE r \in InBatch(batch) /\ Output(1, r) >= 0
        <5>1. Pos0(r) >= 0
          <6>1. CASE Len(outputs) = 1
            <7>1. outputs[1] = last
              BY <1>1, <1>2, <6>1 DEF Objects
            <7>2. Sampled(outputs[1], r) = Output(1, r)
              BY <1>1, <1>3, <1>4, <4>3 DEF Types, InBatch
            <7>3. Pos0(r) = Output(1, r)
              BY <7>1, <7>2 DEF Pos0
            <7> QED BY <4>3, <7>3
          <6>2. CASE Len(outputs) # 1
            <7>1. Len(outputs) = 2
              <8> PICK s \in Seq(AnyOutput) : s = outputs
                BY <1>1 DEF Types
              <8> PICK k \in Nat : k = Len(queue)
                BY <1>1 DEF Types
              <8> PICK y \in {0, 1} : y = IF pc = "idle" THEN 0 ELSE 1
                OBVIOUS
              <8> PICK n \in Nat : n = Len(s)
                OBVIOUS
              <8>1. n >= 1 /\ n # 1
                BY <1>2, <6>2
              <8>2. k + y + n <= 2
                BY <1>1 DEF Depth, UnderWay
              <8>3. n = 2
                BY <8>1, <8>2
              <8> QED BY <8>3
            <7>2. Sampled(outputs[1], r) >= 0
              BY <1>3, <1>4, <4>3
            <7>3. Pos0(r) = Sampled(outputs[1], r) + 1
              BY <1>1, <2>2, <4>3, <7>1, <7>2 DEF HostRows
            <7>4. Sampled(outputs[1], r) \in Int
              BY <1>3, <1>4, SampledLemma
            <7> QED BY <7>2, <7>3, <7>4
          <6> QED BY <6>1, <6>2
        <5>2. RowsBounded'
          BY <1>1, <1>7, <1>8, LagBounds, PTL
        <5>3. r \in InBatch(batch)' /\ Pos0(r)' = Pos0(r)
          BY <1>2, <1>3, <4>3 DEF InBatch, Pos0
        <5> QED BY <5>1, <5>2, <5>3 DEF RowsBounded
      <4>4. Output(1, r) \in Int
        BY <1>1, PipelineType
      <4> QED BY <4>1, <4>2, <4>3, <4>4
    <3> QED BY <3>1, <3>2
  <2> QED BY <2>1, <2>2
<1>10. /\ known' \in [Req -> Seq(Token)]
       /\ computed' \in [Req -> 0 .. MaxPos] /\ outs' \in [Req -> 0 .. MaxOut]
  <2>1. ASSUME NEW r \in Req
        PROVE  known[r] \o ReceivedFrom(Head(outputs), r) \in Seq(Token)
    <3>1. << >> \in Seq(Token)
      OBVIOUS
    <3>2. ReceivedFrom(Head(outputs), r) \in Seq(Token)
      BY <1>3, <1>4, <3>1, SampledOfTokens DEF ReceivedFrom
    <3> PICK k \in Seq(Token) : k = known[r]
      BY <1>1 DEF Narrow
    <3> QED BY <3>2
  <2>2. known' = [r \in Req |-> known[r] \o ReceivedFrom(Head(outputs), r)]
    BY DEF Receive
  <2> PICK done : done = {r \in Req : status[r] # "idle"
                            /\ Len(known'[r]) = MaxOut}
    OBVIOUS
  <2>3. /\ computed' = [r \in Req |-> IF r \in done THEN 0 ELSE computed[r]]
        /\ outs' = [r \in Req |-> IF r \in done THEN 0 ELSE outs[r]]
    BY <2>2 DEF Receive
  <2>4. 0 \in 0 .. MaxPos /\ 0 \in 0 .. MaxOut
    BY AsyncBoundAssumption DEF MaxPos
  <2> QED BY <1>1, <2>1, <2>2, <2>3, <2>4 DEF Narrow
<1>11. Narrow'
  BY <1>1, <1>2, <1>5, <1>6, <1>9, <1>10 DEF Narrow
<1> QED BY <1>7, <1>8, <1>11 DEF TInv

(* Initially there is nothing. *)
LEMMA InitTInv ==
  ASSUME ServingInit
  PROVE  TInv
<1>1. /\ step = NoStep /\ batch = << >> /\ ids = << >> /\ last = NoOutput
      /\ outputs = << >> /\ queue = << >>
      /\ host = [r \in Req |-> << >>] /\ outIds = [r \in Req |-> << >>]
      /\ computed = [r \in Req |-> 0] /\ outs = [r \in Req |-> 0]
      /\ known = [r \in Req |-> << >>]
  BY DEF ServingInit, Init
<1>2. /\ << >> \in Seq(Token) /\ << >> \in Seq(Req) /\ << >> \in Seq(Steps)
      /\ << >> \in Seq(Outputs) /\ << >> \in Seq(Seq(Token))
      /\ Len(<< >>) = 0 /\ DOMAIN << >> = {}
  OBVIOUS
<1>3. 0 \in 0 .. MaxPos /\ 0 \in 0 .. MaxOut /\ 0 \in 0 .. MaxGen /\ -1 < MaxPos
      /\ 0 <= MaxOut
  BY AsyncBoundAssumption DEF MaxPos
<1>4. InBatch(<< >>) = {}
  BY <1>2 DEF InBatch
<1>5. NoStep \in Steps
  BY <1>2, <1>3 DEF NoStep, Steps
<1>6. NoOutput \in Outputs /\ Below(NoOutput)
  BY <1>2, <1>3, <1>4 DEF NoOutput, Outputs, Below, Sampled, Nothing
<1>7. Narrow
  BY <1>1, <1>2, <1>3, <1>5, <1>6 DEF Narrow
<1>8. OutputsBelow /\ RowsLag
  BY <1>1, <1>2, <1>4, <1>6 DEF OutputsBelow, RowsLag
<1> QED BY <1>7, <1>8, InitHInv DEF TInv

(* Every step keeps TInv. *)
LEMMA NextTInv ==
  ASSUME UniqueIdsTwoAhead, TInv, [ServingNext]_servingVars
  PROVE  TInv'
<1>0. HInv'
  BY NextHost DEF TInv
<1>1. CASE UNCHANGED servingVars
  <2>1. UNCHANGED runnerVars /\ UNCHANGED <<computed, outs, known, queue>>
    BY <1>1 DEF servingVars, schedulerVars
  <2>2. /\ computed' \in [Req -> 0 .. MaxPos] /\ outs' \in [Req -> 0 .. MaxOut]
        /\ known' \in [Req -> Seq(Token)] /\ queue' \in Seq(Steps)
    BY <2>1 DEF TInv, Narrow
  <2> QED BY <1>0, <2>1, <2>2, RunnerNarrow
<1>2. ASSUME NEW r \in Req, Submit(r) \/ Finish(r)  PROVE TInv'
  BY <1>0, <1>2, ClientNarrow
<1>3. CASE Schedule
  BY <1>0, <1>3, SchedulePrefillNarrow, ScheduleDecodeNarrow DEF Schedule
<1>4. CASE Execute
  <2>1. CASE /\ queue # << >> /\ Begin(Head(queue)) /\ queue' = Tail(queue)
             /\ UNCHANGED <<status, gen, computed, outs, known, finished>>
    BY <1>0, <2>1, BeginNarrow
  <2>2. CASE UpdateStates /\ UNCHANGED schedulerVars
    BY <1>0, <2>2, UpdateNarrow
  <2>3. CASE Prepare /\ UNCHANGED schedulerVars
    BY <1>0, <2>3, PrepareNarrow
  <2>4. CASE Swap /\ UNCHANGED schedulerVars
    BY <1>0, <2>4, SwapNarrow
  <2>5. CASE SampleTokens /\ UNCHANGED schedulerVars
    BY <1>0, <2>5, SampleNarrow
  <2> QED BY <1>4, <2>1, <2>2, <2>3, <2>4, <2>5 DEF Execute
<1>5. CASE Receive
  BY <1>0, <1>5, ReceiveNarrow
<1> QED BY <1>1, <1>2, <1>3, <1>4, <1>5 DEF ServingNext

(* Every variable keeps its type and its bounds: no count passes           *)
(* max_tokens, no token or position the model length, and no rank, behind  *)
(* as its rows may be, appends more than max_tokens output ids.            *)
THEOREM AlwaysTypeOK == UniqueIdsTwoAhead => (ServingSpec => []ServingTypeOK)
<1> SUFFICES ASSUME UniqueIdsTwoAhead PROVE ServingSpec => []ServingTypeOK
  OBVIOUS
<1>1. ServingInit => TInv
  BY InitTInv
<1>2. TInv /\ [ServingNext]_servingVars => TInv'
  BY NextTInv
<1>3. TInv => ServingTypeOK
  BY DEF TInv, HInv, IInv, Types, Narrow, ServingTypeOK, AsyncTypeOK
<1> QED BY <1>1, <1>2, <1>3, PTL DEF ServingSpec
=============================================================================
