------------------------- MODULE KVServing_proofs --------------------------
(***************************************************************************)
(* What the worker's cache holds in KVServing, for any number of requests, *)
(* blocks and queued outputs: every decode attends to its own history and  *)
(* every fed token stays where the scheduler's blocks say.                 *)
(*                                                                         *)
(* The scheduler gives freed blocks away while outputs that still write to *)
(* them wait in the queue, so the invariant has to speak of the queue.  It *)
(* is a plan: a view is what the runner knows of every request at one point*)
(* of the queue (its blocks and its fed tokens) with the requests whose    *)
(* blocks are theirs alone at that point, the live ones.  The first view is*)
(* what the runner knows now, each output fits its view and leads to the   *)
(* next, and the last view is what the scheduler believes.  Two requests   *)
(* may name one block in different views, never in one.                    *)
(***************************************************************************)
EXTENDS KVServing, SequenceTheorems, FiniteSetTheorems, TLAPS

-----------------------------------------------------------------------------
(* The plan. *)

SchedulerOutput ==
  [finished : SUBSET Req, new : SUBSET Req, resumed : SUBSET Req,
   toks : [Req -> 0 .. MaxModelLen], padded : [Req -> 0 .. MaxTokens],
   computed : [Req -> 0 .. MaxModelLen], blocks : [Req -> Seq(Blocks)]]

Views == [live : SUBSET Req, blocks : [Req -> Seq(Blocks)], fed : [Req -> 0 .. MaxModelLen]]

Entering(so) == so.new \cup so.resumed

BlocksAfter(blocks, so) ==
  [r \in Req |-> IF r \in Entering(so) THEN so.blocks[r]
                 ELSE IF r \in Scheduled(so) THEN blocks[r] \o so.blocks[r]
                 ELSE IF r \in so.finished THEN << >> ELSE blocks[r]]

FedAfter(v, so) ==
  [r \in Req |-> IF r \in Scheduled(so) THEN so.computed[r] + so.toks[r]
                 ELSE IF r \in so.finished THEN 0 ELSE v[r]]

(* Live requests have blocks of their own, enough for what they were fed.  *)
Private(blocks, S) ==
  \A r, q \in S : \A i \in DOMAIN blocks[r], j \in DOMAIN blocks[q] :
    blocks[r][i] = blocks[q][j] => r = q /\ i = j

Sound(v) ==
  /\ Private(v.blocks, v.live)
  /\ \A r \in v.live : v.fed[r] <= Len(v.blocks[r]) * BlockSize

(* One request prefills alone, from position 0, into new blocks. *)
PrefillOf(so, r) ==
  /\ Scheduled(so) = {r} /\ Entering(so) = {r}
  /\ so.computed[r] = 0
  /\ so.padded[r] >= 2 /\ so.toks[r] <= so.padded[r]

(* Live requests decode the token after those fed. *)
DecodeOf(v, so) ==
  /\ Entering(so) = {}
  /\ \A r \in Scheduled(so) :
       /\ so.toks[r] = 1 /\ so.padded[r] = 1
       /\ r \in v.live
       /\ so.computed[r] = v.fed[r]
       /\ PromptLen[r] <= v.fed[r] /\ v.fed[r] < MaxModelLen

Fits(v, so) ==
  /\ DecodeOf(v, so) \/ \E r \in Req : PrefillOf(so, r)
  /\ \A r \in so.new : v.blocks[r] = << >>

Follows(v, so, w) ==
  /\ w.blocks = BlocksAfter(v.blocks, so) /\ w.fed = FedAfter(v.fed, so)
  /\ Scheduled(so) \subseteq w.live
  /\ w.live \subseteq (v.live \cup Entering(so)) \ so.finished

Plan(views) ==
  /\ views \in [1 .. Len(queue) + 1 -> Views]
  /\ views[1].blocks = blockIds /\ views[1].fed = fed
  /\ \A k \in 1 .. Len(queue) + 1 : Sound(views[k])
  /\ \A k \in 1 .. Len(queue) :
       Fits(views[k], queue[k]) /\ Follows(views[k], queue[k], views[k + 1])

(* What the scheduler counts on once the queue has been executed. *)
Running == {r \in Req : status[r] = "running"}

Believed(v) ==
  /\ \A r \in Running : r \in v.live /\ v.blocks[r] = alloc[r] /\ v.fed[r] = done[r]
  /\ \A r \in Req : status[r] = "waiting" => v.blocks[r] = << >>

(* A running request that no output from k on brings in is live at k, with *)
(* the first of the blocks it has now.                                     *)
Prefix(s, t) == Len(s) <= Len(t) /\ \A i \in 1 .. Len(s) : s[i] = t[i]

Kept(views) ==
  \A r \in Running, k \in 1 .. Len(queue) + 1 :
    (\A j \in k .. Len(queue) : r \notin Entering(queue[j])) =>
      r \in views[k].live /\ Prefix(views[k].blocks[r], alloc[r])

(* The cache as the worker has left it. *)
Holds(v) ==
  \A r \in v.live : \A pos \in 0 .. v.fed[r] - 1 :
    cache[BlockAt(v.blocks[r], pos)][pos % BlockSize] = Entry(r, pos)

Planned ==
  \E views : /\ Plan(views)
             /\ Believed(views[Len(queue) + 1])
             /\ Kept(views)
             /\ Holds(views[1])

(* What the scheduler's own state says of it. *)
Bookkeeping ==
  /\ \A r \in Req : PromptLen[r] <= total[r]
  /\ \A r \in Running : /\ done[r] = total[r] - 1 /\ PromptLen[r] <= done[r]
                        /\ done[r] <= Len(alloc[r]) * BlockSize
  /\ \A r \in Req \ Running : alloc[r] = << >>
  /\ \A r \in finished : status[r] = "gone"
  /\ Private(alloc, Req)

(* A row of the batch is its request's blocks. *)
BatchRows == \A r \in ToSet(batch) : row[r] = blockIds[r]

KVInv ==
  /\ ServingTypeOK
  /\ queue \in Seq(SchedulerOutput)
  /\ AttendsOwnHistory /\ SampledFromLast
  /\ BatchRows
  /\ Bookkeeping
  /\ Planned
-----------------------------------------------------------------------------
(* Numbers. *)

LEMMA LeastNumber ==
  ASSUME NEW T \in SUBSET Nat, T # {}
  PROVE  \E m \in T : \A n \in T : m <= n
<1>1. PICK m \in T : \A n \in T : ~ (<<n, m>> \in OpToRel(<, Nat))
  BY NatLessThanWellFounded, WFMin
<1>2. \A n \in T : ~ (n < m)
  BY <1>1 DEF OpToRel
<1> QED
  BY <1>2

LEMMA Products ==
  ASSUME NEW d \in Nat \ {0}, NEW a \in Nat, NEW b \in Nat, a < b
  PROVE  a * d + d <= b * d
<1>1. PICK k \in Nat : b = a + 1 + k
  <2> DEFINE k == b - a - 1
  <2>1. k \in Nat /\ b = a + 1 + k
    OBVIOUS
  <2> QED
    BY <2>1
<1>2. b * d = a * d + d + k * d
  BY <1>1
<1>3. k * d >= 0 /\ k * d \in Int /\ a * d \in Int
  OBVIOUS
<1> QED
  BY <1>2, <1>3

LEMMA UniqueQuotient ==
  ASSUME NEW d \in Nat \ {0}, NEW a \in Nat, NEW b \in Nat,
         NEW x \in 0 .. d - 1, NEW y \in 0 .. d - 1,
         a * d + x = b * d + y
  PROVE  a = b /\ x = y
<1>0. a * d \in Nat /\ b * d \in Nat
  OBVIOUS
<1>1. ~ a < b
  BY <1>0, Products
<1>2. ~ b < a
  BY <1>0, Products
<1>3. a = b
  BY <1>1, <1>2
<1> QED
  BY <1>0, <1>3

LEMMA EuclideanDivision ==
  ASSUME NEW d \in Int, d > 0, NEW n \in Int
  PROVE  \A q, e \in Int : q = n \div d /\ e = n % d => n = q * d + e
OBVIOUS

LEMMA DivMod ==
  ASSUME NEW d \in Nat \ {0}, NEW n \in Nat
  PROVE  /\ n \div d \in Nat /\ n % d \in 0 .. d - 1
         /\ n = (n \div d) * d + (n % d)
<1>1. n \div d \in Int /\ n % d \in 0 .. d - 1
  OBVIOUS
<1> DEFINE q == n \div d
           e == n % d
<1>2. q \in Int /\ e \in 0 .. d - 1 /\ n = q * d + e
  BY <1>1, EuclideanDivision
<1> HIDE DEF q, e
<1>3. q >= 0
  <2> SUFFICES ASSUME q <= -1 PROVE FALSE
    BY <1>2
  <2>1. PICK k \in Nat : q = -1 - k
    <3>1. -1 - q \in Nat /\ q = -1 - (-1 - q)
      BY <1>2
    <3> QED
      BY <3>1
  <2>2. q * d = 0 - d - k * d /\ k * d \in Nat
    BY <2>1
  <2> QED
    BY <1>2, <2>2
<1>4. q \in Nat /\ e \in 0 .. d - 1 /\ n = q * d + e
  BY <1>2, <1>3
<1> QED
  BY <1>4 DEF q, e

LEMMA CeilDivBound ==
  ASSUME NEW d \in Nat \ {0}, NEW n \in Nat, NEW L \in Nat
  PROVE  /\ CeilDiv(n, d) \in Nat
         /\ CeilDiv(n, d) <= L <=> n <= L * d
<1> DEFINE m == n + d - 1
           c == m \div d
           e == m % d
<1>1. m \in Nat /\ CeilDiv(n, d) = c
  BY DEF CeilDiv
<1> HIDE DEF m
<1>2. c \in Nat /\ e \in 0 .. d - 1 /\ m = c * d + e
  BY <1>1, DivMod
<1> HIDE DEF c, e
<1>3. c * d \in Nat /\ L * d \in Nat
  BY <1>2
<1>4. n + d - 1 = c * d + e
  BY <1>2 DEF m
<1>5. ASSUME c <= L PROVE n <= L * d
  <2>1. c * d <= L * d
    BY <1>2, <1>3, <1>5, Products
  <2> QED
    BY <1>2, <1>3, <1>4, <2>1
<1>6. ASSUME L < c PROVE L * d < n
  <2>1. L * d + d <= c * d
    BY <1>2, <1>6, Products
  <2> QED
    BY <1>2, <1>3, <1>4, <2>1
<1> QED
  BY <1>1, <1>2, <1>3, <1>5, <1>6

LEMMA BlockOfPosition ==
  ASSUME NEW d \in Nat \ {0}, NEW pos \in Nat, NEW L \in Nat, pos < L * d
  PROVE  pos \div d + 1 \in 1 .. L
<1>1. /\ pos \div d \in Nat /\ pos % d \in 0 .. d - 1
      /\ pos = (pos \div d) * d + (pos % d)
  BY DivMod
<1> DEFINE c == pos \div d
           e == pos % d
<1>2. c \in Nat /\ e \in 0 .. d - 1 /\ pos = c * d + e
  BY <1>1
<1> HIDE DEF c, e
<1>3. c < L
  <2>1. L * d \in Nat /\ c * d \in Nat
    BY <1>2
  <2> QED
    BY <1>2, <2>1, Products
<1>4. c + 1 \in 1 .. L
  BY <1>2, <1>3
<1> QED
  BY <1>4 DEF c
-----------------------------------------------------------------------------
(* The flat token tensors of the two kinds of step. *)

(* The batch lists the scheduled requests once each.                       *)
LEMMA BatchIsListing ==
  ASSUME NEW S \in SUBSET Req, NEW b \in [1 .. Cardinality(S) -> S], Arrangement(b, S)
  PROVE  /\ b \in Seq(Req) /\ Len(b) \in Nat /\ DOMAIN b = 1 .. Len(b)
         /\ \A p \in 1 .. Len(b) : b[p] \in S
         /\ \A r \in S : \E p \in 1 .. Len(b) : b[p] = r
         /\ \A p, q \in 1 .. Len(b) : b[p] = b[q] => p = q
         /\ Len(b) = Cardinality(S)
         /\ IsFiniteSet(S)
<1>1. IsFiniteSet(S) /\ Cardinality(S) \in Nat
  BY KVReqAssumption, FS_Subset, FS_CardinalityType
<1> DEFINE n == Cardinality(S)
<1> HIDE DEF n
<1>2. n \in Nat /\ b \in [1 .. n -> S]
  BY <1>1 DEF n
<1>3. b \in Seq(Req) /\ Len(b) = n /\ DOMAIN b = 1 .. n
  BY <1>2
<1>4. \A r \in S : \E p \in 1 .. n : b[p] = r
  BY <1>3 DEF Arrangement, ToSet
<1>5. b \in Surjection(1 .. n, S)
  BY <1>2, <1>4 DEF Surjection
<1>6. IsFiniteSet(1 .. n) /\ Cardinality(1 .. n) = n
  <2>1. Cardinality(1 .. n) = IF 1 > n THEN 0 ELSE n - 1 + 1
    BY <1>2, FS_Interval
  <2> QED
    BY <1>2, <2>1, FS_Interval
<1>7. b \in Injection(1 .. n, S)
  BY <1>5, <1>6, FS_SurjSameCardinalityImpliesInj DEF n
<1> QED
  BY <1>1, <1>2, <1>3, <1>4, <1>7 DEF Injection, IsInjective, n

(* Cumulative counts are determined by their equation.                     *)
LEMMA CuNumTokensAre ==
  ASSUME NEW so, NEW b \in Seq(Req), NEW g,
         g = [p \in 0 .. Len(b) |-> IF p = 0 THEN 0 ELSE g[p - 1] + RowLen(so, b, b[p])]
  PROVE  CuNumTokens(so, b) = g
<1> DEFINE h == CuNumTokens(so, b)
           n == Len(b)
           w(p) == RowLen(so, b, b[p])
<1>1. h = [p \in 0 .. n |-> IF p = 0 THEN 0 ELSE h[p - 1] + w(p)]
  BY DEF CuNumTokens
<1>2. g = [p \in 0 .. n |-> IF p = 0 THEN 0 ELSE g[p - 1] + w(p)]
  OBVIOUS
<1>3. n \in Nat
  OBVIOUS
<1> HIDE DEF h, n, w
<1> DEFINE T == {p \in 0 .. n : h[p] # g[p]}
<1>4. T = {}
  <2> SUFFICES ASSUME T # {} PROVE FALSE
    OBVIOUS
  <2>1. T \in SUBSET Nat
    BY <1>3
  <2>2. PICK m \in T : \A k \in T : m <= k
    BY <2>1, LeastNumber
  <2>3. m \in 0 .. n /\ h[m] # g[m]
    OBVIOUS
  <2>4. m # 0
    BY <1>1, <1>2, <1>3, <2>3
  <2>5. m - 1 \in 0 .. n /\ ~ (m <= m - 1)
    BY <1>3, <2>3, <2>4
  <2>6. h[m - 1] = g[m - 1]
    BY <2>2, <2>5
  <2>7. h[m] = h[m - 1] + w(m) /\ g[m] = g[m - 1] + w(m)
    BY <1>1, <1>2, <2>3, <2>4
  <2> QED
    BY <2>3, <2>6, <2>7
<1>5. \A p \in 0 .. n : h[p] = g[p]
  BY <1>4
<1>6. \A p \in 0 .. n : p # 0 => h[p - 1] = g[p - 1]
  <2>1. \A p \in 0 .. n : p # 0 => p - 1 \in 0 .. n
    BY <1>3
  <2> QED
    BY <1>5, <2>1
<1>7. [p \in 0 .. n |-> IF p = 0 THEN 0 ELSE h[p - 1] + w(p)]
        = [p \in 0 .. n |-> IF p = 0 THEN 0 ELSE g[p - 1] + w(p)]
  BY <1>6
<1>8. h = g
  BY <1>1, <1>2, <1>7, Zenon
<1> QED
  BY <1>8 DEF h

(* A decode has one real token for each request of the batch.              *)
LEMMA DecodeTokens ==
  ASSUME NEW so \in SchedulerOutput, NEW b \in Seq(Req),
         \A p \in 1 .. Len(b) : /\ so.toks[b[p]] = 1 /\ so.padded[b[p]] = 1
                                /\ PromptLen[b[p]] <= so.computed[b[p]]
  PROVE  /\ IsDecode(so, b)
         /\ Tokens(so, b) = [i \in 1 .. Len(b) |-> Token(b[i], so.computed[b[i]], TRUE)]
         /\ \A p \in 1 .. Len(b) : LogitsIndex(so, b, p) = p
<1> DEFINE n == Len(b)
<1>1. n \in Nat /\ DOMAIN b = 1 .. n /\ \A p \in 1 .. n : b[p] \in Req
  OBVIOUS
<1>2. \A p \in 1 .. n : /\ so.toks[b[p]] = 1 /\ so.padded[b[p]] = 1
                        /\ PromptLen[b[p]] <= so.computed[b[p]]
                        /\ so.computed[b[p]] \in Nat /\ PromptLen[b[p]] \in Nat
  <2>1. \A r \in Req : so.computed[r] \in Nat /\ PromptLen[r] \in Nat
    BY KVSizeAssumption, KVReqAssumption DEF SchedulerOutput
  <2> QED
    BY <1>1, <2>1
<1> HIDE DEF n
<1>3. IsDecode(so, b)
  BY <1>1, <1>2 DEF IsDecode, ToSet
<1>4. ~HasPrefill(so, b)
  BY <1>1, <1>2 DEF HasPrefill, ToSet
<1>5. \A p \in 1 .. n : RowLen(so, b, b[p]) = 1
  BY <1>2, <1>4 DEF RowLen
<1> DEFINE g == [p \in 0 .. n |-> p]
<1>6. g = [p \in 0 .. n |-> IF p = 0 THEN 0 ELSE g[p - 1] + RowLen(so, b, b[p])]
  <2>1. ASSUME NEW p \in 0 .. n
        PROVE  g[p] = IF p = 0 THEN 0 ELSE g[p - 1] + RowLen(so, b, b[p])
    <3>1. CASE p = 0
      BY <3>1
    <3>2. CASE p # 0
      <4>1. p \in 1 .. n /\ p - 1 \in 0 .. n
        BY <1>1, <3>2
      <4> QED
        BY <1>1, <1>5, <4>1
    <3> QED
      BY <3>1, <3>2
  <2> QED
    BY <2>1
<1>7. CuNumTokens(so, b) = g
  <2>1. g = [p \in 0 .. Len(b) |-> IF p = 0 THEN 0 ELSE g[p - 1] + RowLen(so, b, b[p])]
    BY <1>6 DEF n
  <2> HIDE DEF g
  <2> QED
    BY <2>1, CuNumTokensAre
<1>8. \A p \in 0 .. n : CuNumTokens(so, b)[p] = p
  BY <1>7
<1>9. \A p \in 1 .. n : LogitsIndex(so, b, p) = p
  BY <1>2, <1>5, <1>8 DEF LogitsIndex
<1>10. ASSUME NEW i \in 1 .. n
       PROVE  Segment(so, b, b[i])[1] = Token(b[i], so.computed[b[i]], TRUE)
  <2> DEFINE r == b[i]
  <2>1. RowLen(so, b, r) = 1 /\ so.toks[r] = 1 /\ so.computed[r] \in Nat
    BY <1>2, <1>5
  <2> HIDE DEF r
  <2>2. 1 \in 1 .. RowLen(so, b, r) /\ 1 <= so.toks[r] /\ so.computed[r] + 1 - 1 = so.computed[r]
    BY <2>1
  <2>3. Segment(so, b, r)[1] = Token(r, so.computed[r] + 1 - 1, TRUE)
    BY <2>2 DEF Segment
  <2> QED
    BY <2>2, <2>3 DEF r
<1> DEFINE cu == CuNumTokens(so, b)
           RowOf(i) == CHOOSE p \in DOMAIN b : cu[p - 1] < i /\ i <= cu[p]
<1>11. Tokens(so, b) = [i \in 1 .. cu[n] |-> Segment(so, b, b[RowOf(i)])[i - cu[RowOf(i) - 1]]]
  BY DEF Tokens, n
<1>12. ASSUME NEW i \in 1 .. n
       PROVE  RowOf(i) = i /\ i - cu[RowOf(i) - 1] = 1
  <2>1. \A p \in 1 .. n : cu[p - 1] = p - 1 /\ cu[p] = p
    BY <1>1, <1>8
  <2>2. i \in DOMAIN b /\ cu[i - 1] < i /\ i <= cu[i]
    BY <1>1, <2>1
  <2>3. RowOf(i) \in DOMAIN b /\ cu[RowOf(i) - 1] < i /\ i <= cu[RowOf(i)]
    BY <2>2
  <2> HIDE DEF RowOf
  <2>4. RowOf(i) = i
    BY <1>1, <2>1, <2>3
  <2> QED
    BY <1>1, <2>1, <2>4
<1>13. cu[n] = n
  BY <1>1, <1>8
<1> HIDE DEF RowOf, cu
<1>14. \A i \in 1 .. n : Segment(so, b, b[RowOf(i)])[i - cu[RowOf(i) - 1]]
                           = Token(b[i], so.computed[b[i]], TRUE)
  BY <1>10, <1>12
<1>15. Tokens(so, b) = [i \in 1 .. n |-> Token(b[i], so.computed[b[i]], TRUE)]
  BY <1>11, <1>13, <1>14
<1> QED
  BY <1>3, <1>9, <1>15 DEF n

(* A prefill has the tokens of its request, padded up to a bucket.         *)
LEMMA PrefillTokens ==
  ASSUME NEW so \in SchedulerOutput, NEW r \in Req, PrefillOf(so, r),
         NEW b \in Seq(Req), Len(b) = 1, b[1] = r
  PROVE  /\ ~IsDecode(so, b)
         /\ so.toks[r] \in 1 .. so.padded[r]
         /\ Tokens(so, b) = [i \in 1 .. so.padded[r] |->
                               IF i <= so.toks[r] THEN Token(r, i - 1, TRUE)
                               ELSE Token(r, so.toks[r] - 1, FALSE)]
         /\ LogitsIndex(so, b, 1) = so.toks[r]
<1> DEFINE w == so.padded[r]
           t == so.toks[r]
<1>1. DOMAIN b = {1} /\ ToSet(b) = {r}
  BY DEF ToSet
<1>2. /\ w \in Nat /\ w >= 2 /\ t \in 1 .. w
      /\ so.computed[r] = 0
      /\ PromptLen[r] > 0
  BY KVSizeAssumption, KVReqAssumption DEF SchedulerOutput, PrefillOf, Scheduled
<1>3. ~IsDecode(so, b)
  BY <1>1, <1>2 DEF IsDecode
<1>4. HasPrefill(so, b)
  BY <1>1, <1>2 DEF HasPrefill
<1>5. RowLen(so, b, r) = w
  BY <1>4 DEF RowLen
<1> DEFINE g == [p \in 0 .. 1 |-> IF p = 0 THEN 0 ELSE w]
<1>6. g = [p \in 0 .. Len(b) |-> IF p = 0 THEN 0 ELSE g[p - 1] + RowLen(so, b, b[p])]
  <2>1. ASSUME NEW p \in 0 .. 1
        PROVE  g[p] = IF p = 0 THEN 0 ELSE g[p - 1] + RowLen(so, b, b[p])
    <3>1. p = 0 \/ p = 1
      OBVIOUS
    <3>2. CASE p = 1
      BY <1>2, <1>5, <3>2
    <3> QED
      BY <3>1, <3>2
  <2> QED
    BY <2>1
<1> HIDE DEF w, t
<1>7. CuNumTokens(so, b)[0] = 0 /\ CuNumTokens(so, b)[1] = w
  <2>1. g[0] = 0 /\ g[1] = w
    OBVIOUS
  <2> HIDE DEF g
  <2> QED
    BY <1>6, <2>1, CuNumTokensAre
<1>8. LogitsIndex(so, b, 1) = t
  BY <1>2, <1>5, <1>7 DEF LogitsIndex, t
<1> DEFINE cu == CuNumTokens(so, b)
           RowOf(i) == CHOOSE p \in DOMAIN b : cu[p - 1] < i /\ i <= cu[p]
<1>9. Tokens(so, b) = [i \in 1 .. cu[Len(b)] |-> Segment(so, b, b[RowOf(i)])[i - cu[RowOf(i) - 1]]]
  BY DEF Tokens
<1>10. ASSUME NEW i \in 1 .. w
       PROVE  RowOf(i) = 1 /\ i - cu[RowOf(i) - 1] = i
  <2>1. cu[1 - 1] = 0 /\ cu[1] = w
    BY <1>7
  <2>2. 1 \in DOMAIN b /\ cu[1 - 1] < i /\ i <= cu[1]
    BY <1>1, <1>2, <2>1
  <2>3. RowOf(i) \in DOMAIN b
    BY <2>2
  <2> HIDE DEF RowOf
  <2>4. RowOf(i) = 1
    BY <1>1, <2>3
  <2> QED
    BY <1>2, <2>1, <2>4
<1>11. cu[Len(b)] = w
  BY <1>7
<1>12. \A i \in 1 .. w : Segment(so, b, r)[i] = IF i <= t THEN Token(r, i - 1, TRUE)
                                                ELSE Token(r, t - 1, FALSE)
  <2> TAKE i \in 1 .. w
  <2>1. i \in 1 .. RowLen(so, b, r)
    BY <1>5
  <2>2. Segment(so, b, r)[i] = IF i <= t THEN Token(r, so.computed[r] + i - 1, TRUE)
                               ELSE Token(r, so.computed[r] + t - 1, FALSE)
    BY <2>1 DEF Segment, t
  <2>3. so.computed[r] + i - 1 = i - 1 /\ so.computed[r] + t - 1 = t - 1
    BY <1>2 DEF t
  <2> QED
    BY <2>2, <2>3
<1> HIDE DEF RowOf, cu
<1>13. Tokens(so, b) = [i \in 1 .. w |-> IF i <= t THEN Token(r, i - 1, TRUE)
                                         ELSE Token(r, t - 1, FALSE)]
  <2>1. ASSUME NEW i \in 1 .. w
        PROVE  Segment(so, b, b[RowOf(i)])[i - cu[RowOf(i) - 1]]
                 = IF i <= t THEN Token(r, i - 1, TRUE) ELSE Token(r, t - 1, FALSE)
    <3>1. Segment(so, b, b[RowOf(i)])[i - cu[RowOf(i) - 1]] = Segment(so, b, r)[i]
      BY <1>10
    <3> QED
      BY <1>12, <3>1
  <2> QED
    BY <1>9, <1>11, <2>1
<1> QED
  BY <1>2, <1>3, <1>8, <1>13 DEF w, t

-----------------------------------------------------------------------------
(* Slots. *)

LEMMA BlockTypes ==
  ASSUME NEW blocks \in Seq(Blocks), NEW pos \in Nat
  PROVE  /\ BlockAt(blocks, pos) \in 0 .. NumBlocks
         /\ pos % BlockSize \in 0 .. BlockSize - 1
         /\ SlotFor(blocks, pos) \in 0 .. (NumBlocks + 1) * BlockSize - 1
         /\ pos < Len(blocks) * BlockSize =>
              /\ pos \div BlockSize + 1 \in 1 .. Len(blocks)
              /\ BlockAt(blocks, pos) = blocks[pos \div BlockSize + 1]
              /\ BlockAt(blocks, pos) \in Blocks
<1>1. BlockSize \in Nat \ {0} /\ NumBlocks \in Nat /\ Len(blocks) \in Nat
  BY KVSizeAssumption
<1>2. pos \div BlockSize \in Nat /\ pos % BlockSize \in 0 .. BlockSize - 1
  BY <1>1, DivMod
<1> DEFINE k == pos \div BlockSize + 1
           e == pos % BlockSize
           B == BlockAt(blocks, pos)
<1>3. k \in Nat /\ e \in 0 .. BlockSize - 1
  BY <1>2
<1>4. /\ k \in 1 .. Len(blocks) => B = blocks[k] /\ B \in 1 .. NumBlocks
      /\ k \notin 1 .. Len(blocks) => B = 0
  BY <1>1 DEF BlockAt, Blocks, NullBlock
<1>5. pos < Len(blocks) * BlockSize => k \in 1 .. Len(blocks)
  BY <1>1, BlockOfPosition
<1>6. SlotFor(blocks, pos) = B * BlockSize + e
  BY DEF SlotFor
<1> HIDE DEF k, e, B
<1>7. B \in 0 .. NumBlocks
  BY <1>1, <1>3, <1>4
<1>8. B * BlockSize + e \in 0 .. (NumBlocks + 1) * BlockSize - 1
  <2>1. B * BlockSize + BlockSize <= (NumBlocks + 1) * BlockSize
    BY <1>1, <1>7, Products
  <2>2. B * BlockSize \in Nat /\ (NumBlocks + 1) * BlockSize \in Nat
    BY <1>1, <1>7
  <2> QED
    BY <1>1, <1>3, <2>1, <2>2
<1>9. /\ B \in 0 .. NumBlocks /\ e \in 0 .. BlockSize - 1
      /\ SlotFor(blocks, pos) \in 0 .. (NumBlocks + 1) * BlockSize - 1
      /\ pos < Len(blocks) * BlockSize => k \in 1 .. Len(blocks) /\ B = blocks[k] /\ B \in Blocks
  BY <1>3, <1>4, <1>5, <1>6, <1>7, <1>8 DEF Blocks
<1> QED
  BY <1>9 DEF k, e, B

(* A slot is one place of one block.                                       *)
LEMMA SlotIsPlace ==
  ASSUME NEW blocks \in Seq(Blocks), NEW pos \in Nat,
         NEW blk \in Nat, NEW o \in 0 .. BlockSize - 1
  PROVE  SlotFor(blocks, pos) = blk * BlockSize + o
           <=> BlockAt(blocks, pos) = blk /\ pos % BlockSize = o
<1> DEFINE B == BlockAt(blocks, pos)
           e == pos % BlockSize
<1>1. B \in Nat /\ e \in 0 .. BlockSize - 1 /\ BlockSize \in Nat \ {0}
  <2>1. B \in 0 .. NumBlocks /\ e \in 0 .. BlockSize - 1
    BY BlockTypes
  <2> HIDE DEF B, e
  <2> QED
    BY <2>1, KVSizeAssumption
<1>2. SlotFor(blocks, pos) = B * BlockSize + e
  BY DEF SlotFor
<1> HIDE DEF B, e
<1>3. B * BlockSize + e = blk * BlockSize + o => B = blk /\ e = o
  BY <1>1, UniqueQuotient
<1>4. SlotFor(blocks, pos) = blk * BlockSize + o <=> B = blk /\ e = o
  BY <1>2, <1>3
<1> QED
  BY <1>4 DEF B, e

(* The null slot is in no block of the cache.                              *)
LEMMA NullSlotIsOutside ==
  ASSUME NEW blk \in Blocks, NEW o \in 0 .. BlockSize - 1
  PROVE  NullSlot # blk * BlockSize + o
<1>1. blk \in Nat /\ 0 < blk /\ BlockSize \in Nat \ {0}
  BY KVSizeAssumption DEF Blocks
<1>2. 0 * BlockSize + BlockSize <= blk * BlockSize
  BY <1>1, Products
<1>3. blk * BlockSize \in Nat /\ 0 * BlockSize = 0
  BY <1>1
<1> QED
  BY <1>1, <1>2, <1>3 DEF NullSlot

(* Live requests never share a place.                                      *)
LEMMA PlacesArePrivate ==
  ASSUME NEW blocks \in [Req -> Seq(Blocks)], NEW S \in SUBSET Req, Private(blocks, S),
         NEW r \in S, NEW q \in S, NEW x \in Nat, NEW y \in Nat,
         x < Len(blocks[r]) * BlockSize, y < Len(blocks[q]) * BlockSize,
         BlockAt(blocks[r], x) = BlockAt(blocks[q], y),
         x % BlockSize = y % BlockSize
  PROVE  r = q /\ x = y
<1>1. blocks[r] \in Seq(Blocks) /\ blocks[q] \in Seq(Blocks)
  OBVIOUS
<1> DEFINE i == x \div BlockSize + 1
           j == y \div BlockSize + 1
<1>2. /\ i \in 1 .. Len(blocks[r]) /\ BlockAt(blocks[r], x) = blocks[r][i]
      /\ j \in 1 .. Len(blocks[q]) /\ BlockAt(blocks[q], y) = blocks[q][j]
  BY <1>1, BlockTypes
<1>3. x \div BlockSize \in Nat /\ y \div BlockSize \in Nat
  BY DivMod, KVSizeAssumption
<1> HIDE DEF i, j
<1>4. r = q /\ i = j
  <2>1. blocks[r][i] = blocks[q][j]
    BY <1>2
  <2>2. i \in DOMAIN blocks[r] /\ j \in DOMAIN blocks[q]
    BY <1>1, <1>2
  <2>3. \A k \in DOMAIN blocks[r] : \A l \in DOMAIN blocks[q] :
          blocks[r][k] = blocks[q][l] => r = q /\ k = l
    BY DEF Private
  <2> QED
    BY <2>1, <2>2, <2>3
<1>5. x \div BlockSize = y \div BlockSize
  BY <1>3, <1>4 DEF i, j
<1>6. /\ x = (x \div BlockSize) * BlockSize + (x % BlockSize)
      /\ y = (y \div BlockSize) * BlockSize + (y % BlockSize)
  BY DivMod, KVSizeAssumption
<1>7. x = y
  BY <1>5, <1>6, Zenon
<1> QED
  BY <1>4, <1>7

-----------------------------------------------------------------------------
(* What a step writes. *)

(* The positions a step feeds. *)
Span(so, r) == so.computed[r] .. so.computed[r] + so.toks[r] - 1

(* The padded tensor has every fed position once, at the slot of its row;  *)
(* the rest of it goes to the null slot.                                   *)
Lays(so, toks, slots) ==
  /\ slots \in [1 .. MaxTokens -> 0 .. (NumBlocks + 1) * BlockSize - 1]
  /\ DOMAIN toks \subseteq 1 .. MaxTokens
  /\ \A i \in DOMAIN toks :
       toks[i].req \in Req \cup {NoReq} /\ toks[i].pos \in 0 .. MaxModelLen - 1
  /\ \A i \in DOMAIN toks : ~toks[i].real => slots[i] = NullSlot
  /\ \A i \in DOMAIN toks : toks[i].real =>
       /\ toks[i].req \in Scheduled(so) /\ toks[i].pos \in Span(so, toks[i].req)
       /\ slots[i] = SlotFor(RowAfter(so, toks[i].req), toks[i].pos)
  /\ \A i, j \in DOMAIN toks :
       toks[i].real /\ toks[j].real /\ toks[i].req = toks[j].req /\ toks[i].pos = toks[j].pos
         => i = j
  /\ \A r \in Scheduled(so) : \A pos \in Span(so, r) :
       \E i \in DOMAIN toks : toks[i] = Token(r, pos, TRUE)

LEMMA OutputFields ==
  ASSUME NEW so \in SchedulerOutput, NEW r \in Req
  PROVE  /\ so.toks[r] \in 0 .. MaxModelLen /\ so.computed[r] \in 0 .. MaxModelLen
         /\ so.padded[r] \in 0 .. MaxTokens /\ so.blocks[r] \in Seq(Blocks)
         /\ r \in Scheduled(so) <=> so.toks[r] > 0
         /\ so.new \in SUBSET Req /\ so.resumed \in SUBSET Req /\ so.finished \in SUBSET Req
         /\ MaxModelLen \in Nat /\ MaxTokens \in Nat /\ MaxModelLen >= 1
BY KVSizeAssumption DEF SchedulerOutput, Scheduled

LEMMA RowTypes ==
  ASSUME NEW so \in SchedulerOutput, NEW r \in Req,
         blockIds \in [Req -> Seq(Blocks)], row \in [Req -> Seq(Blocks)]
  PROVE  BlockIdsAfter(so, r) \in Seq(Blocks) /\ RowAfter(so, r) \in Seq(Blocks)
<1> DEFINE SB == Seq(Blocks)
<1>1. so.blocks[r] \in SB /\ blockIds[r] \in SB /\ row[r] \in SB /\ << >> \in SB
  BY OutputFields
<1>2. blockIds[r] \o so.blocks[r] \in SB /\ row[r] \o so.blocks[r] \in SB
  BY <1>1
<1> HIDE DEF SB
<1>3. BlockIdsAfter(so, r) \in SB
  BY <1>1, <1>2 DEF BlockIdsAfter
<1>4. RowAfter(so, r) \in SB
  BY <1>1, <1>2, <1>3 DEF RowAfter
<1> QED
  BY <1>3, <1>4 DEF SB

(* The slot map of a step keeps its type.                                  *)
LEMMA SlotMapTypes ==
  ASSUME KVTypeOK, NEW so \in SchedulerOutput, NEW b, NEW width,
         \A i \in 1 .. Len(Tokens(so, b)) :
           Tokens(so, b)[i].real => Tokens(so, b)[i].req \in Req /\ Tokens(so, b)[i].pos \in Nat
  PROVE  SlotMapAfter(so, b, width) \in [1 .. MaxTokens -> 0 .. (NumBlocks + 1) * BlockSize - 1]
<1> DEFINE slot == 0 .. (NumBlocks + 1) * BlockSize - 1
           toks == Tokens(so, b)
<1>1. NullSlot \in slot
  <2>1. /\ BlockSize \in Nat \ {0} /\ NumBlocks \in Nat
        /\ 0 * BlockSize + BlockSize <= (NumBlocks + 1) * BlockSize
        /\ (NumBlocks + 1) * BlockSize \in Nat
    BY KVSizeAssumption, Products
  <2> QED
    BY <2>1 DEF NullSlot
<1>2. slotMap \in [1 .. MaxTokens -> slot]
  BY DEF KVTypeOK
<1>3. ASSUME NEW i \in 1 .. Len(toks)
      PROVE  TokenSlot(so, toks[i]) \in slot
  <2>1. CASE toks[i].real
    <3>1. toks[i].req \in Req /\ toks[i].pos \in Nat
      BY <2>1
    <3>2. RowAfter(so, toks[i].req) \in Seq(Blocks)
      BY <3>1, RowTypes DEF KVTypeOK
    <3>3. SlotFor(RowAfter(so, toks[i].req), toks[i].pos) \in slot
      BY <3>1, <3>2, BlockTypes
    <3> QED
      BY <2>1, <3>3 DEF TokenSlot
  <2>2. CASE ~toks[i].real
    BY <1>1, <2>2 DEF TokenSlot
  <2> QED
    BY <2>1, <2>2
<1> HIDE DEF slot, toks
<1>4. ASSUME NEW i \in 1 .. MaxTokens
      PROVE  (CASE i <= Len(toks) -> TokenSlot(so, toks[i])
                [] i > Len(toks) /\ IsDecode(so, b) /\ i <= width -> NullSlot
                [] OTHER -> slotMap[i]) \in slot
  <2>1. CASE i <= Len(toks)
    BY <1>3, <2>1
  <2>2. CASE ~(i <= Len(toks))
    BY <1>1, <1>2, <2>2
  <2> QED
    BY <2>1, <2>2
<1> QED
  BY <1>4 DEF SlotMapAfter, slot, toks
LEMMA DecodeLays ==
  ASSUME KVTypeOK, NEW v \in Views, NEW so \in SchedulerOutput, DecodeOf(v, so),
         NEW b \in [1 .. Cardinality(Scheduled(so)) -> Scheduled(so)],
         Arrangement(b, Scheduled(so)),
         NEW width \in SeqBuckets, Len(b) <= width
  PROVE  /\ IsDecode(so, b)
         /\ Lays(so, PaddedTokens(so, b, width), SlotMapAfter(so, b, width))
         /\ \A p \in 1 .. Len(b) :
              Tokens(so, b)[LogitsIndex(so, b, p)]
                = Token(b[p], so.computed[b[p]] + so.toks[b[p]] - 1, TRUE)
<1> DEFINE n == Len(b)
           S == Scheduled(so)
           toks == PaddedTokens(so, b, width)
           slots == SlotMapAfter(so, b, width)
           T == [req : Req \cup {NoReq}, pos : 0 .. MaxModelLen - 1, real : BOOLEAN]
<1>1. /\ b \in Seq(Req) /\ n \in Nat /\ DOMAIN b = 1 .. n
      /\ \A p \in 1 .. n : b[p] \in S
      /\ \A r \in S : \E p \in 1 .. n : b[p] = r
      /\ \A p, q \in 1 .. n : b[p] = b[q] => p = q
  <2>1. S \in SUBSET Req
    BY DEF Scheduled
  <2> QED
    BY <2>1, BatchIsListing
<1>2. \A r \in S : /\ r \in Req /\ so.toks[r] = 1 /\ so.padded[r] = 1
                   /\ PromptLen[r] <= so.computed[r]
                   /\ so.computed[r] \in 0 .. MaxModelLen - 1
  BY KVSizeAssumption DEF DecodeOf, Scheduled, Views
<1>3. /\ IsDecode(so, b)
      /\ Tokens(so, b) = [i \in 1 .. n |-> Token(b[i], so.computed[b[i]], TRUE)]
      /\ \A p \in 1 .. n : LogitsIndex(so, b, p) = p
  BY <1>1, <1>2, DecodeTokens
<1>4. /\ width \in 1 .. MaxTokens /\ MaxTokens \in Nat /\ n <= width
      /\ MaxModelLen \in Nat /\ MaxModelLen >= 1
  BY KVBucketAssumption, KVSizeAssumption
<1> HIDE DEF n, S
<1>5. /\ Tokens(so, b) \in Seq(T) /\ Len(Tokens(so, b)) = n
      /\ \A i \in 1 .. n : Tokens(so, b)[i] = Token(b[i], so.computed[b[i]], TRUE)
  <2>1. \A i \in 1 .. n : Token(b[i], so.computed[b[i]], TRUE) \in T
    BY <1>1, <1>2 DEF Token
  <2> HIDE DEF T
  <2>2. Tokens(so, b) \in [1 .. n -> T]
    BY <1>3, <2>1
  <2>3. Tokens(so, b) \in Seq(T) /\ Len(Tokens(so, b)) = n
    BY <1>1, <2>2
  <2> QED
    BY <1>3, <2>3
<1> DEFINE filler == [i \in 1 .. width - n |-> Filler]
<1>6. filler \in Seq(T) /\ Len(filler) = width - n
  <2>1. Filler \in T
    BY <1>4 DEF Filler, Token
  <2> HIDE DEF T
  <2>2. width - n \in Nat
    BY <1>1, <1>4
  <2> QED
    BY <2>1, <2>2
<1> DEFINE flat == Tokens(so, b)
<1>7. toks = flat \o filler
  BY <1>5 DEF PaddedTokens, n
<1> HIDE DEF T, toks, slots, flat
<1>8. /\ toks \in Seq(T) /\ Len(toks) = width
      /\ \A i \in 1 .. width : toks[i] = IF i <= n THEN flat[i] ELSE Filler
  <2>1. flat \in Seq(T) /\ filler \in Seq(T) /\ Len(flat) = n /\ Len(filler) = width - n
    BY <1>5, <1>6 DEF flat
  <2>2. \A i \in 1 .. width - n : filler[i] = Filler
    OBVIOUS
  <2> HIDE DEF filler
  <2>3. /\ toks \in Seq(T) /\ Len(toks) = Len(flat) + Len(filler)
        /\ \A i \in 1 .. Len(flat) + Len(filler) :
             toks[i] = IF i <= Len(flat) THEN flat[i] ELSE filler[i - Len(flat)]
    BY <1>7, <2>1, ConcatProperties
  <2>4. n + (width - n) = width
    BY <1>1, <1>4
  <2>5. \A i \in 1 .. width : ~(i <= n) => i - n \in 1 .. width - n
    BY <1>1, <1>4
  <2> QED
    BY <2>1, <2>2, <2>3, <2>4, <2>5
<1> HIDE DEF filler
<1>9. DOMAIN toks = 1 .. width
  BY <1>8
<1>10. \A i \in 1 .. n : i \in 1 .. width /\ toks[i] = Token(b[i], so.computed[b[i]], TRUE)
  <2> TAKE i \in 1 .. n
  <2>1. i \in 1 .. width /\ i <= n
    BY <1>1, <1>4
  <2>2. flat[i] = Token(b[i], so.computed[b[i]], TRUE)
    BY <1>5 DEF flat
  <2>3. toks[i] = flat[i]
    BY <1>8, <2>1
  <2> QED
    BY <2>1, <2>2, <2>3
<1>11. \A i \in 1 .. width : ~(i <= n) => toks[i] = Filler
  BY <1>8
<1>12. /\ slots \in [1 .. MaxTokens -> 0 .. (NumBlocks + 1) * BlockSize - 1]
       /\ \A i \in 1 .. MaxTokens :
            slots[i] = CASE i <= n -> TokenSlot(so, Tokens(so, b)[i])
                         [] i > n /\ IsDecode(so, b) /\ i <= width -> NullSlot
                         [] OTHER -> slotMap[i]
  <2>1. \A i \in 1 .. n : Tokens(so, b)[i].req \in Req /\ Tokens(so, b)[i].pos \in Nat
    <3> TAKE i \in 1 .. n
    <3>1. b[i] \in Req /\ so.computed[b[i]] \in Nat
      BY <1>1, <1>2, <1>4
    <3>2. Tokens(so, b)[i] = Token(b[i], so.computed[b[i]], TRUE)
      BY <1>5
    <3> QED
      BY <3>1, <3>2 DEF Token
  <2>2. slots \in [1 .. MaxTokens -> 0 .. (NumBlocks + 1) * BlockSize - 1]
    BY <1>5, <2>1, SlotMapTypes DEF slots
  <2> QED
    BY <1>5, <2>2 DEF SlotMapAfter, slots
<1>13. \A i \in 1 .. n : slots[i] = SlotFor(RowAfter(so, b[i]), so.computed[b[i]])
  <2> TAKE i \in 1 .. n
  <2>1. i \in 1 .. MaxTokens /\ i <= n /\ ~(i > n)
    BY <1>1, <1>4
  <2>2. slots[i] = TokenSlot(so, Tokens(so, b)[i])
    BY <1>12, <2>1
  <2>3. Tokens(so, b)[i] = Token(b[i], so.computed[b[i]], TRUE)
    BY <1>5
  <2> QED
    BY <2>2, <2>3 DEF TokenSlot, Token
<1>14. \A i \in 1 .. width : ~(i <= n) => slots[i] = NullSlot
  <2> TAKE i \in 1 .. width
  <2>1. i \in 1 .. MaxTokens
    BY <1>4
  <2>2. ~(i <= n) => i > n /\ i <= width
    BY <1>1, <1>4
  <2> QED
    BY <1>3, <1>12, <2>1, <2>2
<1>15. \A i \in 1 .. n : /\ toks[i].req = b[i] /\ toks[i].pos = so.computed[b[i]]
                         /\ toks[i].real = TRUE /\ b[i] \in S /\ b[i] \in Req
  <2> TAKE i \in 1 .. n
  <2>1. b[i] \in S /\ b[i] \in Req
    BY <1>1, <1>2
  <2>2. toks[i] = Token(b[i], so.computed[b[i]], TRUE)
    BY <1>10
  <2> QED
    BY <2>1, <2>2 DEF Token
<1>16. \A i \in 1 .. width : ~(i <= n) => /\ toks[i].req = NoReq /\ toks[i].pos = 0
                                          /\ toks[i].real = FALSE
  BY <1>11 DEF Filler, Token
<1>17. \A i \in 1 .. width : i <= n => i \in 1 .. n
  BY <1>1, <1>4
<1>18. \A r \in S : Span(so, r) = {so.computed[r]}
  <2> TAKE r \in S
  <2>1. so.toks[r] = 1 /\ so.computed[r] \in Nat
    BY <1>2, <1>4
  <2> QED
    BY <2>1 DEF Span
<1>19. DOMAIN toks \subseteq 1 .. MaxTokens
  BY <1>4, <1>9
<1>20. \A i \in DOMAIN toks :
         toks[i].req \in Req \cup {NoReq} /\ toks[i].pos \in 0 .. MaxModelLen - 1
  BY <1>2, <1>4, <1>9, <1>15, <1>16, <1>17
<1>21. \A i \in DOMAIN toks : ~toks[i].real => slots[i] = NullSlot
  BY <1>9, <1>14, <1>15, <1>17
<1>22. \A i \in DOMAIN toks : toks[i].real =>
         /\ toks[i].req \in S /\ toks[i].pos \in Span(so, toks[i].req)
         /\ slots[i] = SlotFor(RowAfter(so, toks[i].req), toks[i].pos)
  BY <1>9, <1>13, <1>15, <1>16, <1>17, <1>18
<1>23. \A i, j \in DOMAIN toks :
         toks[i].real /\ toks[j].real /\ toks[i].req = toks[j].req /\ toks[i].pos = toks[j].pos
           => i = j
  <2> SUFFICES ASSUME NEW i \in DOMAIN toks, NEW j \in DOMAIN toks,
                      toks[i].real, toks[j].real, toks[i].req = toks[j].req
               PROVE  i = j
    OBVIOUS
  <2>1. i \in 1 .. n /\ j \in 1 .. n
    BY <1>9, <1>16, <1>17
  <2> QED
    BY <1>1, <1>15, <2>1
<1>24. \A r \in S : \A pos \in Span(so, r) : \E i \in DOMAIN toks : toks[i] = Token(r, pos, TRUE)
  <2> SUFFICES ASSUME NEW r \in S, NEW pos \in Span(so, r)
               PROVE  \E i \in DOMAIN toks : toks[i] = Token(r, pos, TRUE)
    OBVIOUS
  <2>1. PICK p \in 1 .. n : b[p] = r
    BY <1>1
  <2>2. pos = so.computed[r]
    BY <1>18
  <2> QED
    BY <1>9, <1>10, <2>1, <2>2
<1>25. Lays(so, toks, slots)
  BY <1>12, <1>19, <1>20, <1>21, <1>22, <1>23, <1>24 DEF Lays, S
<1>26. \A p \in 1 .. n : Tokens(so, b)[LogitsIndex(so, b, p)]
                           = Token(b[p], so.computed[b[p]] + so.toks[b[p]] - 1, TRUE)
  <2> TAKE p \in 1 .. n
  <2>1. so.toks[b[p]] = 1 /\ so.computed[b[p]] \in Nat
    BY <1>1, <1>2, <1>4
  <2>2. so.computed[b[p]] + so.toks[b[p]] - 1 = so.computed[b[p]]
    BY <2>1
  <2> QED
    BY <1>3, <1>5, <2>2
<1> QED
  BY <1>3, <1>25, <1>26 DEF n, toks, slots

LEMMA PrefillLays ==
  ASSUME KVTypeOK, NEW so \in SchedulerOutput, NEW r \in Req, PrefillOf(so, r),
         NEW b \in [1 .. Cardinality(Scheduled(so)) -> Scheduled(so)],
         Arrangement(b, Scheduled(so)),
         NEW width \in SeqBuckets
  PROVE  /\ ~IsDecode(so, b)
         /\ Lays(so, PaddedTokens(so, b, width), SlotMapAfter(so, b, width))
         /\ \A p \in 1 .. Len(b) :
              Tokens(so, b)[LogitsIndex(so, b, p)]
                = Token(b[p], so.computed[b[p]] + so.toks[b[p]] - 1, TRUE)
<1> DEFINE S == Scheduled(so)
           w == so.padded[r]
           t == so.toks[r]
           toks == PaddedTokens(so, b, width)
           slots == SlotMapAfter(so, b, width)
<1>1. S = {r}
  BY DEF PrefillOf
<1>2. b \in Seq(Req) /\ Len(b) = 1 /\ b[1] = r
  <2>1. S \in SUBSET Req /\ Cardinality(S) = 1
    BY <1>1, FS_Singleton
  <2>2. /\ b \in Seq(Req) /\ Len(b) = Cardinality(S)
        /\ \A p \in 1 .. Len(b) : b[p] \in S
    BY <2>1, BatchIsListing
  <2> QED
    BY <1>1, <2>1, <2>2
<1>3. /\ ~IsDecode(so, b)
      /\ t \in 1 .. w
      /\ Tokens(so, b) = [i \in 1 .. w |-> IF i <= t THEN Token(r, i - 1, TRUE)
                                           ELSE Token(r, t - 1, FALSE)]
      /\ LogitsIndex(so, b, 1) = t
  BY <1>2, PrefillTokens
<1>4. /\ w \in 2 .. MaxTokens /\ t \in 1 .. MaxModelLen /\ so.computed[r] = 0
      /\ MaxTokens \in Nat /\ MaxModelLen \in Nat
  BY <1>3, OutputFields DEF PrefillOf
<1> HIDE DEF w, t
<1>5. Len(Tokens(so, b)) = w /\ DOMAIN Tokens(so, b) = 1 .. w
  BY <1>3, <1>4
<1>6. toks = Tokens(so, b)
  BY <1>2, <1>4, <1>5 DEF PaddedTokens
<1>7. \A i \in 1 .. w : /\ toks[i].req = r
                        /\ i <= t => toks[i].pos = i - 1 /\ toks[i].real = TRUE
                                     /\ toks[i] = Token(r, i - 1, TRUE)
                        /\ ~(i <= t) => toks[i].pos = t - 1 /\ toks[i].real = FALSE
  BY <1>3, <1>6 DEF Token
<1> HIDE DEF toks, slots, S
<1>8. \A i \in 1 .. w : toks[i].pos \in 0 .. MaxModelLen - 1
  <2> TAKE i \in 1 .. w
  <2>1. /\ i \in Nat /\ i >= 1 /\ t \in Nat /\ t >= 1 /\ t <= MaxModelLen
        /\ MaxModelLen \in Nat
    BY <1>4
  <2>2. CASE i <= t
    <3>1. toks[i].pos = i - 1
      BY <1>7, <2>2
    <3> QED
      BY <2>1, <2>2, <3>1
  <2>3. CASE ~(i <= t)
    <3>1. toks[i].pos = t - 1
      BY <1>7, <2>3
    <3> QED
      BY <2>1, <3>1
  <2> QED
    BY <2>2, <2>3
<1>9. slots \in [1 .. MaxTokens -> 0 .. (NumBlocks + 1) * BlockSize - 1]
  <2>1. \A i \in 1 .. w : toks[i].req \in Req /\ toks[i].pos \in Nat
    <3> TAKE i \in 1 .. w
    <3>1. toks[i].req = r /\ toks[i].pos \in 0 .. MaxModelLen - 1
      BY <1>7, <1>8
    <3> QED
      BY <1>4, <3>1
  <2> QED
    BY <1>5, <1>6, <2>1, SlotMapTypes DEF slots
<1>10. \A i \in 1 .. w : i \in 1 .. MaxTokens /\ slots[i] = TokenSlot(so, toks[i])
  <2> TAKE i \in 1 .. w
  <2>1. i \in 1 .. MaxTokens /\ i <= w
    BY <1>4
  <2> QED
    BY <1>5, <1>6, <2>1 DEF SlotMapAfter, slots
<1>11. \A i \in 1 .. w : toks[i].real => slots[i] = SlotFor(RowAfter(so, r), toks[i].pos)
  BY <1>7, <1>10 DEF TokenSlot
<1>12. \A i \in 1 .. w : ~toks[i].real => slots[i] = NullSlot
  BY <1>10 DEF TokenSlot
<1>13. Span(so, r) = 0 .. t - 1
  BY <1>4 DEF Span, t
<1>14. \A i \in 1 .. w : toks[i].real => i <= t /\ toks[i].pos = i - 1 /\ toks[i].pos \in Span(so, r)
  <2> TAKE i \in 1 .. w
  <2>1. toks[i].real => i <= t /\ toks[i].pos = i - 1
    BY <1>7
  <2>2. i <= t => i - 1 \in 0 .. t - 1
    BY <1>4
  <2> QED
    BY <1>13, <2>1, <2>2
<1>15. \A pos \in Span(so, r) : pos + 1 \in 1 .. w /\ toks[pos + 1] = Token(r, pos, TRUE)
  <2> TAKE pos \in Span(so, r)
  <2> DEFINE i == pos + 1
  <2>1. i \in 1 .. w /\ i <= t /\ i - 1 = pos
    BY <1>3, <1>4, <1>13
  <2> HIDE DEF i
  <2>2. toks[i] = Token(r, pos, TRUE)
    BY <1>7, <2>1
  <2> QED
    BY <2>1, <2>2 DEF i
<1>16. DOMAIN toks = 1 .. w
  BY <1>5, <1>6
<1>17. \A i, j \in 1 .. w : toks[i].real /\ toks[j].real /\ toks[i].pos = toks[j].pos => i = j
  BY <1>4, <1>14
<1>18. Lays(so, toks, slots)
  <2>1. DOMAIN toks \subseteq 1 .. MaxTokens
    BY <1>10, <1>16
  <2>2. \A i \in DOMAIN toks :
          toks[i].req \in Req \cup {NoReq} /\ toks[i].pos \in 0 .. MaxModelLen - 1
    BY <1>7, <1>8, <1>16
  <2>3. \A i \in DOMAIN toks : toks[i].real =>
          /\ toks[i].req \in S /\ toks[i].pos \in Span(so, toks[i].req)
          /\ slots[i] = SlotFor(RowAfter(so, toks[i].req), toks[i].pos)
    BY <1>1, <1>7, <1>11, <1>14, <1>16
  <2>4. \A q \in S : \A pos \in Span(so, q) : \E i \in DOMAIN toks : toks[i] = Token(q, pos, TRUE)
    BY <1>1, <1>15, <1>16
  <2> QED
    BY <1>9, <1>12, <1>16, <1>17, <2>1, <2>2, <2>3, <2>4 DEF Lays, S
<1>19. \A p \in 1 .. Len(b) : Tokens(so, b)[LogitsIndex(so, b, p)]
                                = Token(b[p], so.computed[b[p]] + so.toks[b[p]] - 1, TRUE)
  <2> TAKE p \in 1 .. Len(b)
  <2>1. p = 1 /\ b[p] = r
    BY <1>2
  <2>2. t \in 1 .. w /\ t <= t /\ so.computed[r] + t - 1 = t - 1
    BY <1>3, <1>4
  <2>3. Tokens(so, b)[t] = Token(r, t - 1, TRUE)
    BY <1>6, <1>7, <2>2
  <2> QED
    BY <1>3, <2>1, <2>2, <2>3 DEF t
<1> QED
  BY <1>3, <1>18, <1>19 DEF toks, slots

LEMMA NoneIsNotOne == Cardinality({}) # 1
BY FS_EmptySet

(* A step stores each fed position in its place, and nothing else.         *)
LEMMA CacheWrites ==
  ASSUME KVTypeOK, NEW so \in SchedulerOutput, NEW b, NEW width,
         Lays(so, PaddedTokens(so, b, width), SlotMapAfter(so, b, width)),
         NEW blocks \in [Req -> Seq(Blocks)], NEW L \in SUBSET Req, Private(blocks, L),
         \A r \in Scheduled(so) : /\ r \in L /\ RowAfter(so, r) = blocks[r]
                                  /\ so.computed[r] + so.toks[r] <= Len(blocks[r]) * BlockSize
  PROVE  /\ CacheAfter(so, b, width) \in [Blocks -> [0 .. BlockSize - 1 -> Entries]]
         /\ \A r \in Scheduled(so) : \A pos \in Span(so, r) :
              CacheAfter(so, b, width)[BlockAt(blocks[r], pos)][pos % BlockSize] = Entry(r, pos)
         /\ \A blk \in Blocks, o \in 0 .. BlockSize - 1 :
              (\A r \in Scheduled(so) : \A pos \in Span(so, r) :
                 ~(BlockAt(blocks[r], pos) = blk /\ pos % BlockSize = o))
                => CacheAfter(so, b, width)[blk][o] = cache[blk][o]
<1> DEFINE toks == PaddedTokens(so, b, width)
           slots == SlotMapAfter(so, b, width)
           after == CacheAfter(so, b, width)
           W(blk, o) == {i \in DOMAIN toks : slots[i] = blk * BlockSize + o}
           Pick(blk, o) == toks[CHOOSE i \in W(blk, o) : TRUE]
           Stored(blk, o) == CASE W(blk, o) = {} -> cache[blk][o]
                               [] Cardinality(W(blk, o)) = 1 /\ Pick(blk, o).real ->
                                    Entry(Pick(blk, o).req, Pick(blk, o).pos)
                               [] OTHER -> Garbage
<1>1. after = [blk \in Blocks |-> [o \in 0 .. BlockSize - 1 |-> Stored(blk, o)]]
  BY DEF CacheAfter
<1>2. Lays(so, toks, slots)
  OBVIOUS
<1> HIDE DEF toks, slots, after
<1>3. \A blk \in Blocks, o \in 0 .. BlockSize - 1 : after[blk][o] = Stored(blk, o)
  BY <1>1
<1>4. /\ MaxModelLen \in Nat /\ MaxModelLen >= 1 /\ BlockSize \in Nat \ {0} /\ NumBlocks \in Nat
      /\ Blocks \subseteq Nat
  BY KVSizeAssumption DEF Blocks
<1>5. \A r \in Scheduled(so) : /\ r \in Req /\ blocks[r] \in Seq(Blocks)
                               /\ so.computed[r] \in Nat /\ so.toks[r] \in Nat
  BY OutputFields DEF Scheduled
<1>6. \A r \in Scheduled(so) : \A pos \in Span(so, r) :
        pos \in Nat /\ pos < Len(blocks[r]) * BlockSize
  <2> SUFFICES ASSUME NEW r \in Scheduled(so), NEW pos \in Span(so, r)
               PROVE  pos \in Nat /\ pos < Len(blocks[r]) * BlockSize
    OBVIOUS
  <2>1. Len(blocks[r]) * BlockSize \in Nat
    BY <1>4, <1>5
  <2>2. so.computed[r] + so.toks[r] <= Len(blocks[r]) * BlockSize
    OBVIOUS
  <2> QED
    BY <1>5, <2>1, <2>2 DEF Span
<1>7. ASSUME NEW blk \in Blocks, NEW o \in 0 .. BlockSize - 1, NEW i \in W(blk, o)
      PROVE  /\ i \in DOMAIN toks /\ toks[i].real
             /\ toks[i].req \in Scheduled(so) /\ toks[i].pos \in Span(so, toks[i].req)
             /\ BlockAt(blocks[toks[i].req], toks[i].pos) = blk
             /\ toks[i].pos % BlockSize = o
  <2>1. i \in DOMAIN toks /\ slots[i] = blk * BlockSize + o
    OBVIOUS
  <2>2. toks[i].real
    <3>1. slots[i] # NullSlot
      BY <2>1, NullSlotIsOutside
    <3> QED
      BY <1>2, <2>1, <3>1 DEF Lays
  <2> DEFINE r == toks[i].req
             pos == toks[i].pos
  <2>3. r \in Scheduled(so) /\ pos \in Span(so, r) /\ slots[i] = SlotFor(RowAfter(so, r), pos)
    BY <1>2, <2>1, <2>2 DEF Lays
  <2> HIDE DEF r, pos
  <2>4. SlotFor(blocks[r], pos) = blk * BlockSize + o
    BY <2>1, <2>3
  <2>5. BlockAt(blocks[r], pos) = blk /\ pos % BlockSize = o
    <3>1. pos \in Nat /\ blocks[r] \in Seq(Blocks) /\ blk \in Nat
      BY <1>4, <1>5, <1>6, <2>3
    <3> QED
      BY <2>4, <3>1, SlotIsPlace
  <2> QED
    BY <2>1, <2>2, <2>3, <2>5 DEF r, pos
<1>8. ASSUME NEW blk \in Blocks, NEW o \in 0 .. BlockSize - 1
      PROVE  Stored(blk, o) \in Entries
  <2>1. CASE W(blk, o) = {}
    <3>1. cache[blk][o] \in Entries
      BY DEF KVTypeOK
    <3> HIDE DEF W, Pick
    <3>2. Cardinality(W(blk, o)) # 1
      BY <2>1, NoneIsNotOne
    <3> QED
      BY <2>1, <3>1, <3>2
  <2>2. CASE W(blk, o) # {}
    <3> DEFINE t == Pick(blk, o)
    <3>1. t.req \in Req \cup {NoReq} /\ t.pos \in 0 .. MaxModelLen - 1
      <4>1. (CHOOSE i \in W(blk, o) : TRUE) \in W(blk, o)
        BY <2>2
      <4>2. (CHOOSE i \in W(blk, o) : TRUE) \in DOMAIN toks
        BY <4>1
      <4> QED
        BY <1>2, <4>2 DEF Lays
    <3>2. Entry(t.req, t.pos) \in Entries
      BY <3>1 DEF Entry, Entries
    <3>3. Garbage \in Entries
      BY <1>4 DEF Garbage, Entry, Entries
    <3>4. Stored(blk, o) \in {Entry(t.req, t.pos), Garbage}
      <4> HIDE DEF W, Pick
      <4> QED
        BY <2>2
    <3> QED
      BY <3>2, <3>3, <3>4
  <2> QED
    BY <2>1, <2>2
<1>9. ASSUME NEW r \in Scheduled(so), NEW pos \in Span(so, r)
      PROVE  after[BlockAt(blocks[r], pos)][pos % BlockSize] = Entry(r, pos)
  <2> DEFINE blk == BlockAt(blocks[r], pos)
             o == pos % BlockSize
  <2>1. blk \in Blocks /\ o \in 0 .. BlockSize - 1
    BY <1>5, <1>6, BlockTypes
  <2>2. PICK i \in DOMAIN toks : toks[i] = Token(r, pos, TRUE)
    BY <1>2 DEF Lays
  <2>3. toks[i].real /\ toks[i].req = r /\ toks[i].pos = pos
    BY <2>2 DEF Token
  <2>4. slots[i] = SlotFor(blocks[r], pos)
    BY <1>2, <2>3 DEF Lays
  <2>5. i \in W(blk, o)
    <3>1. slots[i] = blk * BlockSize + o
      BY <2>4 DEF SlotFor
    <3> QED
      BY <3>1
  <2>6. \A j \in W(blk, o) : j = i
    <3> SUFFICES ASSUME NEW j \in W(blk, o) PROVE j = i
      OBVIOUS
    <3> DEFINE q == toks[j].req
               x == toks[j].pos
    <3>1. /\ j \in DOMAIN toks /\ toks[j].real
          /\ q \in Scheduled(so) /\ x \in Span(so, q)
          /\ BlockAt(blocks[q], x) = blk /\ x % BlockSize = o
      BY <1>7, <2>1
    <3> HIDE DEF q, x
    <3>2. /\ x \in Nat /\ x < Len(blocks[q]) * BlockSize /\ q \in L
          /\ pos \in Nat /\ pos < Len(blocks[r]) * BlockSize /\ r \in L
      BY <1>6, <3>1
    <3>3. r = q /\ pos = x
      BY <3>1, <3>2, PlacesArePrivate
    <3> QED
      BY <1>2, <2>3, <3>1, <3>3 DEF Lays, q, x
  <2>7. W(blk, o) = {i}
    BY <2>5, <2>6
  <2>8. Cardinality(W(blk, o)) = 1 /\ (CHOOSE j \in W(blk, o) : TRUE) = i
    BY <2>7, FS_Singleton
  <2>9. Pick(blk, o) = toks[i]
    BY <2>8
  <2>10. Stored(blk, o) = Entry(r, pos)
    <3> HIDE DEF W, Pick, blk, o
    <3>1. W(blk, o) # {}
      BY <2>7
    <3> QED
      BY <2>3, <2>8, <2>9, <3>1
  <2> HIDE DEF Stored, blk, o
  <2>11. after[blk][o] = Entry(r, pos)
    BY <1>3, <2>1, <2>10
  <2> QED
    BY <2>11 DEF blk, o
<1>10. ASSUME NEW blk \in Blocks, NEW o \in 0 .. BlockSize - 1,
              \A r \in Scheduled(so) : \A pos \in Span(so, r) :
                ~(BlockAt(blocks[r], pos) = blk /\ pos % BlockSize = o)
       PROVE  after[blk][o] = cache[blk][o]
  <2>1. W(blk, o) = {}
    <3> SUFFICES ASSUME NEW i \in W(blk, o) PROVE FALSE
      OBVIOUS
    <3> HIDE DEF W
    <3> QED
      BY <1>7, <1>10
  <2> HIDE DEF W, Pick
  <2>2. Cardinality(W(blk, o)) # 1
    BY <2>1, NoneIsNotOne
  <2>3. Stored(blk, o) = cache[blk][o]
    BY <2>1, <2>2
  <2> HIDE DEF Stored
  <2> QED
    BY <1>3, <2>3
<1> HIDE DEF Stored
<1>11. after \in [Blocks -> [0 .. BlockSize - 1 -> Entries]]
  BY <1>1, <1>8
<1> QED
  BY <1>9, <1>10, <1>11 DEF after

-----------------------------------------------------------------------------
(* What a decode reads. *)

LEMMA MinOfTwo ==
  ASSUME NEW x \in Nat, NEW y \in Nat
  PROVE  Min({x, y}) \in {x, y} /\ Min({x, y}) <= x /\ Min({x, y}) <= y
BY DEF Min

(* A bucket is found for whatever the largest bucket holds.                *)
LEMMA BucketHolds ==
  ASSUME NEW buckets \in SUBSET Nat, NEW n \in Nat, \E k \in buckets : n <= k
  PROVE  BucketFor(n, buckets) \in buckets /\ n <= BucketFor(n, buckets)
<1> DEFINE T == {k \in buckets : n <= k}
<1>1. PICK m \in T : \A k \in T : m <= k
  <2>1. T \in SUBSET Nat /\ T # {}
    OBVIOUS
  <2> HIDE DEF T
  <2> QED
    BY <2>1, LeastNumber
<1>2. \E k \in buckets : n <= k /\ \A j \in buckets : n <= j => k <= j
  BY <1>1
<1> QED
  BY <1>2 DEF BucketFor

LEMMA AttendedIs ==
  ASSUME NEW r, NEW blocks \in Seq(Blocks), NEW pos \in Nat, NEW ctx \in 0 .. MaxModelLen - 1,
         pos <= ctx, pos + 1 <= Len(blocks) * BlockSize,
         NEW after,
         \A x \in 0 .. pos : after[BlockAt(blocks, x)][x % BlockSize] = Entry(r, x)
  PROVE  Attended(after, TrimmedRow(blocks, CtxBlocks(ctx)), pos) = History(r, pos + 1)
<1>1. BlockSize \in Nat \ {0} /\ MaxModelLen \in Nat \ {0} /\ ctx \in Nat /\ Len(blocks) \in Nat
  BY KVSizeAssumption
<1> DEFINE bucket == BucketFor(ctx + 1, CtxBuckets \cup {MaxModelLen})
           c == CtxBlocks(ctx)
           m == Min({Len(blocks), c})
           trimmed == TrimmedRow(blocks, c)
<1>2. bucket \in Nat /\ ctx + 1 <= bucket
  <2>1. CtxBuckets \cup {MaxModelLen} \in SUBSET Nat /\ ctx + 1 \in Nat /\ ctx + 1 <= MaxModelLen
    BY <1>1, KVBucketAssumption
  <2> QED
    BY <2>1, BucketHolds
<1>3. c \in Nat /\ bucket <= c * BlockSize
  <2>1. c = CeilDiv(bucket, BlockSize)
    BY DEF CtxBlocks
  <2> HIDE DEF bucket, c
  <2>2. c \in Nat
    BY <1>1, <1>2, <2>1, CeilDivBound
  <2>3. CeilDiv(bucket, BlockSize) <= c
    BY <2>1, <2>2
  <2> QED
    BY <1>1, <1>2, <2>2, <2>3, CeilDivBound
<1> HIDE DEF bucket, c
<1>4. m \in {Len(blocks), c} /\ m \in Nat /\ m <= Len(blocks)
  BY <1>1, <1>3, MinOfTwo
<1>5. /\ trimmed \in Seq(Blocks) /\ Len(trimmed) = m
      /\ \A k \in 1 .. m : trimmed[k] = blocks[k]
  <2>1. trimmed = SubSeq(blocks, 1, m)
    BY DEF TrimmedRow
  <2> HIDE DEF m, trimmed
  <2>2. \A i \in 1 .. m : blocks[i] \in Blocks
    BY <1>1, <1>4
  <2>3. /\ trimmed \in Seq(Blocks) /\ Len(trimmed) = IF 1 <= m THEN m - 1 + 1 ELSE 0
        /\ \A i \in 1 .. m - 1 + 1 : trimmed[i] = blocks[1 + i - 1]
    BY <1>4, <2>1, <2>2, SubSeqProperties
  <2>4. m - 1 + 1 = m /\ \A i \in 1 .. m : 1 + i - 1 = i
    BY <1>4
  <2> QED
    BY <1>4, <2>3, <2>4
<1> HIDE DEF m, trimmed
<1>6. pos + 1 <= m * BlockSize /\ m * BlockSize \in Nat
  <2>1. CASE m = Len(blocks)
    BY <1>1, <1>4, <2>1
  <2>2. CASE m = c
    <3>1. c * BlockSize \in Nat
      BY <1>1, <1>3
    <3> QED
      BY <1>1, <1>2, <1>3, <2>2, <3>1
  <2> QED
    BY <1>4, <2>1, <2>2
<1>7. Min({pos + 1, Len(trimmed) * BlockSize}) = pos + 1
  <2>1. \A y \in Nat : pos + 1 <= y => Min({pos + 1, y}) = pos + 1
    BY DEF Min
  <2> QED
    BY <1>5, <1>6, <2>1
<1>8. ASSUME NEW q \in 1 .. pos + 1
      PROVE  after[BlockAt(trimmed, q - 1)][(q - 1) % BlockSize] = Entry(r, q - 1)
  <2> DEFINE x == q - 1
  <2>1. x \in 0 .. pos /\ x \in Nat /\ x < m * BlockSize /\ x < Len(blocks) * BlockSize
    <3>1. Len(blocks) * BlockSize \in Nat
      BY <1>1
    <3> QED
      BY <1>6, <3>1
  <2> HIDE DEF x
  <2>2. /\ x \div BlockSize + 1 \in 1 .. m
        /\ BlockAt(trimmed, x) = trimmed[x \div BlockSize + 1]
        /\ BlockAt(blocks, x) = blocks[x \div BlockSize + 1]
    BY <1>5, <2>1, BlockTypes
  <2>3. BlockAt(trimmed, x) = BlockAt(blocks, x)
    BY <1>5, <2>2
  <2>4. after[BlockAt(trimmed, x)][x % BlockSize] = Entry(r, x)
    BY <2>1, <2>3
  <2> QED
    BY <2>4 DEF x
<1>9. Attended(after, trimmed, pos) = History(r, pos + 1)
  BY <1>7, <1>8 DEF Attended, History
<1> QED
  BY <1>9 DEF trimmed, c

-----------------------------------------------------------------------------
(* One executed output that fits what the runner knows. *)

(* The row of a scheduled request is its blocks, in the batch before or not.*)
LEMMA RowIsBlocks ==
  ASSUME blockIds \in [Req -> Seq(Blocks)], BatchRows, NEW so \in SchedulerOutput,
         NEW r \in Req, r \in so.new => blockIds[r] = << >>
  PROVE  /\ BlockIdsAfter(so, r) = BlocksAfter(blockIds, so)[r]
         /\ r \in Scheduled(so) => RowAfter(so, r) = BlocksAfter(blockIds, so)[r]
<1>1. BlockIdsAfter(so, r) = BlocksAfter(blockIds, so)[r]
  BY DEF BlockIdsAfter, BlocksAfter, Entering
<1>2. ASSUME r \in Scheduled(so), r \in ToSet(batch) \ (so.finished \cup so.resumed)
      PROVE  row[r] \o so.blocks[r] = BlockIdsAfter(so, r)
  <2>1. row[r] = blockIds[r] /\ r \notin so.resumed
    BY <1>2 DEF BatchRows
  <2>2. CASE r \in so.new
    <3>1. so.blocks[r] \in Seq(Blocks)
      BY OutputFields
    <3>2. << >> \o so.blocks[r] = so.blocks[r]
      BY <3>1, ConcatEmptySeq
    <3> QED
      BY <2>1, <2>2, <3>2 DEF BlockIdsAfter
  <2>3. CASE r \notin so.new
    BY <1>2, <2>1, <2>3 DEF BlockIdsAfter
  <2> QED
    BY <2>2, <2>3
<1> QED
  BY <1>1, <1>2 DEF RowAfter

(* Blocks appended behind others leave the places of these where they were.*)
LEMMA PrefixKeepsPlaces ==
  ASSUME NEW s \in Seq(Blocks), NEW t \in Seq(Blocks), Prefix(s, t),
         NEW pos \in Nat, pos < Len(s) * BlockSize
  PROVE  BlockAt(t, pos) = BlockAt(s, pos) /\ pos < Len(t) * BlockSize
<1>1. /\ Len(s) \in Nat /\ Len(t) \in Nat /\ Len(s) <= Len(t) /\ BlockSize \in Nat \ {0}
      /\ \A i \in 1 .. Len(s) : s[i] = t[i]
  BY KVSizeAssumption DEF Prefix
<1>2. Len(s) * BlockSize \in Nat /\ Len(t) * BlockSize \in Nat
  BY <1>1
<1>3. Len(s) * BlockSize <= Len(t) * BlockSize
  <2>1. CASE Len(s) = Len(t)
    BY <1>2, <2>1
  <2>2. CASE Len(s) < Len(t)
    <3>1. Len(s) * BlockSize + BlockSize <= Len(t) * BlockSize
      BY <1>1, <2>2, Products
    <3> QED
      BY <1>1, <1>2, <3>1
  <2> QED
    BY <1>1, <2>1, <2>2
<1>4. pos < Len(t) * BlockSize
  BY <1>2, <1>3
<1> DEFINE k == pos \div BlockSize + 1
<1>5. k \in 1 .. Len(s) /\ BlockAt(s, pos) = s[k] /\ BlockAt(t, pos) = t[k]
  BY <1>4, BlockTypes
<1> HIDE DEF k
<1> QED
  BY <1>1, <1>4, <1>5

LEMMA ConcatPrefix ==
  ASSUME NEW s \in Seq(Blocks), NEW t \in Seq(Blocks)
  PROVE  Prefix(s, s \o t)
<1> DEFINE B == Blocks
<1> HIDE DEF B
<1>1. s \in Seq(B) /\ t \in Seq(B)
  BY DEF B
<1>2. Len(s \o t) = Len(s) + Len(t)
  BY <1>1, ConcatProperties
<1>3. \A i \in 1 .. Len(s) + Len(t) : (s \o t)[i] = IF i <= Len(s) THEN s[i] ELSE t[i - Len(s)]
  BY <1>1, ConcatProperties
<1>4. Len(s) \in Nat /\ Len(t) \in Nat
  BY <1>1
<1>5. \A i \in 1 .. Len(s) : (s \o t)[i] = s[i]
  BY <1>3, <1>4
<1> QED
  BY <1>2, <1>4, <1>5 DEF Prefix

(* What an output that fits a view does to a request it brings on or leaves.*)
LEMMA StepOfRequest ==
  ASSUME NEW v \in Views, NEW so \in SchedulerOutput, NEW w \in Views,
         Fits(v, so), Follows(v, so, w), NEW r \in w.live
  PROVE  /\ r \in Req
         /\ r \notin Scheduled(so) => r \in v.live /\ w.blocks[r] = v.blocks[r]
                                      /\ w.fed[r] = v.fed[r]
         /\ r \in Scheduled(so) =>
              /\ w.fed[r] = so.computed[r] + so.toks[r]
              /\ so.computed[r] # 0 => /\ r \in v.live /\ so.computed[r] = v.fed[r]
                                       /\ Prefix(v.blocks[r], w.blocks[r])
<1>1. r \in Req /\ v.blocks[r] \in Seq(Blocks) /\ so.blocks[r] \in Seq(Blocks)
  BY OutputFields DEF Views
<1>2. /\ w.blocks[r] = IF r \in Entering(so) THEN so.blocks[r]
                       ELSE IF r \in Scheduled(so) THEN v.blocks[r] \o so.blocks[r]
                       ELSE IF r \in so.finished THEN << >> ELSE v.blocks[r]
      /\ w.fed[r] = IF r \in Scheduled(so) THEN so.computed[r] + so.toks[r]
                    ELSE IF r \in so.finished THEN 0 ELSE v.fed[r]
      /\ r \in v.live \cup Entering(so) /\ r \notin so.finished
  BY <1>1 DEF Follows, BlocksAfter, FedAfter
<1>3. \/ /\ Entering(so) = {}
         /\ r \in Scheduled(so) => r \in v.live /\ so.computed[r] = v.fed[r]
      \/ /\ Entering(so) = Scheduled(so)
         /\ r \in Scheduled(so) => so.computed[r] = 0
  BY DEF Fits, DecodeOf, PrefillOf
<1>4. CASE r \notin Scheduled(so)
  BY <1>1, <1>2, <1>3, <1>4
<1>5. CASE r \in Scheduled(so)
  <2>1. ASSUME so.computed[r] # 0
        PROVE  /\ r \in v.live /\ so.computed[r] = v.fed[r]
               /\ w.blocks[r] = v.blocks[r] \o so.blocks[r]
    BY <1>2, <1>3, <1>5, <2>1
  <2>2. Prefix(v.blocks[r], v.blocks[r] \o so.blocks[r])
    BY <1>1, ConcatPrefix
  <2> QED
    BY <1>1, <1>2, <1>5, <2>1, <2>2
<1> QED
  BY <1>4, <1>5

(* A cache that holds one view holds the next once the output has written. *)
LEMMA CacheFollows ==
  ASSUME NEW v \in Views, NEW so \in SchedulerOutput, NEW w \in Views,
         Fits(v, so), Follows(v, so, w), Sound(v), Sound(w), Holds(v),
         NEW after,
         \A r \in Scheduled(so) : \A pos \in Span(so, r) :
           after[BlockAt(w.blocks[r], pos)][pos % BlockSize] = Entry(r, pos),
         \A blk \in Blocks, o \in 0 .. BlockSize - 1 :
           (\A r \in Scheduled(so) : \A pos \in Span(so, r) :
              ~(BlockAt(w.blocks[r], pos) = blk /\ pos % BlockSize = o))
             => after[blk][o] = cache[blk][o]
  PROVE  \A r \in w.live : \A pos \in 0 .. w.fed[r] - 1 :
           after[BlockAt(w.blocks[r], pos)][pos % BlockSize] = Entry(r, pos)
<1> SUFFICES ASSUME NEW r \in w.live, NEW pos \in 0 .. w.fed[r] - 1
             PROVE  after[BlockAt(w.blocks[r], pos)][pos % BlockSize] = Entry(r, pos)
  OBVIOUS
<1>1. /\ \A q \in w.live : /\ q \in Req /\ w.blocks[q] \in Seq(Blocks) /\ w.fed[q] \in Nat
                           /\ Len(w.blocks[q]) * BlockSize \in Nat
                           /\ w.fed[q] <= Len(w.blocks[q]) * BlockSize
      /\ \A q \in v.live : /\ v.blocks[q] \in Seq(Blocks) /\ v.fed[q] \in Nat
                           /\ Len(v.blocks[q]) * BlockSize \in Nat
                           /\ v.fed[q] <= Len(v.blocks[q]) * BlockSize
      /\ w.blocks \in [Req -> Seq(Blocks)] /\ w.live \in SUBSET Req
      /\ Private(w.blocks, w.live)
  BY KVSizeAssumption DEF Views, Sound
<1>2. \A q \in Scheduled(so) :
        /\ q \in w.live /\ q \in Req /\ so.computed[q] \in Nat /\ so.toks[q] \in Nat
        /\ w.fed[q] = so.computed[q] + so.toks[q]
  <2> TAKE q \in Scheduled(so)
  <2>1. q \in w.live /\ q \in Req
    BY DEF Follows, Scheduled
  <2> QED
    BY <2>1, StepOfRequest, OutputFields
<1>3. pos \in Nat /\ pos < Len(w.blocks[r]) * BlockSize
  BY <1>1
<1> DEFINE blk == BlockAt(w.blocks[r], pos)
           o == pos % BlockSize
<1>4. blk \in Blocks /\ o \in 0 .. BlockSize - 1
  BY <1>1, <1>3, BlockTypes
<1>5. CASE r \in Scheduled(so) /\ pos \in Span(so, r)
  BY <1>5
<1>6. CASE ~(r \in Scheduled(so) /\ pos \in Span(so, r))
  <2>1. \A q \in Scheduled(so) : \A x \in Span(so, q) :
          ~(BlockAt(w.blocks[q], x) = blk /\ x % BlockSize = o)
    <3> SUFFICES ASSUME NEW q \in Scheduled(so), NEW x \in Span(so, q),
                        BlockAt(w.blocks[q], x) = blk, x % BlockSize = o
                 PROVE  FALSE
      OBVIOUS
    <3>1. x \in Nat /\ x < w.fed[q] /\ q \in w.live
      BY <1>2 DEF Span
    <3>2. x < Len(w.blocks[q]) * BlockSize
      BY <1>1, <3>1
    <3>3. q = r /\ x = pos
      <4> DEFINE blocks == w.blocks
                 L == w.live
      <4>1. /\ blocks \in [Req -> Seq(Blocks)] /\ L \in SUBSET Req /\ Private(blocks, L)
            /\ q \in L /\ r \in L
            /\ x < Len(blocks[q]) * BlockSize /\ pos < Len(blocks[r]) * BlockSize
            /\ BlockAt(blocks[q], x) = BlockAt(blocks[r], pos)
            /\ x % BlockSize = pos % BlockSize
        BY <1>1, <1>3, <3>1, <3>2
      <4> HIDE DEF blocks, L
      <4>2. pos \in Nat /\ x \in Nat
        BY <1>3, <3>1
      <4> QED
        BY <4>1, <4>2, PlacesArePrivate, SMTT(60)
    <3> QED
      BY <1>6, <3>3
  <2>2. after[blk][o] = cache[blk][o]
    <3> HIDE DEF blk, o
    <3> QED
      BY <1>4, <2>1
  <2>3. r \in v.live /\ pos < v.fed[r] /\ BlockAt(w.blocks[r], pos) = BlockAt(v.blocks[r], pos)
    <3>1. CASE r \notin Scheduled(so)
      BY <1>1, <3>1, StepOfRequest
    <3>2. CASE r \in Scheduled(so)
      <4>1. pos \notin Span(so, r)
        BY <1>6, <3>2
      <4>2. pos < so.computed[r]
        BY <1>2, <1>3, <3>2, <4>1 DEF Span
      <4>3. /\ r \in v.live /\ so.computed[r] = v.fed[r]
            /\ Prefix(v.blocks[r], w.blocks[r])
        BY <1>3, <3>2, <4>2, StepOfRequest
      <4>4. pos < Len(v.blocks[r]) * BlockSize
        BY <1>1, <1>3, <4>2, <4>3
      <4> QED
        BY <1>1, <1>3, <4>2, <4>3, <4>4, PrefixKeepsPlaces
    <3> QED
      BY <3>1, <3>2
  <2>4. cache[BlockAt(v.blocks[r], pos)][pos % BlockSize] = Entry(r, pos)
    <3>1. pos \in 0 .. v.fed[r] - 1
      BY <1>1, <1>3, <2>3
    <3> QED
      BY <2>3, <3>1 DEF Holds
  <2> QED
    BY <2>2, <2>3, <2>4
<1> QED
  BY <1>5, <1>6

(* What the runner knows after a step is the next view.                    *)
LEMMA StepKnows ==
  ASSUME KVTypeOK, BatchRows, NEW v \in Views, v.blocks = blockIds, v.fed = fed,
         NEW so \in SchedulerOutput, NEW w \in Views, Fits(v, so), Follows(v, so, w),
         ExecuteModel(so)
  PROVE  /\ blockIds' = w.blocks /\ fed' = w.fed
         /\ batch' \in Seq(Req) /\ ToSet(batch') = Scheduled(so)
         /\ row' \in [Req -> Seq(Blocks)]
         /\ \A r \in Scheduled(so) : RowAfter(so, r) = w.blocks[r] /\ row'[r] = w.blocks[r]
<1>1. blockIds \in [Req -> Seq(Blocks)] /\ row \in [Req -> Seq(Blocks)]
  BY DEF KVTypeOK
<1>2. ASSUME NEW r \in Req
      PROVE  /\ BlockIdsAfter(so, r) = w.blocks[r]
             /\ r \in Scheduled(so) => RowAfter(so, r) = w.blocks[r]
  <2>1. w.blocks[r] = BlocksAfter(blockIds, so)[r]
    BY DEF Follows
  <2>2. r \in so.new => blockIds[r] = << >>
    BY DEF Fits
  <2> QED
    BY <1>1, <2>1, <2>2, RowIsBlocks
<1>3. blockIds' = w.blocks
  <2>1. blockIds' = [r \in Req |-> BlockIdsAfter(so, r)]
    BY DEF ExecuteModel
  <2>2. w.blocks \in [Req -> Seq(Blocks)]
    BY DEF Views
  <2> QED
    BY <1>2, <2>1, <2>2
<1>4. fed' = w.fed
  BY DEF ExecuteModel, Follows, FedAfter
<1>5. Scheduled(so) \in SUBSET Req
  BY DEF Scheduled
<1>6. row' = [r \in Req |-> RowAfter(so, r)]
  BY DEF ExecuteModel
<1>7. row' \in [Req -> Seq(Blocks)]
  BY <1>1, <1>6, RowTypes
<1>8. batch' \in Seq(Req) /\ ToSet(batch') = Scheduled(so)
  <2>1. PICK b \in [1 .. Cardinality(Scheduled(so)) -> Scheduled(so)] :
          Arrangement(b, Scheduled(so)) /\ batch' = b
    BY DEF ExecuteModel
  <2>2. b \in Seq(Req)
    BY <1>5, <2>1, BatchIsListing
  <2> QED
    BY <2>1, <2>2 DEF Arrangement
<1> QED
  BY <1>2, <1>3, <1>4, <1>5, <1>6, <1>7, <1>8

LEMMA HistoryTypes ==
  ASSUME NEW r \in Req, NEW n \in 0 .. MaxModelLen
  PROVE  History(r, n) \in Seq(Entries)
<1>1. \A i \in 1 .. n : Entry(r, i - 1) \in Entries
  BY KVSizeAssumption DEF Entry, Entries
<1> HIDE DEF Entries
<1>2. History(r, n) \in [1 .. n -> Entries]
  BY <1>1 DEF History
<1>3. n \in Nat
  BY KVSizeAssumption
<1> QED
  BY <1>2, <1>3

(* What a step that runs the model leaves behind.                          *)
LEMMA ModelOutcome ==
  ASSUME KVTypeOK, NEW v \in Views, NEW so \in SchedulerOutput, NEW w \in Views,
         Fits(v, so), Follows(v, so, w), Sound(v), Sound(w), Holds(v),
         \A r \in Scheduled(so) : RowAfter(so, r) = w.blocks[r],
         NEW b \in [1 .. Cardinality(Scheduled(so)) -> Scheduled(so)],
         Arrangement(b, Scheduled(so)),
         NEW width \in SeqBuckets, Len(b) <= width
  PROVE  /\ SlotMapAfter(so, b, width) \in [1 .. MaxTokens -> 0 .. (NumBlocks + 1) * BlockSize - 1]
         /\ CacheAfter(so, b, width) \in [Blocks -> [0 .. BlockSize - 1 -> Entries]]
         /\ \A r \in w.live : \A pos \in 0 .. w.fed[r] - 1 :
              CacheAfter(so, b, width)[BlockAt(w.blocks[r], pos)][pos % BlockSize] = Entry(r, pos)
         /\ \A p \in 1 .. Len(b) :
              Tokens(so, b)[LogitsIndex(so, b, p)]
                = Token(b[p], so.computed[b[p]] + so.toks[b[p]] - 1, TRUE)
         /\ IsDecode(so, b) => DecodeOf(v, so)
<1>1. /\ Lays(so, PaddedTokens(so, b, width), SlotMapAfter(so, b, width))
      /\ \A p \in 1 .. Len(b) :
           Tokens(so, b)[LogitsIndex(so, b, p)]
             = Token(b[p], so.computed[b[p]] + so.toks[b[p]] - 1, TRUE)
      /\ IsDecode(so, b) => DecodeOf(v, so)
  <2>1. CASE DecodeOf(v, so)
    BY <2>1, DecodeLays
  <2>2. CASE \E r \in Req : PrefillOf(so, r)
    BY <2>2, PrefillLays
  <2> QED
    BY <2>1, <2>2 DEF Fits
<1> DEFINE blocks == w.blocks
           L == w.live
           after == CacheAfter(so, b, width)
<1>2. blocks \in [Req -> Seq(Blocks)] /\ L \in SUBSET Req /\ Private(blocks, L)
  BY DEF Views, Sound
<1>3. \A r \in Scheduled(so) : /\ r \in L /\ RowAfter(so, r) = blocks[r]
                               /\ so.computed[r] + so.toks[r] <= Len(blocks[r]) * BlockSize
  <2> TAKE r \in Scheduled(so)
  <2>1. r \in w.live
    BY DEF Follows
  <2>2. w.fed[r] = so.computed[r] + so.toks[r]
    BY <2>1, StepOfRequest
  <2> QED
    BY <2>1, <2>2 DEF Sound
<1>4. /\ after \in [Blocks -> [0 .. BlockSize - 1 -> Entries]]
      /\ \A r \in Scheduled(so) : \A pos \in Span(so, r) :
           after[BlockAt(blocks[r], pos)][pos % BlockSize] = Entry(r, pos)
      /\ \A blk \in Blocks, o \in 0 .. BlockSize - 1 :
           (\A r \in Scheduled(so) : \A pos \in Span(so, r) :
              ~(BlockAt(blocks[r], pos) = blk /\ pos % BlockSize = o))
             => after[blk][o] = cache[blk][o]
  <2> HIDE DEF blocks, L
  <2> QED
    BY <1>1, <1>2, <1>3, CacheWrites, SMTT(60)
<1> HIDE DEF after
<1>5. \A r \in w.live : \A pos \in 0 .. w.fed[r] - 1 :
        after[BlockAt(w.blocks[r], pos)][pos % BlockSize] = Entry(r, pos)
  BY <1>4, CacheFollows
<1>6. SlotMapAfter(so, b, width) \in [1 .. MaxTokens -> 0 .. (NumBlocks + 1) * BlockSize - 1]
  BY <1>1 DEF Lays
<1> QED
  BY <1>1, <1>4, <1>5, <1>6 DEF after

(* A decode row attends to the whole of its history.                       *)
LEMMA DecodeAttends ==
  ASSUME NEW v \in Views, NEW so \in SchedulerOutput, NEW w \in Views,
         Fits(v, so), Follows(v, so, w), Sound(w), DecodeOf(v, so),
         NEW after,
         \A r \in w.live : \A pos \in 0 .. w.fed[r] - 1 :
           after[BlockAt(w.blocks[r], pos)][pos % BlockSize] = Entry(r, pos),
         NEW r \in Scheduled(so), NEW ctx \in 0 .. MaxModelLen - 1, so.computed[r] <= ctx
  PROVE  Attended(after, TrimmedRow(w.blocks[r], CtxBlocks(ctx)), so.computed[r])
           = History(r, w.fed[r])
<1>1. r \in w.live /\ r \in Req
  BY DEF Follows, Scheduled
<1>2. /\ w.fed[r] = so.computed[r] + 1 /\ so.computed[r] \in Nat
      /\ w.blocks[r] \in Seq(Blocks) /\ w.fed[r] <= Len(w.blocks[r]) * BlockSize
  <2>1. w.fed[r] = so.computed[r] + so.toks[r] /\ so.toks[r] = 1
    BY <1>1, StepOfRequest DEF DecodeOf
  <2> QED
    BY <1>1, <2>1, OutputFields DEF Sound, Views
<1> DEFINE pos == so.computed[r]
           blocks == w.blocks[r]
<1>3. \A x \in 0 .. pos : after[BlockAt(blocks, x)][x % BlockSize] = Entry(r, x)
  <2>1. w.fed[r] - 1 = pos
    BY <1>2
  <2> QED
    BY <1>1, <2>1
<1>4. /\ blocks \in Seq(Blocks) /\ pos \in Nat /\ pos <= ctx
      /\ pos + 1 <= Len(blocks) * BlockSize /\ pos + 1 = w.fed[r]
  BY <1>2
<1> HIDE DEF pos, blocks
<1>5. Attended(after, TrimmedRow(blocks, CtxBlocks(ctx)), pos) = History(r, pos + 1)
  BY <1>3, <1>4, AttendedIs
<1> QED
  BY <1>4, <1>5 DEF pos, blocks

(* One executed output: the worker is where the next view says, every      *)
(* decode has attended to its history, and every row sampled its last token*)
LEMMA ExecuteOutcome ==
  ASSUME KVTypeOK, BatchRows, NEW v \in Views, v.blocks = blockIds, v.fed = fed,
         NEW so \in SchedulerOutput, NEW w \in Views, Fits(v, so), Follows(v, so, w),
         Sound(v), Sound(w), Holds(v), ExecuteModel(so)
  PROVE  /\ KVTypeOK' /\ AttendsOwnHistory' /\ SampledFromLast' /\ BatchRows'
         /\ w.blocks = blockIds' /\ w.fed = fed' /\ Holds(w)'
<1> DEFINE S == Scheduled(so)
           SM == [1 .. MaxTokens -> 0 .. (NumBlocks + 1) * BlockSize - 1]
           C == [Blocks -> [0 .. BlockSize - 1 -> Entries]]
           Stored(after) == \A r \in w.live : \A pos \in 0 .. w.fed[r] - 1 :
             after[BlockAt(w.blocks[r], pos)][pos % BlockSize] = Entry(r, pos)
<1>1. /\ blockIds' = w.blocks /\ fed' = w.fed
      /\ batch' \in Seq(Req) /\ ToSet(batch') = S
      /\ row' \in [Req -> Seq(Blocks)]
      /\ \A r \in S : RowAfter(so, r) = w.blocks[r] /\ row'[r] = w.blocks[r]
  BY StepKnows
<1>2. /\ w.blocks \in [Req -> Seq(Blocks)] /\ w.fed \in [Req -> 0 .. MaxModelLen]
      /\ S \in SUBSET Req /\ MaxModelLen \in Nat /\ MaxModelLen >= 1
      /\ slotMap \in SM /\ cache \in C
  BY KVSizeAssumption DEF Views, Scheduled, KVTypeOK
<1>3. \A r \in S : /\ r \in w.live /\ w.fed[r] = so.computed[r] + so.toks[r]
                   /\ so.computed[r] \in Nat /\ so.toks[r] \in Nat /\ so.toks[r] > 0
                   /\ w.fed[r] \in 1 .. MaxModelLen
  <2> TAKE r \in S
  <2>1. r \in w.live /\ r \in Req
    BY <1>2 DEF Follows
  <2>2. w.fed[r] = so.computed[r] + so.toks[r] /\ w.fed[r] \in 0 .. MaxModelLen
    BY <1>2, <2>1, StepOfRequest
  <2> QED
    BY <1>2, <2>1, <2>2, OutputFields
<1>4. \A r \in Req : Garbage \in Entries /\ << >> \in Seq(Entries)
  BY <1>2 DEF Garbage, Entry, Entries
<1>5. PICK b \in [1 .. Cardinality(S) -> S] :
        /\ Arrangement(b, S) /\ batch' = b
        /\ \/ /\ b = << >>
              /\ attended' = [r \in Req |-> << >>]
              /\ sampled' = [r \in Req |-> Garbage]
              /\ UNCHANGED <<slotMap, cache>>
           \/ /\ b # << >>
              /\ \E width \in SeqBuckets, ctx \in 0 .. MaxModelLen - 1 :
                   /\ Len(b) <= width
                   /\ \A r \in ToSet(b) : IsDecode(so, b) => so.computed[r] <= ctx
                   /\ slotMap' = SlotMapAfter(so, b, width)
                   /\ cache' = CacheAfter(so, b, width)
                   /\ attended' =
                        [r \in Req |->
                           IF r \in ToSet(b) /\ IsDecode(so, b)
                           THEN Attended(cache', TrimmedRow(row'[r], CtxBlocks(ctx)), so.computed[r])
                           ELSE << >>]
                   /\ sampled' =
                        [r \in Req |->
                           IF r \notin ToSet(b) THEN Garbage
                           ELSE LET p == CHOOSE p \in DOMAIN b : b[p] = r
                                    t == Tokens(so, b)[LogitsIndex(so, b, p)]
                                IN  IF t.real THEN Entry(t.req, t.pos) ELSE Garbage]
  BY DEF ExecuteModel
<1>6. /\ DOMAIN b = 1 .. Len(b)
      /\ \A r \in S : \E p \in 1 .. Len(b) : b[p] = r
  <2>1. S \in SUBSET Req /\ Arrangement(b, S)
    BY <1>2, <1>5
  <2> HIDE DEF S
  <2> QED
    BY <2>1, BatchIsListing
<1>7. ToSet(b) = S
  BY <1>5 DEF Arrangement
<1>8. CASE b = << >>
  <2>1. S = {}
    BY <1>6, <1>8
  <2>2. /\ slotMap' = slotMap /\ cache' = cache
        /\ attended' = [r \in Req |-> << >>] /\ sampled' = [r \in Req |-> Garbage]
    BY <1>5, <1>8
  <2>3. Stored(cache)
    <3> SUFFICES ASSUME NEW r \in w.live, NEW pos \in 0 .. w.fed[r] - 1
                 PROVE  cache[BlockAt(w.blocks[r], pos)][pos % BlockSize] = Entry(r, pos)
      OBVIOUS
    <3>1. r \in v.live /\ w.blocks[r] = v.blocks[r] /\ w.fed[r] = v.fed[r]
      BY <2>1, StepOfRequest
    <3> QED
      BY <3>1 DEF Holds
  <2>4. attended' \in [Req -> Seq(Entries)] /\ sampled' \in [Req -> Entries]
    BY <1>4, <2>2
  <2>5. AttendsOwnHistory'
    BY <2>2 DEF AttendsOwnHistory
  <2>6. SampledFromLast'
    BY <1>1, <2>1 DEF SampledFromLast
  <2> HIDE DEF S, SM, C, Stored
  <2>7. slotMap' \in SM /\ cache' \in C /\ Stored(cache')
    BY <1>2, <2>2, <2>3
  <2> QED
    BY <1>1, <1>2, <2>1, <2>4, <2>5, <2>6, <2>7 DEF KVTypeOK, BatchRows, Holds, Stored, SM, C
<1>9. CASE b # << >>
  <2>0. PICK width \in SeqBuckets, ctx \in 0 .. MaxModelLen - 1 :
          /\ Len(b) <= width
          /\ \A r \in ToSet(b) : IsDecode(so, b) => so.computed[r] <= ctx
          /\ slotMap' = SlotMapAfter(so, b, width)
          /\ cache' = CacheAfter(so, b, width)
          /\ attended' =
               [r \in Req |->
                  IF r \in ToSet(b) /\ IsDecode(so, b)
                  THEN Attended(cache', TrimmedRow(row'[r], CtxBlocks(ctx)), so.computed[r])
                  ELSE << >>]
          /\ sampled' =
               [r \in Req |->
                  IF r \notin ToSet(b) THEN Garbage
                  ELSE LET p == CHOOSE p \in DOMAIN b : b[p] = r
                           t == Tokens(so, b)[LogitsIndex(so, b, p)]
                       IN  IF t.real THEN Entry(t.req, t.pos) ELSE Garbage]
    BY <1>5, <1>9
  <2>1. /\ Len(b) <= width
        /\ \A r \in S : IsDecode(so, b) => so.computed[r] <= ctx
        /\ slotMap' = SlotMapAfter(so, b, width)
        /\ cache' = CacheAfter(so, b, width)
        /\ attended' =
             [r \in Req |->
                IF r \in S /\ IsDecode(so, b)
                THEN Attended(cache', TrimmedRow(row'[r], CtxBlocks(ctx)), so.computed[r])
                ELSE << >>]
        /\ sampled' =
             [r \in Req |->
                IF r \notin S THEN Garbage
                ELSE LET p == CHOOSE p \in DOMAIN b : b[p] = r
                         t == Tokens(so, b)[LogitsIndex(so, b, p)]
                     IN  IF t.real THEN Entry(t.req, t.pos) ELSE Garbage]
    BY <1>7, <2>0
  <2>2. /\ slotMap' \in SM /\ cache' \in C /\ Stored(cache')
        /\ \A p \in 1 .. Len(b) :
             Tokens(so, b)[LogitsIndex(so, b, p)]
               = Token(b[p], so.computed[b[p]] + so.toks[b[p]] - 1, TRUE)
        /\ IsDecode(so, b) => DecodeOf(v, so)
    <3> HIDE DEF Holds
    <3>1. /\ SlotMapAfter(so, b, width) \in SM
          /\ CacheAfter(so, b, width) \in C
          /\ Stored(CacheAfter(so, b, width))
          /\ \A p \in 1 .. Len(b) :
               Tokens(so, b)[LogitsIndex(so, b, p)]
                 = Token(b[p], so.computed[b[p]] + so.toks[b[p]] - 1, TRUE)
          /\ IsDecode(so, b) => DecodeOf(v, so)
      <4>1. /\ \A r \in S : RowAfter(so, r) = w.blocks[r]
            /\ Arrangement(b, S) /\ Len(b) <= width
        BY <1>1, <1>5, <2>1
      <4> QED
        BY <4>1, ModelOutcome
    <3> HIDE DEF S, SM, C, Stored
    <3> QED
      BY <2>1, <3>1
  <2>3. ASSUME NEW r \in S
        PROVE  sampled'[r] = Entry(r, w.fed[r] - 1)
    <3> DEFINE p == CHOOSE p \in DOMAIN b : b[p] = r
               t == Tokens(so, b)[LogitsIndex(so, b, p)]
    <3>1. p \in 1 .. Len(b) /\ b[p] = r
      BY <1>6
    <3>2. sampled'[r] = IF t.real THEN Entry(t.req, t.pos) ELSE Garbage
      BY <1>2, <2>1
    <3> HIDE DEF p
    <3>3. t = Token(r, so.computed[r] + so.toks[r] - 1, TRUE)
      BY <2>2, <3>1
    <3>4. so.computed[r] + so.toks[r] - 1 = w.fed[r] - 1
      BY <1>3
    <3> QED
      BY <3>2, <3>3, <3>4 DEF Token
  <2>4. ASSUME NEW r \in Req
        PROVE  attended'[r] \in {<< >>, History(r, w.fed[r])}
    <3>1. CASE r \in S /\ IsDecode(so, b)
      <4>1. attended'[r] = Attended(cache', TrimmedRow(w.blocks[r], CtxBlocks(ctx)), so.computed[r])
        BY <1>1, <2>1, <3>1
      <4>2. DecodeOf(v, so) /\ so.computed[r] <= ctx
        BY <2>1, <2>2, <3>1
      <4>3. Stored(cache')
        BY <2>2
      <4>4. Attended(cache', TrimmedRow(w.blocks[r], CtxBlocks(ctx)), so.computed[r])
              = History(r, w.fed[r])
        BY <3>1, <4>2, <4>3, DecodeAttends
      <4> QED
        BY <4>1, <4>4
    <3>2. CASE ~(r \in S /\ IsDecode(so, b))
      BY <2>1, <3>2
    <3> QED
      BY <3>1, <3>2
  <2>5. attended' \in [Req -> Seq(Entries)]
    <3>1. \A r \in Req : attended'[r] \in Seq(Entries)
      <4> DEFINE SE == Seq(Entries)
      <4>1. \A r \in Req : History(r, w.fed[r]) \in SE /\ << >> \in SE
        BY <1>2, <1>4, HistoryTypes
      <4> HIDE DEF SE
      <4>2. \A r \in Req : attended'[r] \in SE
        BY <2>4, <4>1
      <4> QED
        BY <4>2 DEF SE
    <3>2. attended' = [r \in Req |-> attended'[r]]
      BY <2>1
    <3> QED
      BY <3>1, <3>2
  <2>6. sampled' \in [Req -> Entries]
    <3>1. ASSUME NEW r \in Req PROVE sampled'[r] \in Entries
      <4>1. CASE r \in S
        <5>1. sampled'[r] = Entry(r, w.fed[r] - 1) /\ w.fed[r] - 1 \in 0 .. MaxModelLen - 1
          BY <1>2, <1>3, <2>3, <4>1
        <5> QED
          BY <5>1 DEF Entry, Entries
      <4>2. CASE r \notin S
        BY <1>4, <2>1, <4>2
      <4> QED
        BY <4>1, <4>2
    <3>2. sampled' = [r \in Req |-> sampled'[r]]
      BY <2>1
    <3> QED
      BY <3>1, <3>2
  <2>7. AttendsOwnHistory'
    BY <1>1, <2>4 DEF AttendsOwnHistory
  <2>8. SampledFromLast'
    BY <1>1, <2>3 DEF SampledFromLast
  <2> HIDE DEF S, SM, C, Stored
  <2>9. BatchRows' /\ Holds(w)'
    BY <1>1, <2>2 DEF BatchRows, Holds, Stored
  <2> QED
    BY <1>1, <1>2, <2>2, <2>5, <2>6, <2>7, <2>8, <2>9 DEF KVTypeOK, SM, C
<1> QED
  BY <1>8, <1>9

-----------------------------------------------------------------------------
(* The invariant holds from the start and is kept by every step. *)

LEMMA InitiallyPlanned == ServingInit => KVInv
<1> SUFFICES ASSUME ServingInit PROVE KVInv
  OBVIOUS
<1>1. /\ NumBlocks \in Nat /\ BlockSize \in Nat \ {0} /\ MaxModelLen \in Nat \ {0} /\ MaxTokens \in Nat
      /\ PromptLen \in [Req -> 1 .. MaxModelLen] /\ QueueDepth \in Nat
  BY KVSizeAssumption, KVReqAssumption, KVServingAssumption
<1>2. NullSlot \in 0 .. (NumBlocks + 1) * BlockSize - 1
  <2>1. /\ 0 * BlockSize + BlockSize <= (NumBlocks + 1) * BlockSize
        /\ (NumBlocks + 1) * BlockSize \in Nat
    BY <1>1, Products
  <2> QED
    BY <1>1, <2>1 DEF NullSlot
<1>3. Garbage \in Entries
  BY <1>1 DEF Garbage, Entry, Entries
<1>4. KVTypeOK
  BY <1>1, <1>2, <1>3 DEF ServingInit, Init, KVTypeOK
<1>5. ServingTypeOK
  BY <1>1, <1>4 DEF ServingInit, ServingTypeOK
<1>6. AttendsOwnHistory /\ SampledFromLast /\ BatchRows
  BY DEF ServingInit, Init, AttendsOwnHistory, SampledFromLast, BatchRows, ToSet
<1>7. Running = {}
  BY DEF ServingInit, Running
<1>8. Bookkeeping
  BY <1>1, <1>7 DEF ServingInit, Bookkeeping, Private
<1>9. Planned
  <2> DEFINE v == [live |-> {}, blocks |-> blockIds, fed |-> fed]
             views == [k \in 1 .. 1 |-> v]
  <2>1. queue = << >> /\ Len(queue) = 0 /\ queue \in Seq(SchedulerOutput)
    BY DEF ServingInit
  <2>2. v \in Views
    BY <1>4 DEF KVTypeOK, Views
  <2>3. Sound(v)
    BY DEF Sound, Private
  <2>4. views \in [1 .. Len(queue) + 1 -> Views] /\ views[1] = v /\ views[Len(queue) + 1] = v
    BY <2>1, <2>2
  <2>5. Plan(views)
    <3>1. \A k \in 1 .. Len(queue) + 1 : Sound(views[k])
      BY <2>1, <2>3
    <3> HIDE DEF views
    <3> QED
      BY <2>1, <2>4, <3>1 DEF Plan
  <2>6. Believed(v)
    BY <1>7 DEF Believed, ServingInit, Init
  <2>7. Kept(views)
    BY <1>7 DEF Kept
  <2>8. Holds(v)
    BY DEF Holds
  <2> HIDE DEF views, v
  <2> QED
    BY <2>4, <2>5, <2>6, <2>7, <2>8 DEF Planned
<1>10. queue \in Seq(SchedulerOutput)
  BY DEF ServingInit
<1> QED
  BY <1>5, <1>6, <1>8, <1>9, <1>10 DEF KVInv

(* An executed output leaves the plan, and its view is the first no more.  *)
LEMMA ExecuteStep == KVInv /\ Execute => KVInv'
<1> SUFFICES ASSUME KVInv, Execute PROVE KVInv'
  OBVIOUS
<1> DEFINE n == Len(queue)
<1>1. PICK views : /\ Plan(views) /\ Believed(views[n + 1]) /\ Kept(views) /\ Holds(views[1])
  BY DEF KVInv, Planned
<1>2. /\ queue \in Seq(SchedulerOutput) /\ queue # << >>
      /\ ServingTypeOK /\ KVTypeOK /\ BatchRows /\ Bookkeeping /\ QueueDepth \in Nat
  BY KVServingAssumption DEF KVInv, ServingTypeOK, Execute
<1>3. /\ queue' = Tail(queue) /\ ExecuteModel(Head(queue))
      /\ UNCHANGED <<status, done, total, alloc, finished>>
  BY DEF Execute
<1>4. /\ n \in Nat /\ n >= 1 /\ Head(queue) = queue[1] /\ queue[1] \in SchedulerOutput
      /\ queue' \in Seq(SchedulerOutput) /\ Len(queue') = n - 1
      /\ \A k \in 1 .. n - 1 : queue'[k] = queue[k + 1]
  <2> DEFINE SO == SchedulerOutput
  <2>1. queue \in Seq(SO) /\ queue # << >>
    BY <1>2
  <2> HIDE DEF SO
  <2>2. /\ Head(queue) = queue[1] /\ Head(queue) \in SO
        /\ Tail(queue) \in Seq(SO) /\ Len(Tail(queue)) = Len(queue) - 1
        /\ \A i \in 1 .. Len(Tail(queue)) : Tail(queue)[i] = queue[i + 1]
    BY <2>1, HeadTailProperties
  <2>3. n \in Nat /\ n >= 1
    BY <2>1
  <2> QED
    BY <1>3, <2>2, <2>3 DEF SO
<1> DEFINE so == queue[1]
           v == views[1]
           w == views[2]
<1>5. /\ v \in Views /\ w \in Views /\ v.blocks = blockIds /\ v.fed = fed
      /\ Sound(v) /\ Sound(w) /\ Fits(v, so) /\ Follows(v, so, w) /\ Holds(v)
  <2>1. 1 \in 1 .. n + 1 /\ 2 \in 1 .. n + 1 /\ 1 \in 1 .. n /\ 1 + 1 = 2
    BY <1>4
  <2> QED
    BY <1>1, <2>1 DEF Plan
<1> HIDE DEF n, v, w, so
<1>6. /\ KVTypeOK' /\ AttendsOwnHistory' /\ SampledFromLast' /\ BatchRows'
      /\ w.blocks = blockIds' /\ w.fed = fed' /\ Holds(w)'
  <2>1. so \in SchedulerOutput /\ ExecuteModel(so)
    BY <1>3, <1>4 DEF so
  <2> QED
    BY <1>2, <1>5, <2>1, ExecuteOutcome
<1>7. ServingTypeOK'
  <2>1. Len(queue') <= QueueDepth
    BY <1>2, <1>4 DEF ServingTypeOK, n
  <2> QED
    BY <1>2, <1>3, <1>6, <2>1 DEF ServingTypeOK
<1>8. Running' = Running /\ Bookkeeping'
  BY <1>2, <1>3 DEF Bookkeeping, Running
<1>9. Planned'
  <2>0. PICK later : later = [k \in 1 .. n |-> views[k + 1]]
    OBVIOUS
  <2>1. /\ Len(queue') + 1 = n /\ Len(queue') = n - 1
        /\ later[1] = w /\ later[n] = views[n + 1]
    BY <1>4, <2>0 DEF w
  <2>2. \A k \in 1 .. n : k + 1 \in 1 .. n + 1 /\ later[k] = views[k + 1]
    BY <1>4, <2>0
  <2>3. \A k \in 1 .. n - 1 : /\ k \in 1 .. n /\ k + 1 \in 1 .. n
                              /\ queue'[k] = queue[k + 1]
                              /\ later[k] = views[k + 1] /\ later[k + 1] = views[k + 1 + 1]
    BY <1>4, <2>0
  <2>4. later \in [1 .. n -> Views]
    BY <1>1, <2>0, <2>2 DEF Plan, n
  <2>5. Plan(later)'
    <3>1. \A k \in 1 .. n : Sound(later[k])
      BY <1>1, <2>2 DEF Plan, n
    <3>2. \A k \in 1 .. n - 1 :
            Fits(later[k], queue'[k]) /\ Follows(later[k], queue'[k], later[k + 1])
      BY <1>1, <2>3 DEF Plan, n
    <3> QED
      BY <1>6, <2>1, <2>4, <3>1, <3>2 DEF Plan
  <2>6. Believed(later[Len(queue) + 1])'
    BY <1>1, <1>3, <1>8, <2>1 DEF Believed
  <2>7. Kept(later)'
    <3> SUFFICES ASSUME NEW r \in Running, NEW k \in 1 .. n,
                        \A j \in k .. n - 1 : r \notin Entering(queue'[j])
                 PROVE  r \in later[k].live /\ Prefix(later[k].blocks[r], alloc[r])
      BY <1>3, <1>8, <2>1 DEF Kept
    <3>1. ASSUME NEW i \in k + 1 .. n PROVE r \notin Entering(queue[i])
      <4>1. i - 1 \in k .. n - 1 /\ i - 1 \in 1 .. n - 1 /\ i - 1 + 1 = i
        BY <1>4
      <4> QED
        BY <1>4, <4>1
    <3>2. k + 1 \in 1 .. n + 1
      BY <1>4
    <3>3. r \in views[k + 1].live /\ Prefix(views[k + 1].blocks[r], alloc[r])
      BY <1>1, <3>1, <3>2 DEF Kept, n
    <3> QED
      BY <2>2, <3>3
  <2> QED
    BY <1>6, <2>1, <2>5, <2>6, <2>7 DEF Planned
<1> QED
  BY <1>4, <1>6, <1>7, <1>8, <1>9 DEF KVInv

(* A request that finishes leaves what is queued as it was.                *)
LEMMA FinishStep == ASSUME NEW r \in Req, KVInv, Finish(r) PROVE KVInv'
<1> DEFINE n == Len(queue)
<1>1. PICK views : /\ Plan(views) /\ Believed(views[n + 1]) /\ Kept(views) /\ Holds(views[1])
  BY DEF KVInv, Planned
<1>2. /\ status[r] \in {"running", "preempted"}
      /\ status' = [status EXCEPT ![r] = "gone"] /\ alloc' = [alloc EXCEPT ![r] = << >>]
      /\ finished' = finished \cup {r}
      /\ UNCHANGED <<batch, blockIds, row, fed, slotMap, cache, attended, sampled>>
      /\ UNCHANGED <<done, total, queue>>
  BY DEF Finish, runnerVars
<1>3. ServingTypeOK /\ KVTypeOK /\ Bookkeeping /\ queue \in Seq(SchedulerOutput)
  BY DEF KVInv, ServingTypeOK
<1>4. KVTypeOK' /\ AttendsOwnHistory' /\ SampledFromLast' /\ BatchRows'
  BY <1>2, <1>3 DEF KVInv, KVTypeOK, AttendsOwnHistory, SampledFromLast, BatchRows
<1>5. ServingTypeOK'
  <2>1. << >> \in Seq(Blocks)
    OBVIOUS
  <2> QED
    BY <1>2, <1>3, <1>4, <2>1 DEF ServingTypeOK
<1>6. /\ status'[r] = "gone" /\ \A q \in Req \ {r} : status'[q] = status[q]
      /\ alloc'[r] = << >> /\ \A q \in Req \ {r} : alloc'[q] = alloc[q]
  BY <1>2, <1>3 DEF ServingTypeOK
<1>7. Running' = Running \ {r} /\ r \notin Running'
  BY <1>6 DEF Running
<1>8. Bookkeeping'
  <2>1. Private(alloc', Req)
    <3>1. Private(alloc, Req)
      BY <1>3 DEF Bookkeeping
    <3> QED
      BY <1>6, <3>1 DEF Private
  <2>2. \A q \in Running' : /\ done'[q] = total'[q] - 1 /\ PromptLen[q] <= done'[q]
                            /\ done'[q] <= Len(alloc'[q]) * BlockSize
    BY <1>2, <1>3, <1>6, <1>7 DEF Bookkeeping, Running
  <2>3. \A q \in Req \ Running' : alloc'[q] = << >>
    BY <1>3, <1>6, <1>7 DEF Bookkeeping
  <2>4. \A q \in finished' : status'[q] = "gone"
    BY <1>2, <1>3, <1>6 DEF Bookkeeping, ServingTypeOK
  <2>5. \A q \in Req : PromptLen[q] <= total'[q]
    BY <1>2, <1>3 DEF Bookkeeping
  <2> QED
    BY <2>1, <2>2, <2>3, <2>4, <2>5 DEF Bookkeeping
<1>9. Planned'
  <2>1. Plan(views)'
    BY <1>1, <1>2 DEF Plan
  <2>2. Believed(views[n + 1])'
    <3>1. \A q \in Running' : q \in Running /\ q # r /\ q \in Req
      BY <1>7 DEF Running
    <3> QED
      BY <1>1, <1>2, <1>6, <3>1 DEF Believed
  <2>3. Kept(views)'
    <3>1. \A q \in Running' : q \in Running /\ alloc'[q] = alloc[q]
      BY <1>6, <1>7 DEF Running
    <3> QED
      BY <1>1, <1>2, <3>1 DEF Kept
  <2>4. Holds(views[1])'
    BY <1>1, <1>2 DEF Holds
  <2>5. views[n + 1]' = views[n + 1] /\ Len(queue') = n
    BY <1>2
  <2> QED
    BY <1>2, <2>1, <2>2, <2>3, <2>4 DEF Planned
<1> QED
  BY <1>2, <1>3, <1>4, <1>5, <1>8, <1>9 DEF KVInv

LEMMA LastView ==
  ASSUME queue \in Seq(SchedulerOutput), NEW views, Plan(views)
  PROVE  /\ Len(queue) \in Nat /\ Len(queue) + 1 \in 1 .. Len(queue) + 1
         /\ views[Len(queue) + 1] \in Views
<1>1. Len(queue) \in Nat
  OBVIOUS
<1> QED
  BY <1>1 DEF Plan

LEMMA PrefixOfPrefix ==
  ASSUME NEW s \in Seq(Blocks), NEW t \in Seq(Blocks), NEW u \in Seq(Blocks),
         Prefix(s, t), Prefix(t, u)
  PROVE  Prefix(s, u)
<1>1. Len(s) \in Nat /\ Len(t) \in Nat /\ Len(u) \in Nat
  OBVIOUS
<1>2. Len(s) <= Len(u)
  BY <1>1 DEF Prefix
<1>3. \A i \in 1 .. Len(s) : i \in 1 .. Len(t)
  BY <1>1 DEF Prefix
<1> QED
  BY <1>2, <1>3 DEF Prefix

(* Scheduling extends the plan by one view: what the scheduler believes    *)
(* after its output, with the requests it then runs as the live ones.      *)
LEMMA Enqueued ==
  ASSUME KVInv, ServingTypeOK', Bookkeeping', NEW so \in SchedulerOutput,
         NEW views, Plan(views), Kept(views), Holds(views[1]),
         NEW v, v = views[Len(queue) + 1],
         Fits(v, so), Scheduled(so) \subseteq Running',
         Running' \subseteq (v.live \cup Entering(so)) \ so.finished,
         \A q \in Running' : /\ BlocksAfter(v.blocks, so)[q] = alloc'[q]
                             /\ FedAfter(v.fed, so)[q] = done'[q],
         \A q \in Req : status'[q] = "waiting" => BlocksAfter(v.blocks, so)[q] = << >>,
         \A q \in Running' : q \notin Entering(so) => q \in Running /\ Prefix(alloc[q], alloc'[q]),
         queue' = Append(queue, so), UNCHANGED runnerVars
  PROVE  queue' \in Seq(SchedulerOutput) /\ Planned'
<1> DEFINE n == Len(queue)
<1>1. /\ queue \in Seq(SchedulerOutput) /\ n \in Nat /\ v \in Views
      /\ ServingTypeOK /\ MaxModelLen \in Nat
  BY LastView, KVSizeAssumption DEF KVInv
<1>2. /\ queue' \in Seq(SchedulerOutput) /\ Len(queue') = n + 1
      /\ \A k \in 1 .. n : queue'[k] = queue[k]
      /\ queue'[n + 1] = so
  <2> DEFINE SO == SchedulerOutput
  <2>1. queue \in Seq(SO) /\ so \in SO
    BY <1>1
  <2> HIDE DEF SO
  <2>2. /\ queue' \in Seq(SO) /\ Len(queue') = n + 1
        /\ \A k \in 1 .. n : queue'[k] = queue[k]
        /\ queue'[n + 1] = so
    BY <2>1, AppendProperties
  <2> QED
    BY <2>2 DEF SO
<1>3. /\ \A q \in Running' : q \in Req
      /\ Running' \in SUBSET Req
      /\ alloc' \in [Req -> Seq(Blocks)] /\ done' \in [Req -> 0 .. MaxModelLen]
      /\ alloc \in [Req -> Seq(Blocks)]
      /\ UNCHANGED <<blockIds, fed, cache>>
  BY <1>1 DEF Running, ServingTypeOK, runnerVars
<1>4. PICK w : w = [live |-> Running', blocks |-> BlocksAfter(v.blocks, so),
                    fed |-> FedAfter(v.fed, so)]
  OBVIOUS
<1>5. w \in Views
  <2>1. BlocksAfter(v.blocks, so) \in [Req -> Seq(Blocks)]
    <3> DEFINE SB == Seq(Blocks)
    <3>1. v.blocks \in [Req -> SB]
      BY <1>1 DEF Views
    <3>2. \A q \in Req : /\ v.blocks[q] \in SB /\ so.blocks[q] \in SB /\ << >> \in SB
                         /\ v.blocks[q] \o so.blocks[q] \in SB
      BY <3>1, OutputFields
    <3> HIDE DEF SB
    <3>3. BlocksAfter(v.blocks, so) \in [Req -> SB]
      BY <3>2 DEF BlocksAfter
    <3> QED
      BY <3>3 DEF SB
  <2>2. FedAfter(v.fed, so) \in [Req -> 0 .. MaxModelLen]
    <3>1. ASSUME NEW q \in Req PROVE FedAfter(v.fed, so)[q] \in 0 .. MaxModelLen
      <4>1. CASE q \in Scheduled(so)
        BY <1>3, <4>1
      <4>2. CASE q \notin Scheduled(so)
        BY <1>1, <4>2 DEF FedAfter, Views
      <4> QED
        BY <4>1, <4>2
    <3>2. FedAfter(v.fed, so) = [q \in Req |-> FedAfter(v.fed, so)[q]]
      BY DEF FedAfter
    <3> QED
      BY <3>1, <3>2
  <2> QED
    BY <1>3, <1>4, <2>1, <2>2 DEF Views
<1>6. /\ w.live = Running'
      /\ \A q \in Running' : w.blocks[q] = alloc'[q] /\ w.fed[q] = done'[q]
      /\ \A q \in Req : status'[q] = "waiting" => w.blocks[q] = << >>
  BY <1>4
<1>7. Sound(w)
  <2>1. Private(alloc', Req)
    BY DEF Bookkeeping
  <2>2. Private(w.blocks, w.live)
    BY <1>3, <1>6, <2>1 DEF Private
  <2>3. \A q \in Running' : done'[q] <= Len(alloc'[q]) * BlockSize
    BY DEF Bookkeeping
  <2>4. \A q \in w.live : w.fed[q] <= Len(w.blocks[q]) * BlockSize
    BY <1>6, <2>3
  <2> QED
    BY <2>2, <2>4 DEF Sound
<1>8. Follows(v, so, w)
  BY <1>4 DEF Follows
<1>9. PICK longer : longer = [k \in 1 .. n + 2 |-> IF k = n + 2 THEN w ELSE views[k]]
  OBVIOUS
<1>10. /\ \A k \in 1 .. n + 1 : k \in 1 .. n + 2 /\ longer[k] = views[k]
       /\ longer[n + 2] = w /\ n + 2 \in 1 .. n + 2
       /\ \A k \in 1 .. n + 2 : k = n + 2 \/ k \in 1 .. n + 1
       /\ Len(queue') + 1 = n + 2
       /\ 1 \in 1 .. n + 1
  BY <1>1, <1>2, <1>9
<1>11. Plan(longer)'
  <2>1. longer \in [1 .. n + 2 -> Views]
    <3>1. \A k \in 1 .. n + 1 : views[k] \in Views
      BY DEF Plan
    <3> QED
      BY <1>5, <1>9, <1>10, <3>1
  <2>2. longer[1].blocks = blockIds' /\ longer[1].fed = fed'
    BY <1>3, <1>10 DEF Plan
  <2>3. \A k \in 1 .. n + 2 : Sound(longer[k])
    BY <1>7, <1>10 DEF Plan
  <2>4. \A k \in 1 .. n + 1 :
          Fits(longer[k], queue'[k]) /\ Follows(longer[k], queue'[k], longer[k + 1])
    <3> TAKE k \in 1 .. n + 1
    <3>1. CASE k = n + 1
      <4>1. k + 1 = n + 2 /\ longer[k] = v
        BY <1>1, <1>10, <3>1
      <4> QED
        BY <1>2, <1>8, <1>10, <3>1, <4>1
    <3>2. CASE k # n + 1
      <4>1. k \in 1 .. n /\ k + 1 \in 1 .. n + 1
        BY <1>1, <3>2
      <4>2. Fits(views[k], queue[k]) /\ Follows(views[k], queue[k], views[k + 1])
        BY <4>1 DEF Plan
      <4> QED
        BY <1>2, <1>10, <4>1, <4>2
    <3> QED
      BY <3>1, <3>2
  <2> QED
    BY <1>2, <1>10, <2>1, <2>2, <2>3, <2>4 DEF Plan
<1>12. Believed(longer[Len(queue) + 1])'
  BY <1>6, <1>10 DEF Believed
<1>13. Kept(longer)'
  <2> SUFFICES ASSUME NEW q \in Running', NEW k \in 1 .. n + 2,
                      \A j \in k .. n + 1 : q \notin Entering(queue'[j])
               PROVE  q \in longer[k].live /\ Prefix(longer[k].blocks[q], alloc'[q])
    BY <1>2, <1>10 DEF Kept
  <2>1. CASE k = n + 2
    <3>1. Prefix(alloc'[q], alloc'[q])
      BY <1>3 DEF Prefix
    <3> QED
      BY <1>6, <1>10, <2>1, <3>1
  <2>2. CASE k \in 1 .. n + 1
    <3>1. q \notin Entering(so)
      BY <1>1, <1>2, <2>2
    <3>2. q \in Running /\ Prefix(alloc[q], alloc'[q])
      BY <3>1
    <3>3. \A j \in k .. n : q \notin Entering(queue[j])
      BY <1>1, <1>2, <2>2
    <3>4. q \in views[k].live /\ Prefix(views[k].blocks[q], alloc[q])
      BY <2>2, <3>2, <3>3 DEF Kept
    <3>5. views[k].blocks[q] \in Seq(Blocks)
      BY <1>3, <2>2 DEF Plan, Views
    <3>6. Prefix(views[k].blocks[q], alloc'[q])
      BY <1>3, <3>2, <3>4, <3>5, PrefixOfPrefix
    <3> QED
      BY <1>10, <2>2, <3>4, <3>6
  <2> QED
    BY <1>10, <2>1, <2>2
<1>14. Holds(longer[1])'
  <2>1. longer[1] = views[1] /\ cache' = cache
    BY <1>3, <1>10
  <2> SUFFICES ASSUME NEW r \in views[1].live, NEW pos \in 0 .. views[1].fed[r] - 1
               PROVE  cache[BlockAt(views[1].blocks[r], pos)][pos % BlockSize] = Entry(r, pos)
    BY <2>1 DEF Holds
  <2> QED
    BY DEF Holds
<1>15. Planned'
  BY <1>11, <1>12, <1>13, <1>14 DEF Planned
<1> QED
  BY <1>2, <1>15

(* What scheduling leaves alone.                                           *)
LEMMA RunnerKept ==
  ASSUME KVInv, UNCHANGED runnerVars
  PROVE  KVTypeOK' /\ AttendsOwnHistory' /\ SampledFromLast' /\ BatchRows'
BY DEF KVInv, ServingTypeOK, runnerVars, KVTypeOK, AttendsOwnHistory, SampledFromLast, BatchRows

(* As many blocks as there are tokens for, none twice.                     *)
LEMMA GivenBlocks ==
  ASSUME NEW c \in Nat, NEW F \in SUBSET Blocks, NEW given \in [1 .. c -> F],
         Cardinality(ToSet(given)) = Len(given)
  PROVE  /\ given \in Seq(Blocks) /\ Len(given) = c /\ DOMAIN given = 1 .. c
         /\ \A i \in 1 .. c : given[i] \in F
         /\ \A i, j \in 1 .. c : given[i] = given[j] => i = j
<1>1. given \in Seq(Blocks) /\ Len(given) = c /\ DOMAIN given = 1 .. c
  OBVIOUS
<1>2. IsFiniteSet(1 .. c) /\ Cardinality(1 .. c) = c
  BY FS_Interval
<1>3. given \in Surjection(1 .. c, ToSet(given))
  BY DEF Surjection, ToSet
<1>4. IsFiniteSet(ToSet(given)) /\ Cardinality(ToSet(given)) = Cardinality(1 .. c)
  BY <1>1, <1>2, <1>3, FS_Surjection
<1>5. given \in Injection(1 .. c, ToSet(given))
  BY <1>2, <1>3, <1>4, FS_SurjSameCardinalityImpliesInj
<1> QED
  BY <1>1, <1>5 DEF Injection, IsInjective

LEMMA PrefillStep == ASSUME NEW r \in Req, KVInv, SchedulePrefill(r) PROVE KVInv'
<1>1. PICK views : /\ Plan(views) /\ Believed(views[Len(queue) + 1])
                   /\ Kept(views) /\ Holds(views[1])
  BY DEF KVInv, Planned
<1>2. PICK v : v = views[Len(queue) + 1]
  OBVIOUS
<1>3. /\ ServingTypeOK /\ Bookkeeping /\ queue \in Seq(SchedulerOutput)
      /\ v \in Views /\ Believed(v)
  BY <1>1, <1>2, LastView DEF KVInv
<1>4. /\ BlockSize \in Nat \ {0} /\ MaxModelLen \in Nat \ {0} /\ MaxTokens \in Nat
      /\ PromptLen \in [Req -> 1 .. MaxModelLen] /\ QueueDepth \in Nat
      /\ Buckets \in SUBSET (2 .. MaxTokens) /\ \E k \in Buckets : MaxModelLen <= k
  BY KVSizeAssumption, KVReqAssumption, KVServingAssumption
<1>5. /\ status[r] \in {"waiting", "preempted"} /\ total[r] <= MaxModelLen
      /\ status' = [status EXCEPT ![r] = "running"]
      /\ done' = [done EXCEPT ![r] = total[r]]
      /\ total' = [total EXCEPT ![r] = @ + 1]
      /\ UNCHANGED runnerVars
  BY DEF SchedulePrefill
<1> DEFINE t == total[r]
           c == CeilDiv(t, BlockSize)
           bucket == BucketFor(t, Buckets)
<1>6. /\ t \in 1 .. MaxModelLen /\ PromptLen[r] <= t /\ r \notin Running /\ alloc[r] = << >>
      /\ r \notin finished
  <2>1. t \in 0 .. MaxModelLen + 1 /\ PromptLen[r] <= t /\ PromptLen[r] >= 1
    BY <1>3, <1>4 DEF Bookkeeping, ServingTypeOK
  <2>2. r \notin Running
    BY <1>5 DEF Running
  <2> QED
    BY <1>3, <1>4, <1>5, <2>1, <2>2 DEF Bookkeeping
<1>7. c \in Nat /\ t <= c * BlockSize
  <2>1. t \in Nat
    BY <1>4, <1>6
  <2> HIDE DEF t
  <2>2. c \in Nat
    BY <1>4, <2>1, CeilDivBound
  <2>3. CeilDiv(t, BlockSize) <= c
    BY <2>2
  <2> HIDE DEF c
  <2> QED
    BY <1>4, <2>1, <2>2, <2>3, CeilDivBound
<1>8. bucket \in 2 .. MaxTokens /\ t <= bucket
  <2>1. Buckets \in SUBSET Nat /\ t \in Nat /\ \E k \in Buckets : t <= k
    BY <1>4, <1>6
  <2> HIDE DEF t
  <2>2. bucket \in Buckets /\ t <= bucket
    BY <2>1, BucketHolds
  <2> QED
    BY <1>4, <2>2
<1> HIDE DEF c, bucket
<1>9. Lacking(r, total[r]) = c
  BY <1>6, <1>7 DEF Lacking, c
<1>10. PICK given \in [1 .. c -> Free({})] :
         /\ Cardinality(ToSet(given)) = Len(given)
         /\ Enqueue([finished |-> finished,
                     new |-> IF status[r] = "waiting" THEN {r} ELSE {},
                     resumed |-> IF status[r] = "preempted" THEN {r} ELSE {},
                     toks |-> [Nothing EXCEPT ![r] = t],
                     padded |-> [Nothing EXCEPT ![r] = bucket],
                     computed |-> Nothing,
                     blocks |-> [NoBlocks EXCEPT ![r] = given]])
         /\ alloc' = [alloc EXCEPT ![r] = given]
  BY <1>9 DEF SchedulePrefill, bucket
<1>11. PICK so : so = [finished |-> finished,
                       new |-> IF status[r] = "waiting" THEN {r} ELSE {},
                       resumed |-> IF status[r] = "preempted" THEN {r} ELSE {},
                       toks |-> [Nothing EXCEPT ![r] = t],
                       padded |-> [Nothing EXCEPT ![r] = bucket],
                       computed |-> Nothing,
                       blocks |-> [NoBlocks EXCEPT ![r] = given]]
  OBVIOUS
<1>12. Len(queue) < QueueDepth /\ queue' = Append(queue, so) /\ finished' = {}
  BY <1>10, <1>11 DEF Enqueue
<1>13. /\ given \in Seq(Blocks) /\ Len(given) = c /\ DOMAIN given = 1 .. c
       /\ \A i \in 1 .. c : given[i] \in Free({})
       /\ \A i, j \in 1 .. c : given[i] = given[j] => i = j
  <2>1. Free({}) \in SUBSET Blocks
    BY DEF Free
  <2> QED
    BY <1>7, <1>10, <2>1, GivenBlocks
<1>14. /\ so.toks[r] = t /\ so.padded[r] = bucket /\ so.computed[r] = 0 /\ so.blocks[r] = given
       /\ so.finished = finished /\ Entering(so) = {r}
       /\ r \in so.new => status[r] = "waiting"
       /\ so.new \subseteq {r}
       /\ \A q \in Req \ {r} : so.toks[q] = 0
  BY <1>5, <1>11 DEF Nothing, NoBlocks, Entering
<1>15. so \in SchedulerOutput
  <2>1. finished \in SUBSET Req
    BY <1>3 DEF ServingTypeOK
  <2>2. /\ [Nothing EXCEPT ![r] = t] \in [Req -> 0 .. MaxModelLen]
        /\ [Nothing EXCEPT ![r] = bucket] \in [Req -> 0 .. MaxTokens]
        /\ Nothing \in [Req -> 0 .. MaxModelLen]
    <3>1. 0 \in 0 .. MaxModelLen /\ t \in 0 .. MaxModelLen
          /\ 0 \in 0 .. MaxTokens /\ bucket \in 0 .. MaxTokens
      BY <1>4, <1>6, <1>8
    <3> HIDE DEF t
    <3> QED
      BY <3>1 DEF Nothing
  <2>3. [NoBlocks EXCEPT ![r] = given] \in [Req -> Seq(Blocks)]
    <3> DEFINE SB == Seq(Blocks)
    <3>1. << >> \in SB /\ given \in SB
      BY <1>13
    <3> HIDE DEF SB
    <3>2. [NoBlocks EXCEPT ![r] = given] \in [Req -> SB]
      BY <3>1 DEF NoBlocks
    <3> QED
      BY <3>2 DEF SB
  <2> QED
    BY <1>11, <2>1, <2>2, <2>3 DEF SchedulerOutput
<1>16. Scheduled(so) = {r}
  BY <1>6, <1>14 DEF Scheduled
<1>17. /\ status'[r] = "running" /\ \A q \in Req \ {r} : status'[q] = status[q]
       /\ done'[r] = t /\ \A q \in Req \ {r} : done'[q] = done[q]
       /\ total'[r] = t + 1 /\ \A q \in Req \ {r} : total'[q] = total[q]
       /\ alloc'[r] = given /\ \A q \in Req \ {r} : alloc'[q] = alloc[q]
  BY <1>3, <1>5, <1>10 DEF ServingTypeOK
<1>18. Running' = Running \cup {r} /\ \A q \in Running : q \in Req \ {r}
  BY <1>6, <1>17 DEF Running
<1>19. KVTypeOK' /\ AttendsOwnHistory' /\ SampledFromLast' /\ BatchRows'
  BY <1>5, RunnerKept
<1>20. ServingTypeOK'
  <2>1. Len(queue') <= QueueDepth
    <3>1. Len(queue) \in Nat /\ Len(queue') = Len(queue) + 1
      BY <1>3, <1>12
    <3> QED
      BY <1>4, <1>12, <3>1
  <2>2. /\ status' \in [Req -> {"waiting", "running", "preempted", "gone"}]
        /\ done' \in [Req -> 0 .. MaxModelLen] /\ total' \in [Req -> 0 .. MaxModelLen + 1]
    BY <1>3, <1>4, <1>5, <1>6 DEF ServingTypeOK
  <2>3. alloc' \in [Req -> Seq(Blocks)]
    BY <1>3, <1>10, <1>13 DEF ServingTypeOK
  <2> QED
    BY <1>12, <1>19, <2>1, <2>2, <2>3 DEF ServingTypeOK
<1>21. Bookkeeping'
  <2>1. Private(alloc', Req)
    <3> SUFFICES ASSUME NEW p \in Req, NEW q \in Req, NEW i \in DOMAIN alloc'[p],
                        NEW j \in DOMAIN alloc'[q], alloc'[p][i] = alloc'[q][j]
                 PROVE  p = q /\ i = j
      BY DEF Private
    <3>1. \A x \in Req : \A k \in DOMAIN alloc[x] : alloc[x][k] \notin Free({})
      BY DEF Free, ToSet
    <3>2. CASE p = r /\ q = r
      BY <1>13, <1>17, <3>2
    <3>3. CASE p = r /\ q # r
      BY <1>13, <1>17, <3>1, <3>3
    <3>4. CASE p # r /\ q = r
      BY <1>13, <1>17, <3>1, <3>4
    <3>5. CASE p # r /\ q # r
      BY <1>3, <1>17, <3>5 DEF Bookkeeping, Private
    <3> QED
      BY <3>2, <3>3, <3>4, <3>5
  <2>2. \A q \in Req : PromptLen[q] <= total'[q]
    <3>1. PromptLen[r] <= t + 1
      BY <1>4, <1>6
    <3> QED
      BY <1>3, <1>17, <3>1 DEF Bookkeeping
  <2>3. \A q \in Running' : /\ done'[q] = total'[q] - 1 /\ PromptLen[q] <= done'[q]
                            /\ done'[q] <= Len(alloc'[q]) * BlockSize
    <3>1. t = t + 1 - 1
      BY <1>6
    <3>2. done'[r] = total'[r] - 1 /\ PromptLen[r] <= done'[r] /\ done'[r] <= Len(alloc'[r]) * BlockSize
      BY <1>6, <1>7, <1>13, <1>17, <3>1
    <3> QED
      BY <1>3, <1>17, <1>18, <3>2 DEF Bookkeeping
  <2>4. \A q \in Req \ Running' : alloc'[q] = << >>
    BY <1>3, <1>17, <1>18 DEF Bookkeeping
  <2>5. \A q \in finished' : status'[q] = "gone"
    BY <1>12
  <2> QED
    BY <2>1, <2>2, <2>3, <2>4, <2>5 DEF Bookkeeping
<1>22. Fits(v, so)
  <2>1. PrefillOf(so, r)
    BY <1>8, <1>14, <1>16 DEF PrefillOf
  <2>2. \A q \in so.new : v.blocks[q] = << >>
    BY <1>3, <1>14 DEF Believed
  <2> QED
    BY <2>1, <2>2 DEF Fits
<1>23. \A q \in Running : /\ q \in Req \ {r} /\ q \in v.live /\ q \notin finished
                          /\ v.blocks[q] = alloc[q] /\ v.fed[q] = done[q]
  BY <1>3, <1>18 DEF Believed, Bookkeeping, Running
<1>24. \A q \in Running' : /\ q \in (v.live \cup Entering(so)) \ so.finished
                           /\ BlocksAfter(v.blocks, so)[q] = alloc'[q]
                           /\ FedAfter(v.fed, so)[q] = done'[q]
  <2> TAKE q \in Running'
  <2>1. CASE q = r
    <3>1. 0 + t = t
      BY <1>6
    <3> QED
      BY <1>6, <1>14, <1>16, <1>17, <2>1, <3>1 DEF BlocksAfter, FedAfter
  <2>2. CASE q \in Running
    BY <1>14, <1>16, <1>17, <1>23, <2>2 DEF BlocksAfter, FedAfter
  <2> QED
    BY <1>18, <2>1, <2>2
<1>25. \A q \in Req : status'[q] = "waiting" => BlocksAfter(v.blocks, so)[q] = << >>
  <2> SUFFICES ASSUME NEW q \in Req, status'[q] = "waiting"
               PROVE  BlocksAfter(v.blocks, so)[q] = << >>
    OBVIOUS
  <2>1. q # r /\ status[q] = "waiting"
    BY <1>17
  <2> QED
    BY <1>3, <1>14, <1>16, <2>1 DEF BlocksAfter, Believed
<1>26. \A q \in Running' : q \notin Entering(so) => q \in Running /\ Prefix(alloc[q], alloc'[q])
  <2> SUFFICES ASSUME NEW q \in Running', q # r
               PROVE  q \in Running /\ Prefix(alloc[q], alloc'[q])
    BY <1>14
  <2>1. q \in Running /\ alloc'[q] = alloc[q] /\ alloc[q] \in Seq(Blocks)
    BY <1>3, <1>17, <1>18 DEF ServingTypeOK
  <2> QED
    BY <2>1 DEF Prefix
<1>27. queue' \in Seq(SchedulerOutput) /\ Planned'
  <2>1. Scheduled(so) \subseteq Running' /\ Running' \subseteq (v.live \cup Entering(so)) \ so.finished
    BY <1>16, <1>18, <1>24
  <2> QED
    BY <1>1, <1>2, <1>5, <1>12, <1>15, <1>20, <1>21, <1>22, <1>24, <1>25, <1>26, <2>1, Enqueued
<1> QED
  BY <1>19, <1>20, <1>21, <1>27 DEF KVInv

(* One more token needs at most one more block.                            *)
LEMMA NextTokenCovered ==
  ASSUME NEW n \in Nat, NEW L \in Nat, n <= L * BlockSize
  PROVE  /\ n + 1 <= (L + 1) * BlockSize
         /\ ~(CeilDiv(n + 1, BlockSize) - L > 0) => n + 1 <= L * BlockSize
<1>1. BlockSize \in Nat \ {0} /\ n + 1 \in Nat /\ L + 1 \in Nat
  BY KVSizeAssumption
<1>2. L * BlockSize + BlockSize <= (L + 1) * BlockSize
  BY <1>1, Products
<1>3. L * BlockSize \in Nat /\ (L + 1) * BlockSize \in Nat
  BY <1>1
<1> DEFINE m == n + 1
           c == CeilDiv(m, BlockSize)
<1>4. c \in Nat /\ (c <= L => m <= L * BlockSize)
  <2> HIDE DEF m
  <2> QED
    BY <1>1, CeilDivBound DEF m
<1>5. ~(c - L > 0) => c <= L
  <2> HIDE DEF c
  <2> QED
    BY <1>4
<1>6. n + 1 <= (L + 1) * BlockSize
  BY <1>1, <1>2, <1>3
<1> QED
  BY <1>4, <1>5, <1>6

(* The blocks a decode hands out, and who has which after it.              *)
GivenTo(need, pick) == [r \in Req |-> IF r \in need THEN << pick[r] >> ELSE << >>]
AllocAfter(P, given) == [r \in Req |-> IF r \in P THEN << >> ELSE alloc[r] \o given[r]]

LEMMA ConcatOne ==
  ASSUME NEW s \in Seq(Blocks), NEW x \in Blocks
  PROVE  /\ s \o << x >> \in Seq(Blocks) /\ Len(s) \in Nat
         /\ DOMAIN s = 1 .. Len(s)
         /\ Len(s \o << x >>) = Len(s) + 1
         /\ DOMAIN (s \o << x >>) = 1 .. Len(s) + 1
         /\ \A i \in 1 .. Len(s) + 1 : (s \o << x >>)[i] = IF i <= Len(s) THEN s[i] ELSE x
<1> DEFINE B == Blocks
           t == << x >>
<1>1. s \in Seq(B) /\ t \in Seq(B) /\ Len(t) = 1 /\ t[1] = x
  OBVIOUS
<1> HIDE DEF B, t
<1>2. /\ s \o t \in Seq(B) /\ Len(s \o t) = Len(s) + Len(t)
      /\ \A i \in 1 .. Len(s) + Len(t) : (s \o t)[i] = IF i <= Len(s) THEN s[i] ELSE t[i - Len(s)]
  BY <1>1, ConcatProperties
<1>3. Len(s) \in Nat /\ DOMAIN s = 1 .. Len(s) /\ DOMAIN (s \o t) = 1 .. Len(s \o t)
  BY <1>1, <1>2
<1>4. \A i \in 1 .. Len(s) + 1 : ~(i <= Len(s)) => i - Len(s) = 1
  BY <1>3
<1>5. \A i \in 1 .. Len(s) + 1 : (s \o t)[i] = IF i <= Len(s) THEN s[i] ELSE x
  BY <1>1, <1>2, <1>4
<1> QED
  BY <1>1, <1>2, <1>3, <1>5 DEF B, t

(* Blocks given out of the free ones stay private.                         *)
LEMMA StillPrivate ==
  ASSUME alloc \in [Req -> Seq(Blocks)], Private(alloc, Req),
         NEW P \in SUBSET Req, NEW need \in SUBSET Req, NEW pick \in [need -> Free(P)],
         \A r, q \in need : pick[r] = pick[q] => r = q
  PROVE  /\ AllocAfter(P, GivenTo(need, pick)) \in [Req -> Seq(Blocks)]
         /\ GivenTo(need, pick) \in [Req -> Seq(Blocks)]
         /\ \A r \in need \ P :
              Len(AllocAfter(P, GivenTo(need, pick))[r]) = Len(alloc[r]) + 1
         /\ \A r \in Req \ (need \cup P) : AllocAfter(P, GivenTo(need, pick))[r] = alloc[r]
         /\ Private(AllocAfter(P, GivenTo(need, pick)), Req)
<1> DEFINE given == GivenTo(need, pick)
           next == AllocAfter(P, given)
<1>0. /\ given = [r \in Req |-> IF r \in need THEN << pick[r] >> ELSE << >>]
      /\ next = [r \in Req |-> IF r \in P THEN << >> ELSE alloc[r] \o given[r]]
  BY DEF GivenTo, AllocAfter
<1> HIDE DEF given, next
<1>1. Free(P) \in SUBSET Blocks
  BY DEF Free
<1>2. \A r \in need : pick[r] \in Blocks /\ pick[r] \in Free(P)
  BY <1>1
<1>3. given \in [Req -> Seq(Blocks)]
  <2>1. \A r \in need : << pick[r] >> \in Seq(Blocks)
    BY <1>2
  <2>2. << >> \in Seq(Blocks)
    OBVIOUS
  <2> QED
    BY <1>0, <2>1, <2>2
<1>4. \A r \in need : given[r] = << pick[r] >> /\ Len(given[r]) = 1 /\ given[r][1] = pick[r]
  BY <1>0
<1>5. \A r \in Req \ need : given[r] = << >>
  BY <1>0
<1>6. \A r \in Req : alloc[r] \o given[r] \in Seq(Blocks)
  BY <1>3, ConcatProperties
<1>7. next \in [Req -> Seq(Blocks)]
  <2>1. << >> \in Seq(Blocks)
    OBVIOUS
  <2> QED
    BY <1>0, <1>6, <2>1
<1>8. ASSUME NEW r \in need, r \notin P
      PROVE  /\ Len(next[r]) = Len(alloc[r]) + 1 /\ Len(alloc[r]) \in Nat
             /\ DOMAIN next[r] = 1 .. Len(alloc[r]) + 1
             /\ \A i \in 1 .. Len(alloc[r]) + 1 :
                  next[r][i] = IF i <= Len(alloc[r]) THEN alloc[r][i] ELSE pick[r]
  <2>1. next[r] = alloc[r] \o << pick[r] >> /\ alloc[r] \in Seq(Blocks) /\ pick[r] \in Blocks
    BY <1>0, <1>2, <1>4, <1>8
  <2> QED
    BY <2>1, ConcatOne
<1>9. ASSUME NEW r \in Req, r \notin need, r \notin P
      PROVE  next[r] = alloc[r]
  <2>1. next[r] = alloc[r] \o << >> /\ alloc[r] \in Seq(Blocks)
    BY <1>0, <1>5, <1>9
  <2> QED
    BY <2>1, ConcatEmptySeq
(* A place in the new blocks is an old one or the one picked. *)
<1>10. ASSUME NEW r \in Req, NEW i \in DOMAIN next[r]
       PROVE  /\ r \notin P
              /\ \/ i \in DOMAIN alloc[r] /\ next[r][i] = alloc[r][i]
                 \/ r \in need /\ next[r][i] = pick[r] /\ i = Len(alloc[r]) + 1
  <2>1. r \notin P
    <3> SUFFICES ASSUME r \in P PROVE FALSE
      OBVIOUS
    <3>1. next[r] = << >>
      BY <1>0
    <3> QED
      BY <3>1
  <2>2. CASE r \in need
    <3>1. /\ Len(alloc[r]) \in Nat /\ i \in 1 .. Len(alloc[r]) + 1
          /\ next[r][i] = IF i <= Len(alloc[r]) THEN alloc[r][i] ELSE pick[r]
          /\ DOMAIN alloc[r] = 1 .. Len(alloc[r])
      BY <1>8, <2>1, <2>2
    <3> QED
      BY <2>2, <2>1, <3>1
  <2>3. CASE r \notin need
    BY <1>9, <2>1, <2>3
  <2> QED
    BY <2>1, <2>2, <2>3
<1>11. \A r \in Req \ P : \A i \in DOMAIN alloc[r] : alloc[r][i] \notin Free(P)
  BY DEF Free, ToSet
<1>12. \A r \in Req : \A q \in Req : \A i \in DOMAIN alloc[r] : \A j \in DOMAIN alloc[q] :
         alloc[r][i] = alloc[q][j] => r = q /\ i = j
  BY DEF Private
<1>13. Private(next, Req)
  <2> SUFFICES ASSUME NEW r \in Req, NEW q \in Req, NEW i \in DOMAIN next[r],
                      NEW j \in DOMAIN next[q], next[r][i] = next[q][j]
               PROVE  r = q /\ i = j
    BY DEF Private
  <2>1. /\ r \notin P
        /\ \/ i \in DOMAIN alloc[r] /\ next[r][i] = alloc[r][i]
           \/ r \in need /\ next[r][i] = pick[r] /\ i = Len(alloc[r]) + 1
    BY <1>10
  <2>2. /\ q \notin P
        /\ \/ j \in DOMAIN alloc[q] /\ next[q][j] = alloc[q][j]
           \/ q \in need /\ next[q][j] = pick[q] /\ j = Len(alloc[q]) + 1
    BY <1>10
  <2>3. CASE i \in DOMAIN alloc[r] /\ next[r][i] = alloc[r][i]
             /\ j \in DOMAIN alloc[q] /\ next[q][j] = alloc[q][j]
    <3>1. alloc[r][i] = alloc[q][j] /\ i \in DOMAIN alloc[r] /\ j \in DOMAIN alloc[q]
      BY <2>3
    <3> QED
      BY <1>12, <3>1
  <2>4. CASE i \in DOMAIN alloc[r] /\ next[r][i] = alloc[r][i]
             /\ q \in need /\ next[q][j] = pick[q]
    BY <1>2, <1>11, <2>1, <2>4
  <2>5. CASE r \in need /\ next[r][i] = pick[r]
             /\ j \in DOMAIN alloc[q] /\ next[q][j] = alloc[q][j]
    BY <1>2, <1>11, <2>2, <2>5
  <2>6. CASE r \in need /\ next[r][i] = pick[r] /\ i = Len(alloc[r]) + 1
             /\ q \in need /\ next[q][j] = pick[q] /\ j = Len(alloc[q]) + 1
    BY <2>6
  <2> QED
    BY <2>1, <2>2, <2>3, <2>4, <2>5, <2>6
<1> QED
  BY <1>3, <1>7, <1>8, <1>9, <1>13 DEF given, next

LEMMA DecodeStep == ASSUME NEW P \in SUBSET Req, KVInv, ScheduleDecode(P) PROVE KVInv'
<1>1. PICK views : /\ Plan(views) /\ Believed(views[Len(queue) + 1])
                   /\ Kept(views) /\ Holds(views[1])
  BY DEF KVInv, Planned
<1>2. PICK v : v = views[Len(queue) + 1]
  OBVIOUS
<1>3. /\ ServingTypeOK /\ Bookkeeping /\ queue \in Seq(SchedulerOutput)
      /\ v \in Views /\ Believed(v)
  BY <1>1, <1>2, LastView DEF KVInv
<1>4. /\ BlockSize \in Nat \ {0} /\ MaxModelLen \in Nat \ {0} /\ MaxTokens \in Nat
      /\ PromptLen \in [Req -> 1 .. MaxModelLen] /\ QueueDepth \in Nat
      /\ MaxTokens >= 2
  BY KVSizeAssumption, KVReqAssumption, KVServingAssumption
<1> DEFINE S == {r \in Req \ P : status[r] = "running" /\ total[r] <= MaxModelLen}
           one == [r \in Req |-> IF r \in S THEN 1 ELSE 0]
           need == {r \in S : Lacking(r, total[r]) > 0}
<1>5. S = {r \in Req \ P : status[r] = "running" /\ total[r] <= MaxModelLen}
  OBVIOUS
<1>6. one = [r \in Req |-> IF r \in S THEN 1 ELSE 0]
  OBVIOUS
<1>7. need = {r \in S : Lacking(r, total[r]) > 0}
  OBVIOUS
<1>8. /\ \A r \in P : status[r] = "running"
      /\ status' = [r \in Req |-> IF r \in P THEN "preempted" ELSE status[r]]
      /\ done' = [r \in Req |-> IF r \in P THEN 0 ELSE done[r] + one[r]]
      /\ total' = [r \in Req |-> total[r] + one[r]]
      /\ UNCHANGED runnerVars
  BY DEF ScheduleDecode
<1>9. PICK pick \in [need -> Free(P)] :
        LET given == [r \in Req |-> IF r \in need THEN << pick[r] >> ELSE << >>]
        IN  /\ \A r, q \in need : pick[r] = pick[q] => r = q
            /\ Enqueue([finished |-> finished, new |-> {}, resumed |-> {},
                        toks |-> one, padded |-> one,
                        computed |-> [r \in Req |-> IF r \in S THEN done[r] ELSE 0],
                        blocks |-> given])
            /\ alloc' = [r \in Req |-> IF r \in P THEN << >> ELSE alloc[r] \o given[r]]
  BY DEF ScheduleDecode
<1> HIDE DEF S, one, need
<1>10. PICK given : given = [r \in Req |-> IF r \in need THEN << pick[r] >> ELSE << >>]
  OBVIOUS
<1>11. PICK so : so = [finished |-> finished, new |-> {}, resumed |-> {},
                       toks |-> one, padded |-> one,
                       computed |-> [r \in Req |-> IF r \in S THEN done[r] ELSE 0],
                       blocks |-> given]
  OBVIOUS
<1>12. /\ Len(queue) < QueueDepth /\ queue' = Append(queue, so) /\ finished' = {}
       /\ alloc' = [r \in Req |-> IF r \in P THEN << >> ELSE alloc[r] \o given[r]]
  BY <1>9, <1>10, <1>11 DEF Enqueue
<1>13. /\ S \in SUBSET Req /\ need \in SUBSET S /\ S \subseteq Running \ P
       /\ \A r \in S : total[r] <= MaxModelLen
  BY <1>5, <1>7 DEF Running
<1>14. /\ alloc' \in [Req -> Seq(Blocks)] /\ given \in [Req -> Seq(Blocks)]
       /\ \A r \in need : Len(alloc'[r]) = Len(alloc[r]) + 1
       /\ \A r \in Req \ (need \cup P) : alloc'[r] = alloc[r]
       /\ Private(alloc', Req)
  <2>1. alloc \in [Req -> Seq(Blocks)] /\ Private(alloc, Req)
    BY <1>3 DEF ServingTypeOK, Bookkeeping
  <2>2. /\ need \in SUBSET Req /\ pick \in [need -> Free(P)]
        /\ \A r, q \in need : pick[r] = pick[q] => r = q
    BY <1>9, <1>13
  <2>3. given = GivenTo(need, pick) /\ alloc' = AllocAfter(P, given) /\ need \ P = need
    BY <1>10, <1>12, <1>13 DEF GivenTo, AllocAfter
  <2>4. /\ AllocAfter(P, GivenTo(need, pick)) \in [Req -> Seq(Blocks)]
        /\ GivenTo(need, pick) \in [Req -> Seq(Blocks)]
        /\ \A r \in need \ P :
             Len(AllocAfter(P, GivenTo(need, pick))[r]) = Len(alloc[r]) + 1
        /\ \A r \in Req \ (need \cup P) : AllocAfter(P, GivenTo(need, pick))[r] = alloc[r]
        /\ Private(AllocAfter(P, GivenTo(need, pick)), Req)
    BY <2>1, <2>2, StillPrivate
  <2> QED
    BY <2>3, <2>4
<1>15. \A r \in Running : /\ r \in Req /\ r \in v.live /\ v.blocks[r] = alloc[r] /\ v.fed[r] = done[r]
                          /\ r \notin finished
                          /\ done[r] \in 0 .. MaxModelLen /\ total[r] \in Nat
                          /\ done[r] = total[r] - 1 /\ PromptLen[r] <= done[r]
                          /\ done[r] <= Len(alloc[r]) * BlockSize /\ alloc[r] \in Seq(Blocks)
  <2> TAKE r \in Running
  <2>1. r \in Req /\ status[r] = "running"
    BY DEF Running
  <2>2. total[r] \in 0 .. MaxModelLen + 1 /\ done[r] \in 0 .. MaxModelLen /\ alloc[r] \in Seq(Blocks)
    BY <1>3, <2>1 DEF ServingTypeOK
  <2>3. total[r] \in Nat
    BY <1>4, <2>2
  <2>4. r \in v.live /\ v.blocks[r] = alloc[r] /\ v.fed[r] = done[r]
    BY <1>3 DEF Believed
  <2>5. /\ done[r] = total[r] - 1 /\ PromptLen[r] <= done[r]
        /\ done[r] <= Len(alloc[r]) * BlockSize /\ r \notin finished
    BY <1>3, <2>1 DEF Bookkeeping
  <2> QED
    BY <2>1, <2>2, <2>3, <2>4, <2>5
<1>16. \A r \in S : /\ one[r] = 1 /\ r \in Req /\ r \in Running /\ r \notin P
                    /\ done[r] < MaxModelLen /\ done[r] + 1 = total[r]
  <2> TAKE r \in S
  <2>1. one[r] = 1 /\ r \in Req /\ r \in Running /\ r \notin P /\ total[r] <= MaxModelLen
    BY <1>6, <1>13
  <2>2. done[r] \in Nat /\ total[r] \in Nat /\ done[r] = total[r] - 1
    BY <1>4, <1>15, <2>1
  <2> QED
    BY <1>4, <2>1, <2>2
<1>17. \A r \in Req \ S : one[r] = 0
  BY <1>6
<1>18. /\ so.finished = finished /\ so.new = {} /\ so.resumed = {} /\ Entering(so) = {}
       /\ so.toks = one /\ so.padded = one /\ so.blocks = given
       /\ \A r \in S : so.computed[r] = done[r]
  BY <1>11, <1>13 DEF Entering
<1>19. Scheduled(so) = S
  BY <1>13, <1>16, <1>17, <1>18 DEF Scheduled
<1>20. so \in SchedulerOutput
  <2>1. finished \in SUBSET Req
    BY <1>3 DEF ServingTypeOK
  <2>2. one \in [Req -> 0 .. MaxModelLen] /\ one \in [Req -> 0 .. MaxTokens]
    BY <1>4, <1>6
  <2>3. [r \in Req |-> IF r \in S THEN done[r] ELSE 0] \in [Req -> 0 .. MaxModelLen]
    BY <1>3, <1>4 DEF ServingTypeOK
  <2> QED
    BY <1>11, <1>14, <2>1, <2>2, <2>3 DEF SchedulerOutput
<1>21. /\ Running' = Running \ P
       /\ \A r \in Req \ P : status'[r] = status[r]
       /\ \A r \in P : r \in Running /\ status'[r] = "preempted" /\ alloc'[r] = << >>
  BY <1>8, <1>12 DEF Running
<1>22. KVTypeOK' /\ AttendsOwnHistory' /\ SampledFromLast' /\ BatchRows'
  BY <1>8, RunnerKept
<1>23. \A r \in S : done'[r] = done[r] + 1 /\ total'[r] = total[r] + 1
  BY <1>8, <1>16
<1>24. \A r \in Req \ (S \cup P) : done'[r] = done[r] /\ total'[r] = total[r]
  BY <1>3, <1>8, <1>17 DEF ServingTypeOK
<1>25. \A r \in P : r \in Req /\ r \notin S /\ done'[r] = 0 /\ total'[r] = total[r]
  BY <1>3, <1>8, <1>13, <1>17 DEF ServingTypeOK
<1>26. ServingTypeOK'
  <2>1. Len(queue') <= QueueDepth
    <3>1. Len(queue) \in Nat /\ Len(queue') = Len(queue) + 1
      BY <1>3, <1>12
    <3> QED
      BY <1>4, <1>12, <3>1
  <2>2. status' \in [Req -> {"waiting", "running", "preempted", "gone"}]
    BY <1>3, <1>8 DEF ServingTypeOK
  <2>3. ASSUME NEW r \in Req
        PROVE  done'[r] \in 0 .. MaxModelLen /\ total'[r] \in 0 .. MaxModelLen + 1
    <3>1. done[r] \in 0 .. MaxModelLen /\ total[r] \in 0 .. MaxModelLen + 1
      BY <1>3 DEF ServingTypeOK
    <3>2. CASE r \in S
      <4>1. done[r] + 1 \in 0 .. MaxModelLen /\ total[r] + 1 \in 0 .. MaxModelLen + 1
        BY <1>4, <1>13, <1>16, <3>1, <3>2
      <4> QED
        BY <1>23, <3>2, <4>1
    <3>3. CASE r \notin S
      BY <1>4, <1>24, <1>25, <3>1, <3>3
    <3> QED
      BY <3>2, <3>3
  <2>4. done' \in [Req -> 0 .. MaxModelLen] /\ total' \in [Req -> 0 .. MaxModelLen + 1]
    <3>1. done' = [r \in Req |-> done'[r]] /\ total' = [r \in Req |-> total'[r]]
      BY <1>8
    <3> QED
      BY <2>3, <3>1
  <2> QED
    BY <1>12, <1>14, <1>22, <2>1, <2>2, <2>4 DEF ServingTypeOK
<1>27. Bookkeeping'
  <2>1. \A r \in Req : PromptLen[r] <= total'[r]
    <3> TAKE r \in Req
    <3>1. PromptLen[r] <= total[r] /\ total[r] \in 0 .. MaxModelLen + 1
      BY <1>3 DEF Bookkeeping, ServingTypeOK
    <3>2. total'[r] = total[r] \/ total'[r] = total[r] + 1
      BY <1>23, <1>24, <1>25
    <3> QED
      BY <1>4, <3>1, <3>2
  <2>2. ASSUME NEW r \in Running'
        PROVE  /\ done'[r] = total'[r] - 1 /\ PromptLen[r] <= done'[r]
               /\ done'[r] <= Len(alloc'[r]) * BlockSize
    <3>1. r \in Running /\ r \notin P /\ r \in Req
      BY <1>15, <1>21
    <3>2. /\ done[r] \in Nat /\ total[r] \in Nat /\ done[r] = total[r] - 1
          /\ PromptLen[r] \in Nat /\ PromptLen[r] <= done[r]
          /\ done[r] <= Len(alloc[r]) * BlockSize /\ Len(alloc[r]) \in Nat
      BY <1>4, <1>15, <3>1
    <3>3. CASE r \in S
      <4>1. done'[r] = done[r] + 1 /\ total'[r] = total[r] + 1 /\ done[r] + 1 = total[r]
        BY <1>16, <1>23, <3>3
      <4>2. done'[r] = total'[r] - 1 /\ PromptLen[r] <= done'[r]
        BY <3>2, <4>1
      <4>3. /\ done[r] + 1 <= (Len(alloc[r]) + 1) * BlockSize
            /\ ~(CeilDiv(done[r] + 1, BlockSize) - Len(alloc[r]) > 0)
                 => done[r] + 1 <= Len(alloc[r]) * BlockSize
        BY <3>2, NextTokenCovered
      <4>4. CASE r \in need
        BY <1>14, <4>1, <4>2, <4>3, <4>4
      <4>5. CASE r \notin need
        <5>1. ~(CeilDiv(total[r], BlockSize) - Len(alloc[r]) > 0)
          BY <1>7, <3>3, <4>5 DEF Lacking
        <5>2. alloc'[r] = alloc[r]
          BY <1>14, <3>1, <4>5
        <5> QED
          BY <4>1, <4>2, <4>3, <5>1, <5>2
      <4> QED
        BY <4>4, <4>5
    <3>4. CASE r \notin S
      <4>1. done'[r] = done[r] /\ total'[r] = total[r] /\ alloc'[r] = alloc[r]
        BY <1>13, <1>14, <1>24, <3>1, <3>4
      <4> QED
        BY <3>2, <4>1
    <3> QED
      BY <3>3, <3>4
  <2>3. \A r \in Req \ Running' : alloc'[r] = << >>
    <3> TAKE r \in Req \ Running'
    <3>1. CASE r \in P
      BY <1>21, <3>1
    <3>2. CASE r \notin P
      <4>1. r \notin Running /\ r \notin need
        BY <1>13, <1>21, <3>2
      <4> QED
        BY <1>3, <1>14, <3>2, <4>1 DEF Bookkeeping
    <3> QED
      BY <3>1, <3>2
  <2> QED
    BY <1>12, <1>14, <2>1, <2>2, <2>3 DEF Bookkeeping
<1>28. Fits(v, so)
  <2>1. DecodeOf(v, so)
    <3>1. \A r \in S : /\ so.toks[r] = 1 /\ so.padded[r] = 1 /\ r \in v.live
                       /\ so.computed[r] = v.fed[r] /\ PromptLen[r] <= v.fed[r]
                       /\ v.fed[r] < MaxModelLen
      BY <1>15, <1>16, <1>18
    <3> QED
      BY <1>18, <1>19, <3>1 DEF DecodeOf
  <2> QED
    BY <1>18, <2>1 DEF Fits
<1>29. ASSUME NEW r \in Running'
       PROVE  /\ r \in Running /\ r \in (v.live \cup Entering(so)) \ so.finished
              /\ BlocksAfter(v.blocks, so)[r] = alloc'[r]
              /\ FedAfter(v.fed, so)[r] = done'[r]
              /\ Prefix(alloc[r], alloc'[r])
  <2>1. /\ r \in Running /\ r \notin P /\ r \in Req /\ r \in v.live /\ r \notin finished
        /\ v.blocks[r] = alloc[r] /\ v.fed[r] = done[r] /\ alloc[r] \in Seq(Blocks)
        /\ given[r] \in Seq(Blocks)
    BY <1>14, <1>15, <1>21
  <2>2. alloc'[r] = alloc[r] \o given[r]
    BY <1>12, <2>1
  <2>3. Prefix(alloc[r], alloc'[r])
    BY <2>1, <2>2, ConcatPrefix
  <2>4. CASE r \in S
    <3>1. BlocksAfter(v.blocks, so)[r] = alloc[r] \o given[r]
      BY <1>18, <1>19, <2>1, <2>4 DEF BlocksAfter
    <3>2. FedAfter(v.fed, so)[r] = done[r] + 1
      BY <1>16, <1>18, <1>19, <2>1, <2>4 DEF FedAfter
    <3> QED
      BY <1>18, <1>23, <2>1, <2>2, <2>3, <2>4, <3>1, <3>2
  <2>5. CASE r \notin S
    <3>1. alloc'[r] = alloc[r] /\ done'[r] = done[r]
      BY <1>13, <1>14, <1>24, <2>1, <2>5
    <3>2. BlocksAfter(v.blocks, so)[r] = alloc[r] /\ FedAfter(v.fed, so)[r] = done[r]
      BY <1>18, <1>19, <2>1, <2>5 DEF BlocksAfter, FedAfter
    <3> QED
      BY <1>18, <2>1, <2>3, <3>1, <3>2
  <2> QED
    BY <2>4, <2>5
<1>30. \A r \in Req : status'[r] = "waiting" => BlocksAfter(v.blocks, so)[r] = << >>
  <2> SUFFICES ASSUME NEW r \in Req, status'[r] = "waiting"
               PROVE  BlocksAfter(v.blocks, so)[r] = << >>
    OBVIOUS
  <2>1. status[r] = "waiting" /\ r \notin S
    BY <1>8, <1>13, <1>21 DEF Running
  <2>2. v.blocks[r] = << >>
    BY <1>3, <2>1 DEF Believed
  <2> QED
    BY <1>18, <1>19, <2>1, <2>2 DEF BlocksAfter
<1>31. queue' \in Seq(SchedulerOutput) /\ Planned'
  <2>1. Scheduled(so) \subseteq Running' /\ Running' \subseteq (v.live \cup Entering(so)) \ so.finished
    BY <1>13, <1>19, <1>21, <1>29
  <2>2. \A q \in Running' : /\ BlocksAfter(v.blocks, so)[q] = alloc'[q]
                            /\ FedAfter(v.fed, so)[q] = done'[q]
    BY <1>29
  <2>3. \A q \in Running' : q \notin Entering(so) => q \in Running /\ Prefix(alloc[q], alloc'[q])
    BY <1>29
  <2>4. queue' = Append(queue, so) /\ UNCHANGED runnerVars
    BY <1>8, <1>12
  <2> QED
    BY <1>1, <1>2, <1>20, <1>26, <1>27, <1>28, <1>30, <2>1, <2>2, <2>3, <2>4, Enqueued
<1> QED
  BY <1>22, <1>26, <1>27, <1>31 DEF KVInv

-----------------------------------------------------------------------------
(* The theorems. *)

LEMMA KVNext == KVInv /\ [ServingNext]_servingVars => KVInv'
<1> SUFFICES ASSUME KVInv, [ServingNext]_servingVars PROVE KVInv'
  OBVIOUS
<1>1. CASE \E r \in Req : Finish(r)
  BY <1>1, FinishStep
<1>2. CASE \E r \in Req : SchedulePrefill(r)
  BY <1>2, PrefillStep
<1>3. CASE \E P \in SUBSET Req : ScheduleDecode(P)
  BY <1>3, DecodeStep
<1>4. CASE Execute
  BY <1>4, ExecuteStep
<1>5. CASE UNCHANGED servingVars
  <2>1. /\ UNCHANGED runnerVars
        /\ UNCHANGED <<status, done, total, alloc, finished, queue, blockIds, fed, cache>>
    BY <1>5 DEF servingVars, schedulerVars, runnerVars
  <2>2. KVTypeOK' /\ AttendsOwnHistory' /\ SampledFromLast' /\ BatchRows'
    BY <2>1, RunnerKept
  <2>3. ServingTypeOK' /\ queue' \in Seq(SchedulerOutput)
    BY <2>1, <2>2 DEF KVInv, ServingTypeOK
  <2>4. Bookkeeping'
    BY <2>1 DEF KVInv, Bookkeeping, Running
  <2>5. Planned'
    <3>1. PICK views : /\ Plan(views) /\ Believed(views[Len(queue) + 1])
                       /\ Kept(views) /\ Holds(views[1])
      BY DEF KVInv, Planned
    <3>2. Plan(views)' /\ Believed(views[Len(queue) + 1])' /\ Kept(views)' /\ Holds(views[1])'
      BY <2>1, <3>1 DEF Plan, Believed, Kept, Holds, Running
    <3> QED
      BY <3>2 DEF Planned
  <2> QED
    BY <2>2, <2>3, <2>4, <2>5 DEF KVInv
<1> QED
  BY <1>1, <1>2, <1>3, <1>4, <1>5 DEF ServingNext

THEOREM KVPlanned == ServingSpec => []KVInv
<1>1. ServingInit => KVInv
  BY InitiallyPlanned
<1>2. KVInv /\ [ServingNext]_servingVars => KVInv'
  BY KVNext
<1> QED
  BY <1>1, <1>2, PTL DEF ServingSpec

(* The runner's and the scheduler's state keeps its types: block ids, slots*)
(* of the buffer and cached entries are in range after any legal calls.    *)
THEOREM KVTypes == ServingSpec => []ServingTypeOK
<1>1. KVInv => ServingTypeOK
  BY DEF KVInv
<1> QED
  BY <1>1, KVPlanned, PTL

(* Every decode attends to exactly the keys and values of its own request, *)
(* one for each position up to its own, whatever the batch was padded to,  *)
(* whoever held its blocks before, and wherever the context bucket cuts.   *)
THEOREM KVAttendsOwnHistory == ServingSpec => []AttendsOwnHistory
<1>1. KVInv => AttendsOwnHistory
  BY DEF KVInv
<1> QED
  BY <1>1, KVPlanned, PTL

(* A row's next token is sampled from its own last token, not from padding *)
(* and not from a neighbour's.                                             *)
THEOREM KVSampledFromLast == ServingSpec => []SampledFromLast
<1>1. KVInv => SampledFromLast
  BY DEF KVInv
<1> QED
  BY <1>1, KVPlanned, PTL

(* Every token fed for a running request is in the cache at the place its  *)
(* position has in the blocks the scheduler gave it, whatever other        *)
(* requests wrote or had written to blocks they have lost since.           *)
THEOREM KVStaysInPlace == ServingSpec => []KVInPlace
<1>1. KVInv => KVInPlace
  <2> SUFFICES ASSUME KVInv, NEW r \in Req, Settled(r), NEW pos \in 0 .. fed[r] - 1
               PROVE  cache[BlockAt(alloc[r], pos)][pos % BlockSize] = Entry(r, pos)
    BY DEF KVInPlace
  <2>1. PICK views : Plan(views) /\ Kept(views) /\ Holds(views[1])
    BY DEF KVInv, Planned
  <2>2. queue \in Seq(SchedulerOutput) /\ Len(queue) \in Nat /\ DOMAIN queue = 1 .. Len(queue)
    BY DEF KVInv
  <2>3. r \in Running /\ \A j \in 1 .. Len(queue) : r \notin Entering(queue[j])
    BY <2>2 DEF Settled, Running, Entering
  <2>4. 1 \in 1 .. Len(queue) + 1
    BY <2>2
  <2> DEFINE v == views[1]
  <2>5. r \in v.live /\ Prefix(v.blocks[r], alloc[r])
    BY <2>1, <2>3, <2>4 DEF Kept
  <2>6. v \in Views /\ Sound(v) /\ v.fed = fed
    BY <2>1, <2>4 DEF Plan
  <2>7. Holds(v)
    BY <2>1
  <2> HIDE DEF v
  <2>8. /\ v.blocks[r] \in Seq(Blocks) /\ alloc[r] \in Seq(Blocks)
        /\ v.fed[r] \in Nat /\ v.fed[r] = fed[r]
        /\ v.fed[r] <= Len(v.blocks[r]) * BlockSize
        /\ Len(v.blocks[r]) * BlockSize \in Nat
    BY <2>5, <2>6, KVSizeAssumption DEF Views, Sound, KVInv, ServingTypeOK
  <2>9. pos \in Nat /\ pos \in 0 .. v.fed[r] - 1 /\ pos < Len(v.blocks[r]) * BlockSize
    BY <2>8
  <2>10. BlockAt(alloc[r], pos) = BlockAt(v.blocks[r], pos)
    BY <2>5, <2>8, <2>9, PrefixKeepsPlaces
  <2>11. cache[BlockAt(v.blocks[r], pos)][pos % BlockSize] = Entry(r, pos)
    BY <2>5, <2>7, <2>9 DEF Holds
  <2> QED
    BY <2>10, <2>11
<1> QED
  BY <1>1, KVPlanned, PTL
=============================================================================
