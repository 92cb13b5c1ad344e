---------------------------- MODULE PrivateState ----------------------------
(***************************************************************************)
(* What the DeltaNet side-channel state promises to a request, with no     *)
(* slot, row, batch position or queue in it: every live request has a      *)
(* private recurrent history of its own, started by its prefill, extended  *)
(* one token at a time by its decodes, untouched by everything else, and   *)
(* gone when the request finishes or is preempted.                         *)
(*                                                                         *)
(* A history is the incarnation it belongs to (a request id may be         *)
(* resubmitted after an abort) and the number of its tokens folded in.     *)
(***************************************************************************)
EXTENDS Naturals

CONSTANTS
  Req,      \* request ids
  MaxGen,   \* bound: incarnations of one request id
  MaxLen    \* bound: tokens of one request

VARIABLE hist   \* request -> its recurrent history

NoHistory == [gen |-> 0, len |-> 0]
History == [gen : 1 .. MaxGen, len : 1 .. MaxLen]

Init == hist = [r \in Req |-> NoHistory]

(* The histories left when those of the requests in D are dropped. *)
Dropped(D) == [r \in Req |-> IF r \in D THEN NoHistory ELSE hist[r]]

(* Requests D leave and p starts afresh from its own tokens. *)
Prefill(D, p) ==
  \E h \in History : hist' = [Dropped(D) EXCEPT ![p] = h]

(* Requests D leave and each request of A appends one token. *)
Decode(D, A) ==
  /\ \A r \in A : Dropped(D)[r] # NoHistory
  /\ hist' = [r \in Req |-> IF r \in A THEN [hist[r] EXCEPT !.len = @ + 1]
                                       ELSE Dropped(D)[r]]

Next ==
  \E D \in SUBSET Req :
    \/ \E p \in Req : Prefill(D, p)
    \/ \E A \in SUBSET Req : Decode(D, A)

Spec == Init /\ [][Next]_hist
=============================================================================
