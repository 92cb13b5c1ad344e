---------------------------- MODULE AliasingPass ----------------------------
(***************************************************************************)
(* AliasingOutputRewritePass: makes a graph's in-place effects outputs.    *)
(*                                                                         *)
(* A compiled graph is a function: a tensor it mutates in place keeps its  *)
(* new content only if the content is an output that io_map gives back to  *)
(* the input's buffer.  The pass classifies the nodes of the traced graph, *)
(* makes every reader of a mutated placeholder read the latest write, and  *)
(* appends the missing outputs.                                            *)
(*                                                                         *)
(* A node is known by its position; the first NumInputs nodes are the      *)
(* placeholders.  Content is symbolic: what was computed from what.  The   *)
(* tracer (Dynamo), the pass that turns in-place nodes into functional     *)
(* ones, and the compiler are not in this repository: the tracer may emit  *)
(* any graph that Traced allows.                                           *)
(***************************************************************************)
EXTENDS Integers, Sequences, FiniteSets

CONSTANTS
  NumInputs,   \* placeholders
  MaxOps,      \* bound: operations of a graph
  MaxOf,       \* bound: operation -> how many of it
  MaxOutputs   \* bound: explicit outputs

ASSUME InputsAssumption == NumInputs \in Nat \ {0}

VARIABLES
  phase,     \* "trace", "analyze", "rewire", "surface", "done" or "error"
  traced,    \* the graph as traced: a sequence of nodes
  explicit,  \* its outputs
  graph,     \* the graph as rewritten
  outputs,   \* its outputs
  mutated,   \* mutated_inputs
  writes,    \* input -> the nodes in input_to_writes
  at,        \* the node the walk of _serialize_nki_write_aliases is at
  current,   \* rewirable input -> its latest write
  ioMap      \* output position -> input

vars == <<phase, traced, explicit, graph, outputs, mutated, writes, at, current, ioMap>>

Inputs == 1 .. NumInputs

(* pure reads its operand into a fresh tensor.  view, data and slice are   *)
(* aliases of theirs: of another shape, of the same shape (Tensor.data),   *)
(* of a part.  add_ (an in-place method) and setitem write their first     *)
(* operand from their second.  nki1 and nki2 are kernels that write all    *)
(* their operands: nki1's result is the tensor, nki2 returns a tuple that  *)
(* get1 and get2 take apart.  aten_ is add_ as a call_function, custom a   *)
(* custom op with a mutable argument, reshape what the pass itself adds.   *)
InPlace == {"add_", "setitem", "aten_"}
Kernels == {"nki1", "nki2"}
Gets == {"get1", "get2"}
Ops == {"placeholder", "pure", "view", "data", "slice", "custom", "reshape"}
         \cup InPlace \cup Kernels \cup Gets
ASSUME GraphBounds ==
  MaxOps \in Nat /\ MaxOutputs \in Nat /\ MaxOf \in [Ops -> Nat]

Shapes == {"full", "flat", "part"}
Nodes == [op : Ops, args : Seq(Nat), shape : Shapes]

Placeholder == [op |-> "placeholder", args |-> << >>, shape |-> "full"]

Init ==
  /\ phase = "trace"
  /\ traced = [i \in Inputs |-> Placeholder] /\ explicit = << >>
  /\ graph = << >> /\ outputs = << >>
  /\ mutated = {} /\ writes = [i \in Inputs |-> {}]
  /\ at = 0 /\ current = << >> /\ ioMap = << >>

-----------------------------------------------------------------------------
(* Detection. *)

(* Fault: Tensor.data is not known to be an alias. *)
IsAliasingNotData(node) == node.op \in {"view", "slice"}

(* _is_aliasing_op *)
IsAliasing(node) == node.op \in {"view", "slice", "data", "reshape"}

(* _is_torch_mutating_op *)
IsTorchMutating(node) == node.op \in InPlace

(* The node whose tensor node n of g is, or writes, or 0: the operand of   *)
(* _get_aliasing_source, _get_torch_op_mutated_tensor and the kernel       *)
(* operand of operand_output_aliases.                                      *)
SourceOf(g, n) ==
  LET node == g[n]
  IN  CASE IsAliasing(node) -> node.args[1]
        [] node.op \in {"add_", "setitem", "nki1"} -> node.args[1]
        [] node.op = "get1" -> g[node.args[1]].args[1]
        [] node.op = "get2" -> g[node.args[1]].args[2]
        [] OTHER -> 0

(* alias_chain and _find_root_input: the input a node derives from, or 0.  *)
Roots(g) ==
  LET root[n \in 0 .. Len(g)] ==
        IF n \in Inputs \cup {0} THEN n ELSE root[SourceOf(g, n)]
  IN  root

(* _shapes_match: setitem has no example_value. *)
ShapesMatch(a, b) == "setitem" \notin {a.op, b.op} /\ a.shape = b.shape

Users(g, n) == {m \in DOMAIN g : \E k \in DOMAIN g[m].args : g[m].args[k] = n}

(* mutated_inputs: what in-place ops and kernels write. *)
MutatedInputs(g) ==
  {i \in Inputs : \E n \in DOMAIN g :
     g[n].op \in {"add_", "setitem", "nki1"} \cup Gets /\ Roots(g)[n] = i}

(* input_to_writes: what resolves to the input, but views, and writes that *)
(* are further mutated.                                                    *)
WritesOf(g, i) ==
  {n \in DOMAIN g :
     /\ Roots(g)[n] = i /\ n \notin Inputs
     /\ ~IsAliasing(g[n])
     /\ ~ \E u \in Users(g, n) : IsTorchMutating(g[u])}

(* Only inputs whose every write has their shape. *)
Rewirable(g) ==
  {i \in Inputs : /\ WritesOf(g, i) # {}
                  /\ \A w \in WritesOf(g, i) : ShapesMatch(g[w], g[i])}

-----------------------------------------------------------------------------
(* The pass. *)

Analyze ==
  /\ phase = "analyze"
  /\ IF \E n \in DOMAIN graph : graph[n].op = "custom"
     THEN /\ phase' = "error"
          /\ UNCHANGED <<mutated, writes, at, current>>
     ELSE /\ phase' = IF Rewirable(graph) = {} THEN "surface" ELSE "rewire"
          /\ mutated' = MutatedInputs(graph)
          /\ writes' = [i \in Inputs |-> WritesOf(graph, i)]
          /\ current' = [i \in Rewirable(graph) |-> i]
          /\ at' = NumInputs + 1
  /\ UNCHANGED <<traced, explicit, graph, outputs, ioMap>>

Latest(n) == IF n \in DOMAIN current THEN current[n] ELSE n

(* The cursor after node n: n itself if it is a write. *)
Advanced(n) == [i \in DOMAIN current |-> IF n \in writes[i] THEN n ELSE current[i]]

(* Fault: the cursor moves before the operands are rewired. *)
RewireNodeAfterAdvancing ==
  /\ phase = "rewire" /\ at <= Len(graph)
  /\ LET Now(n) == IF n \in DOMAIN current THEN Advanced(at)[n] ELSE n
     IN  graph' = [graph EXCEPT ![at].args = [k \in DOMAIN @ |-> Now(@[k])]]
  /\ current' = Advanced(at)
  /\ at' = at + 1
  /\ UNCHANGED <<phase, traced, explicit, outputs, mutated, writes, ioMap>>

(* Fault: only later writers are rewired, not readers. *)
RewireNodeWriters ==
  /\ phase = "rewire" /\ at <= Len(graph)
  /\ graph' = IF graph[at].op \in Kernels
              THEN [graph EXCEPT ![at].args = [k \in DOMAIN @ |-> Latest(@[k])]] ELSE graph
  /\ current' = Advanced(at)
  /\ at' = at + 1
  /\ UNCHANGED <<phase, traced, explicit, outputs, mutated, writes, ioMap>>

(* One node of the walk of _serialize_nki_write_aliases. *)
RewireNode ==
  /\ phase = "rewire" /\ at <= Len(graph)
  /\ graph' = [graph EXCEPT ![at].args = [k \in DOMAIN @ |-> Latest(@[k])]]
  /\ current' = Advanced(at)
  /\ at' = at + 1
  /\ UNCHANGED <<phase, traced, explicit, outputs, mutated, writes, ioMap>>

(* The walk ends with the output node. *)
RewireOutput ==
  /\ phase = "rewire" /\ at = Len(graph) + 1
  /\ phase' = "surface"
  /\ outputs' = [p \in DOMAIN outputs |-> Latest(outputs[p])]
  /\ UNCHANGED <<traced, explicit, graph, mutated, writes, at, current, ioMap>>

(* Fault: a view of another shape stands in for its input. *)
StandsInAnyShape(g, o) ==
  IF g[o].op # "slice" THEN Roots(g)[o] ELSE 0

(* The input an output node can stand in for, or 0. *)
StandsIn(g, o) ==
  LET i == Roots(g)[o]
  IN  IF i \in Inputs /\ g[o].op # "slice" /\ ShapesMatch(g[o], g[i]) THEN i ELSE 0

Rank(S, i) == Cardinality({j \in S : j <= i})
AtRank(S, k) == CHOOSE i \in S : Rank(S, i) = k

(* Fault: the first write is surfaced. *)
SurfacedFirst(i) ==
  IF writes[i] = {} THEN i ELSE CHOOSE w \in writes[i] : \A v \in writes[i] : w <= v

(* nki_output_for_input, or the placeholder itself. *)
Surfaced(i) ==
  IF writes[i] = {} THEN i ELSE CHOOSE w \in writes[i] : \A v \in writes[i] : v <= w

(* _add_inplace_aliasing and the second pass over the outputs: mutated     *)
(* inputs that no output stands in for are appended, reshaped if need be;  *)
(* every output that can stand in for an input is given to its buffer.     *)
Surface ==
  /\ phase = "surface"
  /\ phase' = "done"
  /\ LET covered == {StandsIn(graph, outputs[p]) : p \in DOMAIN outputs}
         missing == mutated \ covered
         reshaped == {i \in missing : ~ShapesMatch(graph[Surfaced(i)], graph[i])}
         last == Len(graph)
         Added(i) == IF i \in reshaped THEN last + Rank(reshaped, i) ELSE Surfaced(i)
     IN  /\ graph' = graph \o
              [k \in 1 .. Cardinality(reshaped) |->
                 [op |-> "reshape", args |-> <<Surfaced(AtRank(reshaped, k))>>,
                  shape |-> "full"]]
         /\ outputs' = outputs \o
              [k \in 1 .. Cardinality(missing) |-> Added(AtRank(missing, k))]
         /\ ioMap' =
              [p \in {q \in DOMAIN outputs' : \/ q > Len(outputs)
                                              \/ StandsIn(graph', outputs'[q]) # 0} |->
                 IF p > Len(outputs) THEN AtRank(missing, p - Len(outputs))
                 ELSE StandsIn(graph', outputs'[p])]
  /\ UNCHANGED <<traced, explicit, mutated, writes, at, current>>

-----------------------------------------------------------------------------
(* What the graphs compute: content f of the contents xs. *)

Term(f, i, xs) == [f |-> f, i |-> i, xs |-> xs]
Part(t) == IF t.f = "part" THEN t ELSE Term("part", 0, <<t>>)

(* The node whose storage node n shares, or 0; a result of a kernel that   *)
(* writes its operand is that operand.                                     *)
SharedWith(g, n) ==
  LET node == g[n]
  IN  CASE node.op \in {"view", "data", "slice", "nki1"} \cup InPlace -> node.args[1]
        [] node.op = "get1" -> g[node.args[1]].args[1]
        [] node.op = "get2" -> g[node.args[1]].args[2]
        [] OTHER -> 0

Storage(g) ==
  LET s[n \in 1 .. Len(g)] == IF SharedWith(g, n) = 0 THEN n ELSE s[SharedWith(g, n)]
  IN  s

WrittenBy(g, n) ==
  {Storage(g)[g[n].args[k]] : k \in {j \in DOMAIN g[n].args :
     \/ g[n].op \in Kernels
     \/ g[n].op \in InPlace /\ j = 1}}

(* Eager execution of a graph, node by node on storages. *)
Heap(g) ==
  LET store == Storage(g)
      h[n \in 0 .. Len(g)] ==
        IF n = 0 THEN [s \in 1 .. Len(g) |-> Term("in", s, << >>)]
        ELSE LET node == g[n]
                 before == h[n - 1]
                 In(k) == LET c == before[store[node.args[k]]]
                          IN  IF g[node.args[k]].shape = "part" THEN Part(c) ELSE c
                 Set(k, t) == [before EXCEPT ![store[node.args[k]]] = t]
             IN  CASE node.op = "pure" -> [before EXCEPT ![n] = Term("pure", 0, <<In(1)>>)]
                   [] node.op \in InPlace -> Set(1, Term("inplace", 0, <<In(1), In(2)>>))
                   [] node.op = "nki1" -> Set(1, Term("nki1", 0, <<In(1)>>))
                   [] node.op = "nki2" ->
                        [Set(1, Term("nki2", 1, <<In(1), In(2)>>)) EXCEPT
                           ![store[node.args[2]]] = Term("nki2", 2, <<In(1), In(2)>>)]
                   [] OTHER -> before
  IN  h[Len(g)]

(* What every node of g reads at the end. *)
EagerContents(g) ==
  LET heap == Heap(g)
      store == Storage(g)
  IN  [n \in DOMAIN g |-> IF g[n].shape = "part" THEN Part(heap[store[n]])
                          ELSE heap[store[n]]]

(* The compiled graph: a function of the inputs, every node a value. *)
Values(g) ==
  LET v[n \in 1 .. Len(g)] ==
        LET node == g[n]
            In(k) == v[node.args[k]]
        IN  CASE node.op = "placeholder" -> Term("in", n, << >>)
              [] node.op \in {"view", "data", "reshape"} -> In(1)
              [] node.op = "slice" -> Part(In(1))
              [] node.op = "pure" -> Term("pure", 0, <<In(1)>>)
              [] node.op \in InPlace -> Term("inplace", 0, <<In(1), In(2)>>)
              [] node.op = "nki1" -> Term("nki1", 0, <<In(1)>>)
              [] node.op = "nki2" -> Term("nki2", 0, <<In(1), In(2)>>)
              [] node.op = "get1" -> [In(1) EXCEPT !.i = 1]
              [] node.op = "get2" -> [In(1) EXCEPT !.i = 2]
              [] OTHER -> Term("none", 0, << >>)
  IN  v

-----------------------------------------------------------------------------
(* The tracer. *)

(* Is storage s written between nodes a and b of g? *)
WrittenBetween(g, s, a, b) == \E n \in a + 1 .. b - 1 : s \in WrittenBy(g, n)

(* Operands and, as of the end of the graph, explicit outputs. *)
Uses(g, outs) ==
  UNION {{[by |-> m, node |-> g[m].args[k]] : k \in DOMAIN g[m].args} :
           m \in {j \in DOMAIN g : g[j].op \notin Gets}}
  \cup {[by |-> Len(g) + 1, node |-> outs[p]] : p \in DOMAIN outs}

WriteResults(g, i) ==
  {n \in DOMAIN g : g[n].op \in InPlace \cup {"nki1"} \cup Gets /\ Storage(g)[n] = i}

(* A view, or an earlier write's result, is not used once its tensor is    *)
(* written again.                                                          *)
NoStaleAliases(g, outs) ==
  \A u \in Uses(g, outs) :
    u.node \notin Inputs => ~WrittenBetween(g, Storage(g)[u.node], u.node, u.by)

(* An input that is used by its placeholder after a write has only writes  *)
(* of its own shape, none of them the operand of an in-place op.           *)
PlaceholderOrResult(g, outs) ==
  \A u \in Uses(g, outs) :
    u.node \in Inputs /\ WrittenBetween(g, u.node, u.node, u.by) =>
      \A w \in WriteResults(g, u.node) :
        /\ ShapesMatch(g[w], g[u.node])
        /\ ~ \E m \in Users(g, w) : g[m].op \in InPlace

(* No write's result is what an in-place op writes elsewhere. *)
ResultsNotCopied(g) ==
  \A i \in Inputs : \A w \in WriteResults(g, i) : \A m \in Users(g, w) :
    g[m].op \in InPlace => g[m].args[1] = w

Traced(g, outs) ==
  NoStaleAliases(g, outs) /\ PlaceholderOrResult(g, outs) /\ ResultsNotCopied(g)

(* What the tracer may append: an op with operands, and its result's       *)
(* shape; parts are read only.                                             *)
Operands(g) == {n \in DOMAIN g : g[n].op \notin {"nki2", "custom"}}
Node(op, args, shape) == [op |-> op, args |-> args, shape |-> shape]
ViewShape(s) == CASE s = "full" -> "flat" [] s = "flat" -> "full" [] OTHER -> "part"

Appendable(g) ==
  LET next == Len(g) + 1
      whole == {n \in Operands(g) : g[n].shape # "part"}
  IN  {<<Node("pure", <<a>>, "full")>> : a \in Operands(g)}
      \cup {<<Node("view", <<a>>, ViewShape(g[a].shape))>> : a \in Operands(g)}
      \cup {<<Node("data", <<a>>, g[a].shape)>> : a \in Operands(g)}
      \cup {<<Node("slice", <<a>>, "part")>> : a \in whole}
      \cup {<<Node("custom", <<a>>, "full")>> : a \in whole}
      \cup {<<Node(op, <<a, b>>, g[a].shape)>> : op \in InPlace,
             <<a, b>> \in {p \in whole \X whole : g[p[1]].shape = g[p[2]].shape
                                               /\ Storage(g)[p[1]] # Storage(g)[p[2]]}}
      \cup {<<Node("nki1", <<a>>, g[a].shape)>> : a \in whole}
      \cup {<<Node("nki2", <<a, b>>, "full"), Node("get1", <<next>>, g[a].shape),
              Node("get2", <<next>>, g[b].shape)>> :
             <<a, b>> \in {p \in whole \X whole : Storage(g)[p[1]] # Storage(g)[p[2]]}}

OpsOf(g) == {n \in DOMAIN g : g[n].op \notin {"placeholder"} \cup Gets}
CountOf(g, op) == Cardinality({n \in DOMAIN g : g[n].op = op})

(* The inputs are interchangeable: the first operation uses the first.     *)
Trace ==
  /\ phase = "trace"
  /\ Cardinality(OpsOf(traced)) < MaxOps
  /\ \E new \in Appendable(traced) :
       /\ CountOf(traced, new[1].op) < MaxOf[new[1].op]
       /\ Len(traced) = NumInputs => new[1].args[1] = 1
       /\ Traced(traced \o new, << >>)
       /\ traced' = traced \o new
  /\ UNCHANGED <<phase, explicit, graph, outputs, mutated, writes, at, current, ioMap>>

(* The outputs; what has no effect and no reader is not traced. *)
TraceOutputs ==
  /\ phase = "trace"
  /\ phase' = "analyze"
  /\ \E size \in 0 .. MaxOutputs : \E outs \in [1 .. size -> Operands(traced)] :
       /\ Traced(traced, outs)
       /\ \A n \in OpsOf(traced) :
            \/ WrittenBy(traced, n) # {} \/ traced[n].op = "custom"
            \/ Users(traced, n) # {} \/ n \in {outs[p] : p \in DOMAIN outs}
       /\ explicit' = outs /\ outputs' = outs
  /\ graph' = traced
  /\ UNCHANGED <<traced, mutated, writes, at, current, ioMap>>

Next ==
  \/ Trace \/ TraceOutputs
  \/ Analyze \/ RewireNode \/ RewireOutput \/ Surface

Spec == Init /\ [][Next]_vars

-----------------------------------------------------------------------------
(* Properties. *)

(* Nodes and outputs are well formed, and the rewritten graph can still be *)
(* executed in order: every operand, rewired or not, is an earlier node.   *)
TypeOK ==
  /\ phase \in {"trace", "analyze", "rewire", "surface", "done", "error"}
  /\ traced \in Seq(Nodes) /\ graph \in Seq(Nodes)
  /\ \A n \in DOMAIN traced : \A k \in DOMAIN traced[n].args : traced[n].args[k] \in 1 .. n - 1
  /\ \A n \in DOMAIN graph : \A k \in DOMAIN graph[n].args : graph[n].args[k] \in 1 .. n - 1
  /\ explicit \in Seq(DOMAIN traced) /\ outputs \in Seq(1 .. Len(graph))
  /\ mutated \subseteq Inputs /\ writes \in [Inputs -> SUBSET (1 .. Len(graph))]
  /\ at \in Nat /\ DOMAIN current \subseteq Inputs
  /\ \A i \in DOMAIN current : current[i] \in 1 .. Len(graph)
  /\ DOMAIN ioMap \subseteq DOMAIN outputs
  /\ \A p \in DOMAIN ioMap : ioMap[p] \in Inputs

(* What eager execution leaves in an input that it writes, an output of    *)
(* the compiled graph carries back to that input's buffer: no update of a  *)
(* state or cache is lost, through whatever alias it was written.          *)
MutationsPersist ==
  phase = "done" =>
    LET eager == EagerContents(traced)
        value == Values(graph)
    IN  \A i \in Inputs :
          eager[i] # Term("in", i, << >>) =>
            \E p \in DOMAIN ioMap : ioMap[p] = i /\ value[outputs[p]] = eager[i]

(* No output is written over an input's buffer but the input's own final   *)
(* content, in its shape.                                                  *)
BuffersGetTheirOwn ==
  phase = "done" =>
    LET eager == EagerContents(traced)
        value == Values(graph)
    IN  \A p \in DOMAIN ioMap :
          /\ value[outputs[p]] = eager[ioMap[p]]
          /\ ShapesMatch(graph[outputs[p]], graph[ioMap[p]])

(* The caller's outputs stay where they were, with the content they have   *)
(* under eager execution: readers see every write before them, and none    *)
(* after.                                                                  *)
OutputsUnchanged ==
  phase = "done" =>
    LET eager == EagerContents(traced)
        value == Values(graph)
    IN  \A p \in DOMAIN explicit : value[outputs[p]] = eager[explicit[p]]
=============================================================================
