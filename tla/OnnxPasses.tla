-------------------------------- MODULE OnnxPasses --------------------------------
(***************************************************************************)
(* The graph passes of onnx/optimize.py.  A graph has inputs, initializers *)
(* (a function from names to values), nodes at places (a function from     *)
(* numbers, so that a removed node leaves its place empty and the others   *)
(* keep their order) and outputs; a node may carry a body, the subgraph of *)
(* an If or a Loop, that reads the names of the graph around it.  Bodies   *)
(* are not nested here.                                                    *)
(***************************************************************************)
EXTENDS Integers, Sequences, FiniteSets, SequencesExt, Functions

NoBody == [nodes |-> << >>, outs |-> << >>]
Drop(f, names) == [n \in DOMAIN f \ names |-> f[n]]

(* --- what a graph computes, as terms over its inputs --- *)

Value(env, name) == IF name \in DOMAIN env THEN env[name] ELSE <<"undefined">>
Bind(env, name, term) == [n \in DOMAIN env \cup {name} |-> IF n = name THEN term ELSE env[n]]

SimpleTerm(env, node) ==
  CASE node.op = "Constant" -> <<"value", node.value>>
    [] node.op = "Identity" -> Value(env, node.ins[1])
    [] OTHER -> <<node.op, [i \in DOMAIN node.ins |-> Value(env, node.ins[i])]>>
EvalSimple(env, node) == Bind(env, node.out, SimpleTerm(env, node))

NodeTerm(env, node) ==
  IF node.op \in {"Constant", "Identity"} THEN SimpleTerm(env, node)
  ELSE LET inner == FoldLeft(EvalSimple, env, node.body.nodes)
       IN <<node.op, [i \in DOMAIN node.ins |-> Value(env, node.ins[i])],
                     [i \in DOMAIN node.body.outs |-> Value(inner, node.body.outs[i])]>>
EvalNode(env, node) == Bind(env, node.out, NodeTerm(env, node))

\* An initializer that is also an input is only the default of the input.
Start(graph) ==
  [n \in graph.inputs \cup DOMAIN graph.inits |->
     IF n \in graph.inputs THEN <<"input", n>> ELSE <<"value", graph.inits[n]>>]
Env(graph) == FoldLeft(EvalNode, Start(graph), graph.nodes)
Meaning(graph) == [n \in graph.outputs |-> Value(Env(graph), n)]

(* --- helpers --- *)

NamesUsedInside(node) ==
  Range(node.body.outs) \cup UNION {Range(inner.ins) : inner \in Range(node.body.nodes)}

\* The names that the nodes of a body define.
InnerOuts(node) == {inner.out : inner \in Range(node.body.nodes)}

UsedNames(graph) ==
  graph.outputs \cup UNION {Range(n.ins) \cup NamesUsedInside(n) : n \in Range(graph.nodes)}

\* Every read of a mapped name, in bodies too; the outputs of the graph stay.
NewName(mapping, name) == IF name \in DOMAIN mapping THEN mapping[name] ELSE name
NewNames(mapping, names) == [i \in DOMAIN names |-> NewName(mapping, names[i])]
RenameReads(node, mapping) ==
  LET inside(nodes) == [i \in DOMAIN nodes |-> [nodes[i] EXCEPT !.ins = NewNames(mapping, @)]]
  IN [node EXCEPT !.ins = NewNames(mapping, @),
                  !.body = [nodes |-> inside(@.nodes), outs |-> NewNames(mapping, @.outs)]]
RenameUses(graph, mapping) ==
  [graph EXCEPT !.nodes = [i \in DOMAIN @ |-> RenameReads(@[i], mapping)]]

(* --- what the checker of ONNX accepts, which sees a graph before any pass does --- *)

Names(graph) == graph.inputs \cup DOMAIN graph.inits \cup {n.out : n \in Range(graph.nodes)}
NamesBefore(graph, i) ==
  graph.inputs \cup DOMAIN graph.inits
    \cup {graph.nodes[j].out : j \in {l \in DOMAIN graph.nodes : l < i}}

\* The names a node reads of the graph around it.
Reads(node) == Range(node.ins) \cup (NamesUsedInside(node) \ InnerOuts(node))

Row(f) == IsFiniteSet(DOMAIN f) /\ DOMAIN f \subseteq Nat /\ f = [i \in DOMAIN f |-> f[i]]
FlatNodeOK(node) ==
  /\ node = [op |-> node.op, ins |-> node.ins, out |-> node.out, body |-> node.body,
             value |-> node.value]
  /\ Row(node.ins)
  /\ node.op = "Identity" => 1 \in DOMAIN node.ins
NodeOK(node) ==
  /\ FlatNodeOK(node)
  /\ node.body = [nodes |-> node.body.nodes, outs |-> node.body.outs]
  /\ Row(node.body.nodes) /\ Row(node.body.outs)
  /\ \A i \in DOMAIN node.body.nodes : FlatNodeOK(node.body.nodes[i])

\* Every name is defined once, in bodies too, and before it is read.
WellFormed(graph) ==
  /\ graph = [inputs |-> graph.inputs, inits |-> graph.inits, nodes |-> graph.nodes,
              outputs |-> graph.outputs]
  /\ graph.inits = [n \in DOMAIN graph.inits |-> graph.inits[n]]
  /\ Row(graph.nodes)
  /\ \A i \in DOMAIN graph.nodes :
       /\ NodeOK(graph.nodes[i])
       /\ graph.nodes[i].out \notin graph.inputs \cup DOMAIN graph.inits
       /\ InnerOuts(graph.nodes[i]) \cap Names(graph) = {}
       /\ Reads(graph.nodes[i]) \subseteq NamesBefore(graph, i)
  /\ \A i, j \in DOMAIN graph.nodes : graph.nodes[i].out = graph.nodes[j].out => i = j
  /\ graph.outputs \subseteq Names(graph)

(* --- the passes --- *)

Constants(graph) ==
  {i \in DOMAIN graph.nodes :
     graph.nodes[i].op = "Constant" /\ graph.nodes[i].out \notin graph.outputs}

ExtractConstants(graph) ==
  LET taken == Constants(graph)
      values == [n \in {graph.nodes[i].out : i \in taken} |->
                   (CHOOSE c \in {graph.nodes[i] : i \in taken} : c.out = n).value]
  IN [graph EXCEPT !.inits = [n \in DOMAIN @ \cup DOMAIN values |->
                                IF n \in DOMAIN values THEN values[n] ELSE @[n]],
                   !.nodes = Drop(@, taken)]

\* A mutant: a node that makes an output is removed like any other.
IdentitiesAnywhere(graph) == {i \in DOMAIN graph.nodes : graph.nodes[i].op = "Identity"}

Identities(graph) ==
  {i \in DOMAIN graph.nodes :
     graph.nodes[i].op = "Identity" /\ graph.nodes[i].out \notin graph.outputs}

\* The first of them, until none is left: no removal makes another node one of them, so the
\* first is never before one that was removed.
EliminateAt(graph, i) ==
  IF i \in Identities(graph)
  THEN [RenameUses(graph, [n \in {graph.nodes[i].out} |-> graph.nodes[i].ins[1]])
          EXCEPT !.nodes = Drop(@, {i})]
  ELSE graph
EliminateIdentity(graph) == FoldLeft(EliminateAt, graph, [i \in DOMAIN graph.nodes |-> i])

\* What deduplication leaves alone.
Fixed(graph) == graph.inputs \cup graph.outputs

\* Initializers of equal value are one; the first in the order of their names is kept.
DeduplicateInitializers(graph) ==
  LET free == DOMAIN graph.inits \ Fixed(graph)
      same(n) == {m \in free : graph.inits[m] = graph.inits[n]}
      kept == {CHOOSE m \in same(n) : TRUE : n \in free}
      mapping == [n \in free \ kept |-> CHOOSE m \in kept : m \in same(n)]
  IN [RenameUses(graph, mapping) EXCEPT !.inits = Drop(@, DOMAIN mapping)]

\* From the last node to the first: what contributes to no output goes.
Visit(nodes, i, state) ==
  IF nodes[i].out \in state.needed
  THEN [needed |-> state.needed \cup Range(nodes[i].ins) \cup NamesUsedInside(nodes[i]),
        alive |-> state.alive \cup {i}]
  ELSE state
Alive(graph) ==
  FoldRight(LAMBDA i, state : Visit(graph.nodes, i, state), [i \in DOMAIN graph.nodes |-> i],
            [needed |-> graph.outputs, alive |-> {}]).alive
EliminateDeadNodes(graph) == [graph EXCEPT !.nodes = Drop(@, DOMAIN @ \ Alive(graph))]

EliminateUnusedInitializers(graph) ==
  [graph EXCEPT !.inits = Drop(@, DOMAIN @ \ (UsedNames(graph) \cup graph.inputs))]

\* infer_shapes, the last one, changes no node and no name.
PASS_ORDER == <<"extract_constants", "eliminate_identity", "deduplicate_initializers",
                "eliminate_dead_nodes", "eliminate_unused_initializers">>

Pass(name, graph) ==
  CASE name = "extract_constants" -> ExtractConstants(graph)
    [] name = "eliminate_identity" -> EliminateIdentity(graph)
    [] name = "deduplicate_initializers" -> DeduplicateInitializers(graph)
    [] name = "eliminate_dead_nodes" -> EliminateDeadNodes(graph)
    [] name = "eliminate_unused_initializers" -> EliminateUnusedInitializers(graph)

\* The selected passes run in the canonical order, however they were listed.
RunPass(graph, passes, name) == IF name \in passes THEN Pass(name, graph) ELSE graph
Optimize(graph, passes) ==
  FoldLeft(LAMBDA g, name : RunPass(g, passes, name), graph, PASS_ORDER)
=============================================================================
