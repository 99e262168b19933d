------------------------------- MODULE MCDeployment -------------------------------
(* Four families of cases, each of which varies one thing: the inputs and profiles, *)
(* the nodes of the graph, what one engine computes, and the engines of two         *)
(* precisions over two invocations.                                                 *)
EXTENDS Deployment

CONSTANT nan

B == Symbolic("b")
S == Symbolic("s")
SymbolOrderValue == <<"b", "s">>
In(name, shape) == [name |-> name, shape |-> shape]
Dim(syms) == [syms |-> syms, factor |-> 1]

Config(inputs, profiles, precisions) ==
  [model |-> [kind |-> "module", factory |-> "f", path |-> None, inputs |-> inputs,
              output_names |-> None],
   export |-> [dynamo |-> FALSE], precisions |-> precisions, profiles |-> profiles, passes |-> {},
   calibration |-> [dataset |-> "d", path |-> "p", allow_synthetic |-> FALSE, batch_size |-> 2,
                    num_samples |-> 3, input_name |-> None],
   batch_sizes |-> <<1, 2, 3>>, bench_precisions |-> None, serve |-> [precision |-> None]]
Case(c, m, nodes) == [config |-> c, model |-> m, graph |-> nodes]

(* --- inputs and profiles: two symbols, sizes from 1 to 3 --- *)

ShapeInputs == {<<In("x", <<B, S>>)>>, <<In("x", <<B, B>>)>>,
                <<In("x", <<B>>), In("y", <<B>>)>>, <<In("x", <<B>>), In("y", <<S>>)>>,
                <<In("x", <<B>>), In("y", <<Static(2)>>)>>}
Triples == {t \in [{"min", "opt", "max"} -> 1..3] :
              t["min"] <= t["opt"] /\ t["opt"] <= t["max"]}
              \cup {[min |-> 2, opt |-> 1, max |-> 2]}
Narrow == {[min |-> 1, opt |-> 1, max |-> 2], [min |-> 1, opt |-> 2, max |-> 3]}
RangeOver(triples, rank) ==
  {[which \in {"min", "opt", "max"} |-> [i \in 1..rank |-> axes[i][which]]] :
     axes \in [1..rank -> triples]}
ProfilesOver(triples, inputs) ==
  UNION {[names -> RangeOver(triples, Len(inputs[1].shape))] :
           names \in SUBSET {inputs[i].name : i \in DOMAIN inputs} \ {{}}}
ShapeConfigs ==
  UNION {{Config(inputs, profiles, <<"fp16">>) :
            profiles \in {<<>>} \cup {<<p>> : p \in ProfilesOver(Triples, inputs)}
                                \cup {<<p, q>> : p, q \in ProfilesOver(Narrow, inputs)}} :
         inputs \in ShapeInputs}
\* The newer exporter, with symbols that the first profile pins, or one of them, or none.
DynamoConfigs ==
  {[Config(inputs, profiles, <<"fp16">>) EXCEPT !.export.dynamo = TRUE] :
     inputs \in {<<In("x", <<B, S>>)>>},
     profiles \in {<<>>} \cup {<<p>> : p \in ProfilesOver({[min |-> 1, opt |-> 2, max |-> 3],
                                                       [min |-> 2, opt |-> 2, max |-> 2]},
                                                      <<In("x", <<B, S>>)>>)}}
ShapeModels == {<<Dim({"b"})>>, <<Dim({"b"}), Dim({"s"})>>, <<Dim({"b", "s"})>>}

(* --- graphs: two nodes over one input and two initializers, and some of three --- *)

Node(op, ins, out, body) == [op |-> op, ins |-> ins, out |-> out, body |-> body, value |-> 1]
Bodies(names) ==
  {[nodes |-> <<Node("Neg", <<m>>, "u", NoBody)>>, outs |-> <<"u">>] : m \in names}
  \cup {[nodes |-> << >>, outs |-> <<m>>] : m \in names}
Nodes(names, out) ==
  {Node("Constant", << >>, out, NoBody)}
  \cup {Node(op, <<n>>, out, NoBody) : op \in {"Identity", "Neg"}, n \in names}
  \cup {Node("If", <<"x">>, out, b) : b \in Bodies(names)}
Nodes2 == {<<p, q>> : p \in Nodes({"x", "a", "b"}, "s"), q \in Nodes({"x", "a", "b", "s"}, "t")}
Nodes3 ==
  {<<p, q, r>> : p \in Nodes({"a"}, "s"), q \in Nodes({"x", "s"}, "t"), r \in Nodes({"s", "t"}, "o")}
Graph(inputs, b, nodes, outputs) ==
  [inputs |-> inputs, inits |-> [n \in {"a", "b"} |-> IF n = "a" THEN 1 ELSE b],
   nodes |-> nodes, outputs |-> outputs]
Graphs ==
  {Graph(i, b, nodes, o) : i \in {{"x"}, {"x", "a"}}, b \in {1, 2}, nodes \in Nodes2,
                           o \in {{"t"}, {"s", "t"}, {"s"}}}
  \cup {Graph(i, 1, nodes, o) : i \in {{"x"}, {"x", "a"}}, nodes \in Nodes3,
                                o \in {{"o"}, {"s", "o"}}}
Plain == Graph({"x"}, 2, <<Node("Neg", <<"x">>, "t", NoBody)>>, {"t"})

(* --- numbers: the one output of one engine, with two values; errors up to 1 or half --- *)

Fixed2 == [syms |-> {}, factor |-> 2]
Fixed1 == [syms |-> {}, factor |-> 1]
Static22 == <<In("x", <<Static(2), Static(2)>>)>>
Tensor(dtype, row) == [dtype |-> dtype, rows |-> <<row>>]
Out(tensor) == [out |-> tensor]
Sample(reference, candidate) == [reference |-> Out(reference), candidate |-> Out(candidate)]
Rows(values) == [1..2 -> values]
Pairs(dtype, values) ==
  {Sample(Tensor(dtype, r), Tensor(dtype, c)) : r, c \in Rows(values)}
Exact == Sample(Tensor("float", <<3, 0>>), Tensor("float", <<3, 0>>))
Near == Sample(Tensor("float", <<9, 0>>), Tensor("float", <<6, 0>>))
Far == Sample(Tensor("float", <<3, 0>>), Tensor("float", <<1, 2>>))
Lost == Sample(Tensor("float", <<3, 0>>), Tensor("float", <<3, nan>>))
Absent == [reference |-> Exact.reference, candidate |-> << >>]
Renamed == [reference |-> Exact.reference, candidate |-> [other |-> Tensor("float", <<3, 0>>)]]
Few == {Exact, Near, Far, Lost, Absent, Renamed}
MCTolerances ==
  [precision \in Precision |->
     IF precision = "int8"
     THEN [atol |-> 2, rtol |-> 0, cosine |-> 0, top1 |-> NoLimit, topk |-> 1, topk_rate |-> 100]
     ELSE [atol |-> 1, rtol |-> 30, cosine |-> 90, top1 |-> 100, topk |-> 5, topk_rate |-> NoLimit]]

MCObserved(c) ==
  IF c.precisions = <<"fp32">>
  THEN {<<s>> : s \in Pairs("float", {0, 1, 3, nan}) \cup Pairs("int", {0, 1})}
       \cup {<<s, t>> : s, t \in Few}
  ELSE IF Len(c.precisions) = 2 THEN {<<Exact>>, <<Near>>} ELSE {<<Exact>>}
MCInvocations(c) ==
  IF Len(c.precisions) = 1 THEN 1 ELSE IF c.passes = {} /\ Len(c.model.inputs) = 1 THEN 3 ELSE 2

(* --- two precisions: calibration data for one or two inputs that share a symbol --- *)

Profile(inputs) ==
  [name \in {inputs[i].name : i \in DOMAIN inputs} |-> [min |-> <<1>>, opt |-> <<1>>, max |-> <<3>>]]
OneInput == <<In("x", <<B>>)>>
TwoInputs == <<In("x", <<B>>), In("y", <<B>>)>>
Two(inputs, fed, wanted, passes) ==
  [Config(inputs, <<Profile(inputs)>>, <<"fp16", "int8">>) EXCEPT
     !.calibration.input_name = fed, !.serve.precision = wanted, !.passes = passes]
TwoConfigs == {Two(OneInput, None, "int8", {}), Two(TwoInputs, None, "int8", {}),
               Two(TwoInputs, "y", "int8", Range(PASS_ORDER)), Two(OneInput, "x", None, Range(PASS_ORDER))}

MCCases ==
  {Case(c, m, Plain) : c \in ShapeConfigs \cup DynamoConfigs, m \in ShapeModels}
  \cup {Case([Config(Static22, <<>>, <<"fp16">>) EXCEPT !.passes = Range(PASS_ORDER)], <<Fixed2>>, g) :
          g \in Graphs}
  \cup {Case(Config(Static22, <<>>, <<"fp32">>), m, Plain) : m \in {<<Fixed2>>, <<Fixed1, Fixed2>>}}
  \cup {Case(c, <<Dim({"b"})>>, Plain) : c \in TwoConfigs}

ValidCases ==
  {c \in MCCases : \A i \in DOMAIN c.model : c.model[i].syms \subseteq Symbols(c.config.model)}
MCSettings == {[max_batch_size |-> None, preferred |-> None],
               [max_batch_size |-> 0, preferred |-> None],
               [max_batch_size |-> 2, preferred |-> {2}]}
=============================================================================
