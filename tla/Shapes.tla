--------------------------------- MODULE Shapes ---------------------------------
(***************************************************************************)
(* How concrete shapes are derived from a configuration: sizes for the     *)
(* symbols (models/inputs.py), the signature of the outputs                *)
(* (models/signature.py), the shapes validated (onnx/validate.py), the     *)
(* profiles of an engine (tensorrt/profiles.py) and its description        *)
(* (tensorrt/engine_info.py), the shapes an execution accepts              *)
(* (tensorrt/executor.py), the shapes measured (benchmark/targets.py) and  *)
(* the batching Triton is told of (triton/config.py).                      *)
(***************************************************************************)
EXTENDS Configuration, Functions, FiniteSetsExt

CONSTANT SymbolOrder    \* every symbol, in the order sorted() gives them

\* sorted(): the rank of a symbol, how many of some symbols come before it, and the first.
Rank(s) == CHOOSE i \in DOMAIN SymbolOrder : SymbolOrder[i] = s
Index(s, symbols) == Cardinality({i \in 1 .. (Rank(s) - 1) : SymbolOrder[i] \in symbols})
FirstOf(symbols) == CHOOSE s \in symbols : \A t \in symbols : Rank(s) <= Rank(t)
PROBE_SIZES == <<2, 3, 5, 7, 11, 13, 17, 19, 23, 29>>
Probe(i) == PROBE_SIZES[(i % Len(PROBE_SIZES)) + 1]

(* --- models/inputs.py: sizes of the symbols --- *)

\* What the first profile says of the symbols: pairs of a symbol and its size.
Given(config, which) ==
  IF config.profiles = <<>> THEN {}
  ELSE UNION {{<<Input(config.model, name).shape[i].sym, config.profiles[1][name][which][i]>> :
                 i \in DynamicAxes(Input(config.model, name))} :
              name \in DOMAIN config.profiles[1]}

\* A mutant: the first size of a symbol is taken without a look at the others.
ConflictingIgnored(config, which) == FALSE

\* A symbol with two sizes is an error of the configuration.
Conflicting(config, which) ==
  \E g, h \in Given(config, which) : g[1] = h[1] /\ g[2] # h[2]

SizesWith(config, which, fallback) ==
  LET given == Given(config, which)
  IN [s \in Symbols(config.model) |->
        IF \E g \in given : g[1] = s THEN (CHOOSE g \in given : g[1] = s)[2]
        ELSE IF s \in DOMAIN fallback THEN fallback[s]
        ELSE Probe(Index(s, Symbols(config.model)))]

Sizes(config, which) == SizesWith(config, which, <<>>)

Covered(config) == {g[1] : g \in Given(config, "min")}
\* symbol_ranges, as used by the export: the symbols the first profile pins to one size.
Pinned(config) ==
  {s \in Covered(config) : Sizes(config, "min")[s] = Sizes(config, "max")[s]}

(* --- models/signature.py: the outputs, from two runs of the model --- *)

\* The next probe size of every symbol.
OtherProbe(config) ==
  [s \in Symbols(config.model) |-> Probe(Index(s, Symbols(config.model)) + 1)]

\* A mutant: the second run never falls back to the largest sizes.
AlternateSizesSmallest(config, base) == SizesWith(config, "min", OtherProbe(config))

\* The largest size where the smallest is the size of the base, as it may be, too.
AlternateSizes(config, base) ==
  LET smallest == SizesWith(config, "min", OtherProbe(config))
      largest == SizesWith(config, "max", OtherProbe(config))
  IN [s \in Symbols(config.model) |->
        IF smallest[s] # base[s] THEN smallest[s] ELSE largest[s]]

ProbeSizes(config) == {Sizes(config, "opt"), AlternateSizes(config, Sizes(config, "opt"))}

SignatureConflict(config) ==
  \E which \in {"opt", "min", "max"} : Conflicting(config, which)

\* One dimension of an output, seen as da at sizes a and as db at sizes b.
\* Synthetic stands for the made-up name "<output>_dim<axis>".
CONSTANT Synthetic
Attribute(da, db, a, b) ==
  LET matches == {s \in DOMAIN a : a[s] = da /\ b[s] = db}
  IN IF da = db THEN Static(da)
     ELSE Symbolic(IF matches = {} THEN Synthetic ELSE FirstOf(matches))

AttributeDims(shapeA, shapeB, a, b) ==
  [i \in DOMAIN shapeA |-> Attribute(shapeA[i], shapeB[i], a, b)]

(* --- onnx/validate.py: where a graph or an engine is compared with the model --- *)

\* A mutant: only the shape the graph was traced at is compared.
ShapePointsTraced(config) ==
  IF Symbols(config.model) = {} THEN {<<>>} ELSE {Sizes(config, "opt")}

ShapePoints(config) ==
  IF Symbols(config.model) = {} THEN {<<>>}
  ELSE IF config.profiles # <<>> THEN {Sizes(config, which) : which \in {"min", "opt", "max"}}
  ELSE ProbeSizes(config)

(* --- tensorrt/profiles.py and engine_info.py: the profiles and the engine --- *)

\* build_profile_shapes fails: a dynamic input is in no profile, or not in all of them.
ProfileShapesFail(config) ==
  \E spec \in Range(config.model.inputs) :
    /\ IsDynamic(spec)
    /\ \/ config.profiles = <<>>
       \/ \E p \in Range(config.profiles) : spec.name \notin DOMAIN p

ProfileShapes(config) ==
  [i \in DOMAIN config.profiles |->
     [name \in InputNames(config.model) |->
        IF name \in DOMAIN config.profiles[i] THEN config.profiles[i][name]
        ELSE [which \in {"min", "opt", "max"} |->
                ConcreteShape(Input(config.model, name), <<>>)]]]

EngineShape(shape) ==
  [i \in DOMAIN shape |-> IF IsDynamicDim(shape[i]) THEN -1 ELSE shape[i].size]
Dynamic(binding) == \E i \in DOMAIN binding.shape : binding.shape[i] < 0

\* describe_engine: the inputs with a range per profile where they are dynamic, the outputs.
EngineInfo(config, outputs) ==
  [inputs |-> [i \in DOMAIN config.model.inputs |->
      LET spec == config.model.inputs[i] IN
      [name |-> spec.name, shape |-> EngineShape(spec.shape),
       profiles |-> IF ~IsDynamic(spec) THEN <<>>
                    ELSE [p \in DOMAIN config.profiles |-> ProfileShapes(config)[p][spec.name]]]],
   outputs |-> [i \in DOMAIN outputs |-> EngineShape(outputs[i])]]

\* A mutant: the most that some input takes, not all of them.
MaxBatchSizeLoose(info) ==
  LET limit(t) == Max({t.profiles[p].max[1] : p \in DOMAIN t.profiles})
  IN IF \E t \in Range(info.inputs) : t.shape[1] >= 0 \/ t.profiles = <<>> THEN 0
     ELSE Max({limit(t) : t \in Range(info.inputs)})

MaxBatchSize(info) ==
  LET limit(t) == Max({t.profiles[p].max[1] : p \in DOMAIN t.profiles})
  IN IF \E t \in Range(info.inputs) : t.shape[1] >= 0 \/ t.profiles = <<>> THEN 0
     ELSE Min({limit(t) : t \in Range(info.inputs)})

(* --- tensorrt/executor.py: the shapes an execution accepts --- *)

Inside(shape, range) ==
  /\ Len(shape) = Len(range.min)
  /\ \A i \in DOMAIN shape : range.min[i] <= shape[i] /\ shape[i] <= range.max[i]

\* _set_input: the context is at profile 0 and never selects another.
SetInputOK(binding, shape) ==
  IF Dynamic(binding) THEN Inside(shape, binding.profiles[1]) ELSE shape = binding.shape

BindOK(info, shapes) ==
  \A b \in Range(info.inputs) : b.name \in DOMAIN shapes /\ SetInputOK(b, shapes[b.name])

InputShapes(config, sizes) ==
  [name \in InputNames(config.model) |-> ConcreteShape(Input(config.model, name), sizes)]

(* --- benchmark/targets.py: the inputs of one batch size --- *)

BatchRefused(config, batch) ==
  LET spec == config.model.inputs[1]
      lead == spec.shape[1]
  IN IF IsDynamicDim(lead)
     THEN /\ config.profiles # <<>>
          /\ spec.name \in DOMAIN config.profiles[1]
          /\ ~ (config.profiles[1][spec.name].min[1] <= batch
                /\ batch <= config.profiles[1][spec.name].max[1])
     ELSE lead.size # batch

BatchInputs(config, batch) ==
  LET lead == config.model.inputs[1].shape[1]
      sizes == Sizes(config, "opt")
  IN InputShapes(config, IF IsDynamicDim(lead) THEN [sizes EXCEPT ![lead.sym] = batch] ELSE sizes)

(* --- triton/config.py: the batching that config.pbtxt declares --- *)

DeclaredBatch(info, settings) ==
  IF settings.max_batch_size = None THEN MaxBatchSize(info) ELSE settings.max_batch_size

RenderFails(info, settings) ==
  LET batch == DeclaredBatch(info, settings) IN
  \/ batch > MaxBatchSize(info)
  \/ settings.preferred # None /\ (batch = 0 \/ \E b \in settings.preferred : b > batch)
  \/ /\ batch > 0
     /\ \/ \E t \in Range(info.inputs) : t.shape[1] # -1
        \/ \E shape \in Range(info.outputs) : shape[1] # -1

\* The shape of a whole request: Triton puts the batch axis before the declared dims.
Requests(info, settings) ==
  LET batch == DeclaredBatch(info, settings)
      request(b) == [t \in Range(info.inputs) |-> <<b>> \o Tail(t.profiles[1].opt)]
  IN IF batch = 0 THEN {} ELSE {request(b) : b \in 1..batch}
=============================================================================
