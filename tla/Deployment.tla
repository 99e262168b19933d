------------------------------- MODULE Deployment -------------------------------
(***************************************************************************)
(* The stages that take one configuration from a model to a repository     *)
(* that Triton serves, in their order, over one or more invocations that   *)
(* each run some of them (pipeline/stages).  Shapes, graphs and verdicts   *)
(* come from Shapes, OnnxPasses and Comparison; the model, the exporter,   *)
(* TensorRT and the numbers it computes are outside and only obey their    *)
(* interfaces.  Keys, caching and damage are in Pipeline: here a stage     *)
(* whose artifact is there is passed over, and only build and what follows *)
(* it may run again.                                                       *)
(***************************************************************************)
EXTENDS Shapes, OnnxPasses, Comparison

CONSTANTS Cases,        \* configurations, valid or not, with a model: see Init
          Settings,     \* the batching options of the triton section
          Tolerances,   \* from precisions to tolerances
          Observed(_),  \* what engines of a configuration may compute: sequences of samples
          Invocations(_), \* bound: how often the stages of a configuration are run
          LargestSize     \* bound: the largest size of a symbol that a property tries

\* Of what an engine computes, only what has the shape of the model's output is compared.
Comparable(sample) ==
  /\ DOMAIN sample.reference # {}
  /\ \A name \in DOMAIN sample.reference \cap DOMAIN sample.candidate :
       /\ IsFiniteSet(Elements(sample.reference[name]))
       /\ Elements(sample.reference[name]) = Elements(sample.candidate[name])

\* The graphs are those that analyze_graph lets through, which runs before any pass.
ASSUME DeploymentAssumption ==
  /\ \A c \in Cases : Typed(c.config)
  /\ \A triton \in Settings : triton.max_batch_size \in Nat \cup {None}
  /\ \A c \in Cases : \A seen \in Observed(c.config) :
       IsList(seen) /\ seen # << >> /\ \A sample \in Range(seen) : Comparable(sample)
  /\ IsList(SymbolOrder)
  /\ \A c \in Cases : Symbols(c.config.model) \subseteq Range(SymbolOrder)
  /\ \A c \in Cases : \A i \in DOMAIN c.model :
       /\ IsFiniteSet(c.model[i].syms) /\ c.model[i].syms \subseteq Symbols(c.config.model)
       /\ c.model[i].factor \in Nat
  /\ \A c \in Cases : WellFormed(c.graph)
  /\ None # "EngineRuntimeError"

VARIABLES config,       \* the configuration
          model,        \* the dimensions of the one output of the model: see Eval
          graph,        \* the nodes the exporter makes of the model
          at,           \* the stage that is next, see Order
          round,        \* the number of the invocation
          signature,    \* what is known of the dimensions of the output, or None
          onnx,         \* the exported graph, or None
          optimized,    \* the optimized graph, or None
          checked,      \* the exported graph passed its validation
          cache,        \* the calibration cache, or None
          engines,      \* the engines built, oldest first
          reports,      \* the engine validation reports, oldest first
          repository,   \* the repository packaged last, or None
          error         \* why the last stage failed or left something out, or None

case == <<config, model, graph>>
vars == <<config, model, graph, at, round, signature, onnx, optimized, checked, cache, engines,
          reports, repository, error>>

Order == <<"inspect", "export", "validate", "optimize", "calibrate", "build", "validate_engine",
           "benchmark", "package">>

(* The true size of an output dimension: a constant times some symbols. *)
Eval(dim, sizes) == FoldSet(LAMBDA s, product : sizes[s] * product, dim.factor, dim.syms)
OutputShape(outputs, sizes) == [i \in DOMAIN outputs |-> Eval(outputs[i], sizes)]
Traced(i) == Eval(model[i], Sizes(config, "opt"))

\* What the exported graph returns: the traced size wherever tracing made it constant.
GraphOutputs == [i \in DOMAIN model |-> IF i \in onnx.baked THEN [syms |-> {}, factor |-> Traced(i)]
                                                           ELSE model[i]]

Init ==
  /\ \E c \in Cases : config = c.config /\ model = c.model /\ graph = c.graph
  /\ at = 0 /\ round = 1
  /\ signature = None /\ onnx = None /\ optimized = None /\ checked = FALSE /\ cache = None
  /\ engines = << >> /\ reports = << >> /\ repository = None /\ error = None

Stage(name) == at \in DOMAIN Order /\ Order[at] = name
Advance == at' = at + 1 /\ error' = None /\ UNCHANGED <<case, round>>
Fail(e) == at' = Len(Order) + 1 /\ error' = e /\ UNCHANGED <<case, round>>

Load ==
  /\ at = 0
  /\ IF Accepts(config) THEN Advance ELSE Fail("ConfigError")
  /\ UNCHANGED <<signature, onnx, optimized, checked, cache, engines, reports, repository>>

\* A stage is not selected, does not apply or is up to date.  The signature is needed by all.
PassOver ==
  /\ at \in DOMAIN Order /\ signature # None
  /\ Advance
  /\ UNCHANGED <<signature, onnx, optimized, checked, cache, engines, reports, repository>>

Again ==
  /\ at = Len(Order) + 1 /\ signature # None /\ round < Invocations(config)
  /\ at' = 1 /\ round' = round + 1 /\ error' = None
  /\ UNCHANGED <<case, signature, onnx, optimized, checked, cache, engines, reports, repository>>

(* --- inspect, export, optimize, validate --- *)

\* infer_signature: the model runs at two assignments of sizes.
InferSignature ==
  LET a == Sizes(config, "opt")
      b == AlternateSizes(config, a)
  IN AttributeDims(OutputShape(model, a), OutputShape(model, b), a, b)

\* The model may refuse a size.
Inspect ==
  /\ Stage("inspect") /\ signature = None
  /\ \/ SignatureConflict(config) /\ Fail("ConfigError") /\ UNCHANGED signature
     \/ ~SignatureConflict(config) /\ Fail("ModelError") /\ UNCHANGED signature
     \/ ~SignatureConflict(config) /\ Advance /\ signature' = InferSignature
  /\ UNCHANGED <<onnx, optimized, checked, cache, engines, reports, repository>>

(* What an exporter may write: the inputs that are left, the dimensions of the output that *)
(* it made constant, and the dimensions that the graph declares constant.                  *)

\* Tracing may make any dimension that follows a symbol constant, whether the graph says
\* so or still declares it dynamic; an input that nothing uses is gone.
ExportTorchscript ==
  [inputs : {InputNames(config.model)} \cup {InputNames(config.model) \ {n} : n \in InputNames(config.model)},
   baked : SUBSET {i \in DOMAIN model : model[i].syms # {}}, declared : SUBSET DOMAIN model]

\* torch.export is given the symbols that are not pinned, and keeps them or raises.
ExportDynamo ==
  LET constant == {i \in DOMAIN model : model[i].syms \subseteq Pinned(config)}
  IN [inputs : {InputNames(config.model)}, baked : {{i \in constant : model[i].syms # {}}},
      declared : {constant}]

\* _check_tensor: a static axis is constant in the graph; another one is only if the
\* profile pins it to that size.
AxisMismatch(i, declared) ==
  IF ~IsDynamicDim(signature[i]) THEN i \notin declared \/ Traced(i) # signature[i].size
  ELSE i \in declared /\ ~ (/\ signature[i].sym \in Pinned(config)
                            /\ Sizes(config, "min")[signature[i].sym] = Traced(i))

\* check_onnx_signature
Refused(written) ==
  \/ written.inputs # InputNames(config.model)
  \/ \E i \in DOMAIN signature : AxisMismatch(i, written.declared)

ExportOnnx ==
  {written \in IF config.export.dynamo THEN ExportDynamo ELSE ExportTorchscript : ~Refused(written)}

\* Either exporter may raise; the newer one needs a package of its own.
Export ==
  /\ Stage("export") /\ onnx = None
  /\ \/ config.export.dynamo /\ Fail("EnvironmentUnavailableError") /\ UNCHANGED onnx
     \/ Fail("ExportError") /\ UNCHANGED onnx
     \/ \E written \in ExportOnnx :
          /\ Advance
          /\ onnx' = [inputs |-> written.inputs, baked |-> written.baked, nodes |-> graph]
  /\ UNCHANGED <<signature, optimized, checked, cache, engines, reports, repository>>

\* _run_point: the model and the graph agree on the shape of the output at these sizes.
PointAgrees(sizes) == OutputShape(model, sizes) = OutputShape(GraphOutputs, sizes)

\* _io_problems: the graph does not have the inputs of the model.
OtherInputs == onnx.inputs # InputNames(config.model)

\* validate_onnx: every shape point agrees.
GraphAgrees == ~OtherInputs /\ \A sizes \in ShapePoints(config) : PointAgrees(sizes)

\* A graph that does not pass is never registered; the numbers it computes may also differ.
OptimizeStage ==
  /\ Stage("optimize") /\ onnx # None /\ optimized = None /\ config.passes # {}
  /\ \/ GraphAgrees /\ Advance /\ optimized' = Optimize(onnx.nodes, config.passes)
     \/ Fail("ValidationFailedError") /\ UNCHANGED optimized
  /\ UNCHANGED <<signature, onnx, checked, cache, engines, reports, repository>>

ValidateOnnx ==
  /\ Stage("validate") /\ onnx # None
  /\ \/ GraphAgrees /\ Advance /\ checked' = TRUE
     \/ Fail("ValidationFailedError") /\ UNCHANGED checked
  /\ UNCHANGED <<signature, onnx, optimized, cache, engines, reports, repository>>

Source == IF optimized # None THEN "optimized" ELSE "onnx"

(* --- calibrate --- *)

Lead(spec) == spec.shape[1]
CalibrationInput ==
  IF config.calibration.input_name # None THEN Input(config.model, config.calibration.input_name)
  ELSE config.model.inputs[1]

\* Nothing says which of several inputs the data is for, or its batch axis has another size.
CalibrationRefused ==
  \/ config.calibration.input_name = None /\ Len(config.model.inputs) # 1
  \/ ~IsDynamicDim(Lead(CalibrationInput)) /\ Lead(CalibrationInput).size # config.calibration.batch_size

\* A mutant: the other inputs keep the batch of the profile.
BatchSizesOfProfile == Sizes(config, "opt")

\* The opt sizes, with the batch of the calibrated input.
BatchSizes ==
  [s \in Symbols(config.model) |->
     IF IsDynamicDim(Lead(CalibrationInput)) /\ s = Lead(CalibrationInput).sym
     THEN config.calibration.batch_size ELSE Sizes(config, "opt")[s]]

SampleShape(spec) == Tail(ConcreteShape(spec, BatchSizes))

\* Batches of the samples selected from a dataset of a size: a partial one is dropped.
BatchCount(size) ==
  (IF config.calibration.num_samples >= size THEN size ELSE config.calibration.num_samples)
    \div config.calibration.batch_size

\* get_batch: what TensorRT is given for each input.
Fed ==
  [name \in InputNames(config.model) |->
     IF name = CalibrationInput.name THEN <<config.calibration.batch_size>> \o SampleShape(CalibrationInput)
     ELSE ConcreteShape(Input(config.model, name), BatchSizes)]

\* calibrate: the batches TensorRT may call for, out of a dataset of a size.
Batches(size) ==
  IF CalibrationRefused \/ ProfileShapesFail(config) THEN {} ELSE 1 .. BatchCount(size)

\* TensorRT may also write no cache, and the engine that it builds on the way may fail.
Calibrate ==
  /\ Stage("calibrate") /\ onnx # None /\ cache = None /\ "int8" \in Range(config.precisions)
  /\ \/ Fail(IF ~CalibrationRefused /\ ProfileShapesFail(config) THEN "ConfigError"
             ELSE "CalibrationError") /\ UNCHANGED cache
     \/ \E size \in 0 .. (config.calibration.num_samples + 1) :
          Batches(size) # {} /\ Advance /\ cache' = [source |-> Source, fed |-> Fed]
  /\ UNCHANGED <<signature, onnx, optimized, checked, engines, reports, repository>>

(* --- build --- *)

Engine(precision) ==
  [precision |-> precision, source |-> Source,
   info |-> EngineInfo(config, <<[i \in DOMAIN model |->
              IF GraphOutputs[i].syms = {} THEN Static(GraphOutputs[i].factor)
                                           ELSE Symbolic(Synthetic)]>>)]

\* _calibration: an INT8 engine is only built from a calibration cache.
NoCalibration(precision) == precision = "int8" /\ cache = None

\* build_engine; TensorRT may fail as well.
CannotBuild(precision) ==
  NoCalibration(precision) \/ ProfileShapesFail(config) \/ OtherInputs

BuildError(precision) ==
  IF ~NoCalibration(precision) /\ ProfileShapesFail(config) THEN "ConfigError"
  ELSE "EngineBuildError"

\* One engine per precision, each published as it is built; the next one may fail.
Build ==
  /\ Stage("build") /\ onnx # None
  /\ \E n \in 0 .. Len(config.precisions) :
       /\ \A i \in 1 .. n : ~CannotBuild(config.precisions[i])
       /\ engines' = engines \o [i \in 1 .. n |-> Engine(config.precisions[i])]
       /\ IF n = Len(config.precisions) THEN Advance ELSE Fail(BuildError(config.precisions[n + 1]))
  /\ UNCHANGED <<signature, onnx, optimized, checked, cache, reports, repository>>

Built == {engines[i].precision : i \in DOMAIN engines}
LatestEngine(precision) == Max({i \in DOMAIN engines : engines[i].precision = precision})

(* --- validate_engine --- *)

\* The outputs of one sample, with the shapes they have at these sizes.
Shaped(outputs, dims, sizes) ==
  [name \in DOMAIN outputs |-> [dtype |-> outputs[name].dtype, rows |-> outputs[name].rows,
                                shape |-> OutputShape(dims, sizes)]]

EnginePoint(precision, samples, sizes) ==
  IF ~BindOK(engines[LatestEngine(precision)].info, InputShapes(config, sizes))
  THEN [failures |-> {"error"}, passed |-> FALSE]
  ELSE RunPoint([i \in DOMAIN samples |->
                   [reference |-> Shaped(samples[i].reference, model, sizes),
                    candidate |-> Shaped(samples[i].candidate, GraphOutputs, sizes)]],
                Tolerances[precision])

\* validate_engines: the newest engine of every precision, at every shape point.
Points(seen) ==
  UNION {{EnginePoint(p, seen[p], sizes) : sizes \in ShapePoints(config)} : p \in Built}

Report(seen, points) ==
  [engines |-> {LatestEngine(p) : p \in Built}, precisions |-> Built, seen |-> seen,
   failures |-> UNION {point.failures : point \in points},
   passed |-> \A point \in points : point.failures = {} /\ point.passed]

\* The report is published before a failed one fails the stage.
ValidateEngine ==
  /\ Stage("validate_engine") /\ engines # << >> /\ onnx # None
  /\ \E seen \in [Built -> Observed(config)] :
       \E points \in {Points(seen)} : \E report \in {Report(seen, points)} :
       /\ reports' = Append(reports, report)
       /\ IF report.passed THEN Advance ELSE Fail("ValidationFailedError")
  /\ UNCHANGED <<signature, onnx, optimized, checked, cache, engines, repository>>

(* --- benchmark --- *)

\* A batch size that cannot be prepared is left out of the measurements.
Benchmark(batch) ==
  /\ Stage("benchmark") /\ engines # << >> /\ onnx # None
  /\ at' = at + 1
  /\ error' = IF BatchRefused(config, batch) THEN "ConfigError"
              ELSE IF \E p \in Built :
                        ~BindOK(engines[LatestEngine(p)].info, BatchInputs(config, batch))
              THEN "EngineRuntimeError" ELSE None
  /\ UNCHANGED <<case, round, signature, onnx, optimized, checked, cache, engines, reports, repository>>

(* --- package --- *)

\* select_engine: triton.precision, or the only one built.
Wanted == IF config.serve.precision # None THEN config.serve.precision ELSE CHOOSE p \in Built : TRUE
Ambiguous == IF config.serve.precision # None THEN config.serve.precision \notin Built
                                               ELSE Cardinality(Built) > 1

\* A mutant: a report that passed once is enough.
RejectedByAll == reports # << >> /\ \A i \in DOMAIN reports : ~reports[i].passed

\* _check_validation: the newest report says the engines failed.
Rejected == reports # << >> /\ ~Last(reports).passed

Package(triton) ==
  /\ Stage("package") /\ engines # << >>
  /\ IF Ambiguous THEN Fail("TritonError") /\ UNCHANGED repository
     ELSE IF Rejected THEN Fail("ValidationFailedError") /\ UNCHANGED repository
     ELSE LET chosen == LatestEngine(Wanted) IN
          IF RenderFails(engines[chosen].info, triton) THEN Fail("TritonError") /\ UNCHANGED repository
          ELSE /\ Advance
               /\ repository' = [engine |-> chosen, settings |-> triton, reports |-> Len(reports)]
  /\ UNCHANGED <<signature, onnx, optimized, checked, cache, engines, reports>>

Next ==
  \/ Load
  \/ PassOver
  \/ Again
  \/ Inspect
  \/ Export
  \/ OptimizeStage
  \/ ValidateOnnx
  \/ Calibrate
  \/ Build
  \/ ValidateEngine
  \/ \E batch \in Range(config.batch_sizes) : Benchmark(batch)
  \/ \E triton \in Settings : Package(triton)

Spec == Init /\ [][Next]_vars
--------------------------------------------------------------------------------
(* An engine is only measured at shapes it was built for: what batch_inputs      *)
(* lets through is inside the profile on every input, although it only looks at  *)
(* the first one.                                                                *)
BenchmarkFits == error # "EngineRuntimeError"

(* An engine built from a graph that passed validation has the outputs of the    *)
(* model at every size its first profile allows: a dimension that tracing made   *)
(* constant shows up at one of the shape points.                                 *)
Boxed == [Symbols(config.model) -> 1 .. LargestSize]
ValidatedEngineIsModel ==
  \A engine \in Range(engines) :
    engine.source = "optimized" \/ checked =>
      \A sizes \in Boxed :
        BindOK(engine.info, InputShapes(config, sizes)) =>
          OutputShape(model, sizes) = OutputShape(GraphOutputs, sizes)

(* A dimension that is one symbol is given that symbol, unless another symbol    *)
(* took the same two sizes, and is only static if the first profile pins it.     *)
Twins(s) ==
  LET a == Sizes(config, "opt")
      b == AlternateSizes(config, a)
  IN {t \in Symbols(config.model) : a[t] = a[s] /\ b[t] = b[s]}
AttributionIsRight ==
  signature # None =>
    \A i \in DOMAIN model : \A s \in Symbols(config.model) :
      model[i] = [syms |-> {s}, factor |-> 1] =>
        \/ signature[i] = Symbolic(s)
        \/ signature[i].sym \in Twins(s) \ {s}
        \/ s \in Pinned(config) /\ signature[i] = Static(Sizes(config, "opt")[s])

(* Every batch that config.pbtxt declares is accepted by the engine, if the      *)
(* engine has one profile and it starts at one.                                  *)
DeclaredBatchesFit ==
  repository # None /\ Len(config.profiles) = 1 =>
    LET info == engines[repository.engine].info IN
    \A request \in Requests(info, repository.settings) : \A t \in Range(info.inputs) :
      t.profiles[1].min[1] = 1 => SetInputOK(t, request[t])

(* "Only passes that provably preserve behavior are provided" (optimize.py:3):   *)
(* any selection of passes leaves every output of the exported graph what it     *)
(* was, bodies and initializers that an input overrides included, and no name    *)
(* undefined; and a second round of all of them changes nothing.                 *)
MeaningPreserved ==
  Stage("optimize") /\ round = 1 =>
    /\ \A passes \in SUBSET Range(PASS_ORDER) : Meaning(Optimize(graph, passes)) = Meaning(graph)
    /\ LET once == Optimize(graph, Range(PASS_ORDER)) IN Optimize(once, Range(PASS_ORDER)) = once

(* Every shape a calibration batch has comes from one assignment of sizes, the   *)
(* other inputs and repeated symbols included.                                   *)
FedSizes == UNION {Range(cache.fed[name]) : name \in DOMAIN cache.fed}
CalibrationIsConsistent ==
  cache # None =>
    \E sizes \in [Symbols(config.model) -> FedSizes] : cache.fed = InputShapes(config, sizes)

(* If an engine validation passed, then every engine gave every output of the    *)
(* model at every sample, of the same shape, and where the model's values are    *)
(* finite the engine's are too and within the tolerance of its precision.        *)
Close(ref, cand, tolerance) ==
  AllFinite(ref) =>
    AllFinite(cand) /\ \A e \in Elements(ref) : ~Violation(ref, cand, tolerance, e)
PassMeansClose ==
  \A report \in Range(reports) : report.passed =>
    /\ \A sizes \in ShapePoints(config) : OutputShape(model, sizes) = OutputShape(GraphOutputs, sizes)
    /\ \A p \in report.precisions : \A sample \in Range(report.seen[p]) :
         /\ DOMAIN sample.reference = DOMAIN sample.candidate
         /\ \A name \in DOMAIN sample.reference :
              Close(sample.reference[name], sample.candidate[name], Tolerances[p])

(* "Refuse to package an engine that failed validation" (package_stage.py:88):   *)
(* of the reports about the packaged engine, the last one passed.                *)
RejectedNeverPackaged ==
  repository # None =>
    LET about == {i \in 1 .. repository.reports : repository.engine \in reports[i].engines}
    IN about # {} => reports[Max(about)].passed
=============================================================================
