------------------------------ MODULE Configuration ------------------------------
(***************************************************************************)
(* The configuration of a model and of its engines (config/models.py,      *)
(* specs.py): the records a YAML file is turned into and the conditions    *)
(* under which they are accepted.  A dimension of a tensor is static or    *)
(* carries a symbol; a profile gives a range of shapes to some inputs.     *)
(***************************************************************************)
EXTENDS Integers, Sequences, FiniteSets, SequencesExt

CONSTANTS Identifier,   \* the names and symbols that match the pattern of identifiers
          None          \* the Python None

Precision == {"fp32", "fp16", "int8"}
ModelKind == {"module", "checkpoint", "torchscript"}

(* --- what parsing guarantees of every configuration, accepted or not --- *)

IsList(s) == s \in Seq(Range(s))
Typed(config) ==
  /\ IsList(config.model.inputs) /\ IsList(config.profiles)
  /\ \A spec \in Range(config.model.inputs) :
       IsList(spec.shape) /\ \A d \in Range(spec.shape) : d.size \in Int
  /\ \A p \in Range(config.profiles) : \A name \in DOMAIN p :
       p[name] \in [{"min", "opt", "max"} -> Seq(Int)]

(* --- tensors --- *)

Static(n) == [sym |-> None, size |-> n]
Symbolic(s) == [sym |-> s, size |-> 0]
IsDynamicDim(d) == d.sym # None

DynamicAxes(spec) == {i \in DOMAIN spec.shape : IsDynamicDim(spec.shape[i])}
IsDynamic(spec) == DynamicAxes(spec) # {}
SpecSymbols(spec) == {spec.shape[i].sym : i \in DynamicAxes(spec)}

ConcreteShape(spec, sizes) ==
  [i \in DOMAIN spec.shape |->
     IF IsDynamicDim(spec.shape[i]) THEN sizes[spec.shape[i].sym] ELSE spec.shape[i].size]

TensorSpecOK(spec) ==
  /\ spec.name \in Identifier
  /\ spec.shape # <<>>
  /\ \A i \in DOMAIN spec.shape :
       IF IsDynamicDim(spec.shape[i]) THEN spec.shape[i].sym \in Identifier
                                      ELSE spec.shape[i].size >= 1

(* --- the model section --- *)

InputNames(model) == {model.inputs[i].name : i \in DOMAIN model.inputs}
Input(model, name) == CHOOSE spec \in Range(model.inputs) : spec.name = name
Symbols(model) == UNION {SpecSymbols(spec) : spec \in Range(model.inputs)}

KindOK(model) ==
  CASE model.kind = "module"      -> model.factory # None /\ model.path = None
    [] model.kind = "checkpoint"  -> model.factory # None /\ model.path # None
    [] model.kind = "torchscript" -> model.factory = None /\ model.path # None

ModelOK(model) ==
  /\ KindOK(model)
  /\ model.inputs # <<>>
  /\ \A i \in DOMAIN model.inputs : TensorSpecOK(model.inputs[i])
  /\ Cardinality(InputNames(model)) = Len(model.inputs)
  /\ model.output_names # None =>
       /\ IsInjective(model.output_names)
       /\ Range(model.output_names) \subseteq Identifier

(* --- the tensorrt section: a profile maps input names to ranges of shapes --- *)

ShapeRangeOK(range) ==
  /\ range.min # <<>>
  /\ Len(range.min) = Len(range.opt) /\ Len(range.opt) = Len(range.max)
  /\ \A i \in DOMAIN range.min :
       1 <= range.min[i] /\ range.min[i] <= range.opt[i] /\ range.opt[i] <= range.max[i]

\* A range fits its input: the same rank, and one value on every static axis.
RangeFitsSpec(range, spec) ==
  /\ Len(range.min) = Len(spec.shape)
  /\ \A i \in DOMAIN spec.shape \ DynamicAxes(spec) :
       {range.min[i], range.opt[i], range.max[i]} = {spec.shape[i].size}

ProfilesOK(config) ==
  \A p \in Range(config.profiles) :
    /\ DOMAIN p # {}
    /\ \A name \in DOMAIN p :
         /\ ShapeRangeOK(p[name])
         /\ name \in InputNames(config.model)
         /\ RangeFitsSpec(p[name], Input(config.model, name))

CalibrationOK(config) ==
  LET calibration == config.calibration IN
  /\ "int8" \in Range(config.precisions) => calibration # None
  /\ calibration # None =>
       /\ IF calibration.dataset = "synthetic" THEN calibration.allow_synthetic
                                               ELSE calibration.path # None
       /\ calibration.batch_size >= 1 /\ calibration.num_samples >= 1
       /\ calibration.input_name # None => calibration.input_name \in InputNames(config.model)

BenchmarkOK(config) ==
  /\ config.batch_sizes # <<>> /\ \A i \in DOMAIN config.batch_sizes : config.batch_sizes[i] >= 1
  /\ config.bench_precisions # None => config.bench_precisions \subseteq Range(config.precisions)

TritonOK(config) ==
  config.serve.precision # None => config.serve.precision \in Range(config.precisions)

\* TrtshipConfig: every section is valid, and the sections agree.
Accepts(config) ==
  /\ ModelOK(config.model)
  /\ config.precisions # <<>> /\ IsInjective(config.precisions)
  /\ ProfilesOK(config)
  /\ CalibrationOK(config)
  /\ BenchmarkOK(config)
  /\ TritonOK(config)
=============================================================================
