----------------------------- MODULE Environment -----------------------------
(***************************************************************************)
(* What the program finds out about a machine (utils/env.py) and what it   *)
(* concludes: `doctor` reports it, `run` compares it with what its stages  *)
(* need, and every other command that needs a GPU, Docker or the Triton    *)
(* client requires it.  A machine is a record of how its tools answer and  *)
(* of how its packages are installed; a probe never raises, it returns     *)
(* "ok", "missing" or "error".                                             *)
(***************************************************************************)
EXTENDS Naturals, Sequences

(* --- tools: a command that is not found, or cut off, raises --- *)

NotFound == [ran |-> FALSE]
CutOff == [ran |-> FALSE]
Fails == [ran |-> TRUE, ok |-> FALSE, unknown_field |-> FALSE]
UnknownField == [ran |-> TRUE, ok |-> FALSE, unknown_field |-> TRUE]
\* A successful answer: of nvidia-smi, the number of fields in each line (0 in a blank
\* one, anything in a garbled one); of docker, the set of runtimes.
Prints(output) == [ran |-> TRUE, ok |-> TRUE, output |-> output]

\* The executables that shutil.which finds.
Which(m, tool) == tool \in m.path
RunCommand(m, tool) == IF Which(m, tool) THEN m.answers[tool] ELSE NotFound

(* --- packages: the installed distributions, and how a module's import ends --- *)

Installed(m, distribution) == distribution \in m.distributions
Found(m, module) == module \in DOMAIN m.imports
\* "ok", "not_found" (ImportError) or "raises" (any other exception).
Import(m, module) == IF Found(m, module) THEN m.imports[module] ELSE "not_found"

(* --- probes --- *)

ProbePython(m) == IF m.python_is_recent THEN "ok" ELSE "error"

ProbeTorch(m) == IF Installed(m, "torch") THEN "ok" ELSE "missing"

ProbeTorchCuda(m) ==
  CASE ~ Installed(m, "torch") -> "missing"
    [] Import(m, "torch") # "ok" \/ m.cuda = "raises" -> "error"
    [] m.cuda = "available" -> "ok"
    [] m.cuda = "cpu_build" -> "missing"
    [] m.cuda = "no_device" -> "error"

\* The driver is first asked with the compute capability, which an old one does not know.
SmiIsOld(m) ==
  LET full == RunCommand(m, "nvidia-smi") IN full.ran /\ ~ full.ok /\ full.unknown_field
QuerySmi(m) == IF SmiIsOld(m) THEN m.legacy_smi ELSE RunCommand(m, "nvidia-smi")
Fields(m) == IF SmiIsOld(m) THEN 4 ELSE 5
Devices(output) == {n \in DOMAIN output : output[n] # 0}

ProbeGpu(m) ==
  LET answer == QuerySmi(m) IN
  IF ~ answer.ran THEN "missing"
  ELSE IF ~ answer.ok \/ \E n \in Devices(answer.output) : answer.output[n] # Fields(m)
  THEN "error"
  ELSE IF Devices(answer.output) = {} THEN "missing" ELSE "ok"

ProbeCudaToolkit(m) ==
  LET answer == RunCommand(m, "nvcc") IN
  IF ~ answer.ran THEN "missing" ELSE IF answer.ok THEN "ok" ELSE "error"

\* Only what fails with ImportError and was never installed is missing.
ProbeTensorrt(m) ==
  [ok |-> "ok", raises |-> "error",
   not_found |-> IF Installed(m, "tensorrt") THEN "error" ELSE "missing"][Import(m, "tensorrt")]

ProbeOnnx(m) == IF Installed(m, "onnx") THEN "ok" ELSE "missing"

ProbeOnnxruntime(m) ==
  IF ~ Installed(m, "onnxruntime") THEN "missing"
  ELSE IF Import(m, "onnxruntime") = "ok" THEN "ok" ELSE "error"

ProbeTritonclient(m) ==
  IF ~ Installed(m, "tritonclient") THEN "missing"
  ELSE IF Found(m, "geventhttpclient") /\ Found(m, "grpc") THEN "ok" ELSE "error"

ProbeDocker(m) ==
  LET info == RunCommand(m, "docker") IN
  IF ~ Which(m, "docker") THEN "missing"
  ELSE IF info.ran /\ info.ok THEN "ok" ELSE "error"

ProbeNvidiaRuntime(m) ==
  IF ProbeDocker(m) = "ok" /\ "nvidia" \in RunCommand(m, "docker").output
  THEN "ok" ELSE "missing"

ProbeTritonserver(m) == IF Which(m, "tritonserver") THEN "ok" ELSE "missing"

ProbeAll(m) ==
  [python |-> ProbePython(m), torch |-> ProbeTorch(m), torch_cuda |-> ProbeTorchCuda(m),
   nvidia_gpu |-> ProbeGpu(m), cuda_toolkit |-> ProbeCudaToolkit(m),
   tensorrt |-> ProbeTensorrt(m), onnx |-> ProbeOnnx(m), onnxruntime |-> ProbeOnnxruntime(m),
   tritonclient |-> ProbeTritonclient(m), docker |-> ProbeDocker(m),
   docker_nvidia_runtime |-> ProbeNvidiaRuntime(m), tritonserver |-> ProbeTritonserver(m)]

(* --- doctor --- *)

Known ==
  {"python", "torch", "torch_cuda", "nvidia_gpu", "cuda_toolkit", "tensorrt", "onnx",
   "onnxruntime", "tritonclient", "docker", "docker_nvidia_runtime", "tritonserver"}

CoreCapabilities == {"python", "torch", "onnx", "onnxruntime"}

NeedsOfArea ==
  [export |-> CoreCapabilities, tensorrt |-> {"nvidia_gpu", "tensorrt"},
   serving |-> {"docker", "docker_nvidia_runtime"}, client |-> {"tritonclient"}]

Readiness(report) ==
  {area \in DOMAIN NeedsOfArea : \A name \in NeedsOfArea[area] : report[name] = "ok"}

Failures(report, required) ==
  {name \in CoreCapabilities \cup required : report[name] # "ok"}

(* --- the other commands: each capability is required in this order --- *)
(* server_cmd.py; build_cmd.py:36, calibrate_cmd.py:32, validate_cmd.py:91 and 152, *)
(* benchmark_cmd.py:115 and 196.                                                    *)

Tensorrt == <<"nvidia_gpu", "tensorrt">>

Requirements ==
  [build |-> Tensorrt, calibrate |-> Append(Tensorrt, "torch_cuda"),
   validate_engine |-> Append(Tensorrt, "torch_cuda"),
   benchmark_engine |-> Append(Tensorrt, "torch_cuda"),
   serve |-> <<"docker", "docker_nvidia_runtime">>, stop |-> <<"docker">>,
   status |-> <<"docker">>, validate_triton |-> <<"tritonclient">>,
   benchmark_triton |-> <<"tritonclient">>]

\* The capability whose absence is reported: the first one that is not usable.
Lacking(report, names) == {n \in DOMAIN names : report[names[n]] # "ok"}
Require(report, names) ==
  LET lacking == Lacking(report, names) IN
  IF lacking = {} THEN "usable"
  ELSE names[CHOOSE n \in lacking : \A i \in lacking : n <= i]
=============================================================================
