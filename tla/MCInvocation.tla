----------------------------- MODULE MCInvocation -----------------------------
(* Every table of three stages is ordered; commands run for three of them, over  *)
(* all option values, three capability verdicts and two roots with one run each. *)
EXTENDS Invocation

CONSTANTS misspelled, onnx, engine, every, few, late, runs_root, other_root, r1

Chain == [c |-> <<{}, {onnx}, {engine}>>, p |-> <<{onnx}, {engine}, {}>>]
Backward == [c |-> <<{engine}, {onnx}, {}>>, p |-> <<{}, {engine}, {onnx}>>]
Free == [c |-> <<{}, {onnx}, {}>>, p |-> <<{onnx}, {}, {engine}>>]
MCTables == {Chain, Backward, Free}

Value == Stage \cup {None}
MCOptions ==
  [from : Value, only : Value, until : Value]
    \cup {[from |-> None, only |-> None, until |-> misspelled]}

MCDefaults == [tensorrt |-> every, artifacts |-> runs_root]
MCFiles == {<< >>}
MCEnvirons == {<< >>, [tensorrt |-> few]}
MCOverrides == {<< >>, [tensorrt |-> few], [tensorrt |-> late], [artifacts |-> other_root]}
MCSkipped(v) == IF v = few THEN {2} ELSE IF v = late THEN {1} ELSE {}
MCNeeds == <<{}, {"nvidia_gpu", "tensorrt"}, {"nvidia_gpu", "torch_cuda", "tensorrt"}>>

Distributions == {"torch", "onnx", "onnxruntime", "tritonclient", "tensorrt"}
Modules == Distributions \cup {"geventhttpclient", "grpc"}
Tools == {"nvidia-smi", "nvcc", "docker", "tritonserver"}

\* Everything works, with a driver that does not know the compute capability.
Whole ==
  [python_is_recent |-> TRUE, path |-> Tools, cuda |-> "available",
   answers |-> [t \in Tools |-> IF t = "nvidia-smi" THEN UnknownField
                                ELSE IF t = "docker" THEN Prints({"runc", "nvidia"})
                                ELSE Prints({})],
   legacy_smi |-> Prints(<<4, 0, 4>>),
   distributions |-> Distributions, imports |-> [i \in Modules |-> "ok"]]

MCMachines ==
  {Whole,
   [Whole EXCEPT !.cuda = "cpu_build", !.path = Tools \ {"nvcc", "tritonserver"},
                 !.answers["docker"] = Prints({"runc"})],
   [Whole EXCEPT !.legacy_smi = Fails, !.cuda = "no_device", !.answers["docker"] = CutOff,
                 !.imports["tensorrt"] = "not_found",
                 !.distributions = Distributions \ {"onnx"}]}
MCRequests == {{}, {"tensorrt", "docker"}, {misspelled}}
=============================================================================
