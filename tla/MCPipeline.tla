----------------------------- MODULE MCPipeline -----------------------------
(***************************************************************************)
(* Pipeline for TLC: export, optimize, calibrate and build with the inputs,*)
(* outputs and flags of pipeline/stages/; reports and engines are salted;  *)
(* the configuration asks for no int8 engine, so calibrate is skipped.     *)
(***************************************************************************)
EXTENDS Pipeline

MCOrder == <<"export", "optimize", "calibrate", "build">>
MCRequires == [export |-> {}, optimize |-> {"onnx"}, calibrate |-> {"onnx"},
               build |-> {"onnx"}]
MCUses == [export |-> {}, optimize |-> {}, calibrate |-> {"onnx_optimized"},
           build |-> {"onnx_optimized", "calibration_cache"}]
MCOutputs == [export |-> <<"onnx">>, optimize |-> <<"report", "onnx_optimized">>,
              calibrate |-> <<"calibration_cache">>, build |-> <<"engine">>]
MCContent == 0 .. MaxContent

=============================================================================
