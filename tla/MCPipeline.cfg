\* Two run directories share a cache; three invocations, one fault, any edits of the weights.
CONSTANTS
    StageName = {"export", "optimize", "calibrate", "build"}
    ArtifactType = {"onnx", "onnx_optimized", "report", "calibration_cache", "engine"}
    Name = {"onnx", "onnx_optimized", "report", "calibration_cache", "engine"}
    Content <- MCContent
    MaxVersion = 4
    Order <- MCOrder
    Requires <- MCRequires
    Uses <- MCUses
    Outputs <- MCOutputs
    Cacheable = {"export", "optimize", "calibrate", "build"}
    Skipped = {"calibrate"}
    DependsOnModel = {"export", "optimize", "calibrate"}
    LoadsModel = {"export", "optimize", "calibrate", "build"}
    FromModel = {"export"}
    Compares = {"optimize"}
    Salted = {"report", "engine"}
    Weights = {1, 2}
    NoWeights = 0
    MaxContent = 12
    MaxInvocations = 3
    MaxRuns = 2
    MaxFaults = 1
    MayDelete = TRUE
    MayRevert = TRUE
SPECIFICATION Spec
INVARIANTS SuccessMatchesModel InputsAreCurrent RerunIsNoop KeyDescribesOutputs ParentsAreSources
PROPERTY RunRecovers
CHECK_DEADLOCK FALSE
