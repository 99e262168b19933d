\* A file of the run is deleted between two invocations.
CONSTANTS
    StageName = {"export", "optimize", "calibrate", "build"}
    ArtifactType = {"onnx", "onnx_optimized", "report", "calibration_cache", "engine"}
    Name = {"onnx", "onnx_optimized", "report", "calibration_cache", "engine"}
    Content <- MCContent
    MaxVersion = 4
    Order <- MCOrder
    Requires <- MCRequires
    Uses <- MCUses
    Outputs <- MCOutputs
    Cacheable = {"export", "optimize", "calibrate", "build"}
    Skipped = {"calibrate"}
    DependsOnModel = {"export", "optimize", "calibrate"}
    LoadsModel = {"export", "optimize", "calibrate", "build"}
    FromModel = {"export"}
    Compares = {"optimize"}
    Salted = {"report", "engine"}
    Weights = {1, 2}
    NoWeights = 0
    MaxContent = 12
    MaxInvocations = 2
    MaxRuns = 2
    MaxFaults = 1
    MayDelete = TRUE
    MayRevert = FALSE
SPECIFICATION Spec
INVARIANT MissingIsRebuilt
CHECK_DEADLOCK FALSE
