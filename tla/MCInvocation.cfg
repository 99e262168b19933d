CONSTANTS
  NumStages = 3
  onnx = onnx
  engine = engine
  ArtifactType = {onnx, engine}
  None = None
  every = every
  few = few
  late = late
  runs_root = runs_root
  other_root = other_root
  r1 = r1
  misspelled = misspelled
  RunId = {r1}
  Tables <- MCTables
  Options <- MCOptions
  Files <- MCFiles
  Environs <- MCEnvirons
  Overrides <- MCOverrides
  Defaults <- MCDefaults
  Skipped <- MCSkipped
  Needs <- MCNeeds
  Machines <- MCMachines
  Requests <- MCRequests
SPECIFICATION InvocationSpec
INVARIANTS ProducersFirst CycleExact TiesKeepOrder HintWorks NewRunFeedsItself ResumesWhatWasCreated
CHECK_DEADLOCK FALSE
