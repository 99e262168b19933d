CONSTANTS
  Identifier = {"x", "y", "b", "s"}
  None = None
  Synthetic = "synthetic"
  nan = nan
  NonFinite = {nan}
  NoLimit = NoLimit
  SymbolOrder <- SymbolOrderValue
  Cases <- ValidCases
  Settings <- MCSettings
  Tolerances <- MCTolerances
  Observed <- MCObserved
  Invocations <- MCInvocations
  LargestSize = 3
SPECIFICATION Spec
INVARIANTS BenchmarkFits ValidatedEngineIsModel AttributionIsRight DeclaredBatchesFit
  MeaningPreserved CalibrationIsConsistent PassMeansClose RejectedNeverPackaged
CHECK_DEADLOCK FALSE
