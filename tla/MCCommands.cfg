CONSTANTS
  None = None
  Torn = Torn
  Process = {p, q}
  Exported = {g, h}
  Datasets = {1, 2}
  MaxBuilds = 2
  MaxEvents = 2
SPECIFICATION Spec
SYMMETRY Processes
INVARIANTS PackagedPair NoLitter AdoptionMatches
PROPERTIES NeverOverwritten
CHECK_DEADLOCK FALSE
