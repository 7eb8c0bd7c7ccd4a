SPECIFICATION Spec
CONSTANTS
  Dims = 2
  Lanes = 2
  K = 5
  Pad = 10
  Infinity = 400
  Datasets <- MCDatasets
  Queries <- MCQueries
  FastNProbe = 1
  EscalateN <- MCEscalateN
  Threshold <- MCThreshold
  KernelSafety = 2
  FloatError = 2
  MaxRuns = 1
INVARIANTS IvfIsExact
\* The bound MaxRuns ends the behaviour.
CHECK_DEADLOCK FALSE
