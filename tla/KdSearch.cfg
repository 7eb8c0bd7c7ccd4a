SPECIFICATION Spec
CONSTANTS
  Dims = 2
  Lanes = 2
  Pad = 10
  Infinity = 400
  KeyTests <- MCKeyTests
  LeafSize = 3
  Datasets <- MCDatasets
  Queries <- MCQueries
  StackCap = 2
  KernelSafety = 2
  FloatError = 2
INVARIANTS TypeOK TreesSound NearestFive
PROPERTY Ends
