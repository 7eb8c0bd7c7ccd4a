\* A payload is read, a year walk and a calibration come to an end.
SPECIFICATION Spec
CONSTANTS
  IvfBuilds <- MCIvfBuilds
  KdBuilds <- MCKdBuilds
  Programs <- MCPrograms
  PerCluster = 2
  PerBlock = 2
  Bodies <- MCBodies
  FirstYears = {1, 1896, 1996, 2096}
  Years = 8
  Worsts = {0, 1, 2, 4}
  MaxRecords = 2
INVARIANTS LoadsWholeBuilds FieldsRight DocOrderAccepted DaysRight GateCatches
CHECK_DEADLOCK FALSE
