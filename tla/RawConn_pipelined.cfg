\* A client that may send requests ahead of the answers.
SPECIFICATION FairSpec
CONSTANTS
  ReadBufSize = 4
  MaxRequestSize = 8
  MaxConns = 2
  Pipelining = TRUE
  Workloads <- MCWorkloads
INVARIANTS TypeOK ReadHasRoom BodiesMatch ClosedForCause
PROPERTIES FittingAnswered
\* The bound MaxConns ends the behaviour.
CHECK_DEADLOCK FALSE
