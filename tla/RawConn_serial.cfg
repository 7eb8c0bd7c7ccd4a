\* A client that waits for each answer before it sends the next request.
SPECIFICATION FairSpec
CONSTANTS
  ReadBufSize = 4
  MaxRequestSize = 8
  MaxConns = 2
  Pipelining = FALSE
  Workloads <- MCWorkloads
INVARIANTS PathsMatch
PROPERTIES HttpSpec
\* The bound MaxConns ends the behaviour.
CHECK_DEADLOCK FALSE
