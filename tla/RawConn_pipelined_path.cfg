\* Requests sent ahead: is each one still routed by its own path?
SPECIFICATION Spec
CONSTANTS
  ReadBufSize = 4
  MaxRequestSize = 8
  MaxConns = 2
  Pipelining = TRUE
  Workloads <- MCWorkloads
INVARIANT PathsMatch
CHECK_DEADLOCK FALSE
