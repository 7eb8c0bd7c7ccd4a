SPECIFICATION Spec
CONSTANTS
  NumClients = 3
  Upstreams = 2
  CounterMod = 4
  SockCap = 1
  ChanCap = 1
  MaxRestarts = 1
  Faults = TRUE
INVARIANTS NoFdLeak
\* The bounds NumClients and MaxRestarts end the behaviour.
CHECK_DEADLOCK FALSE
