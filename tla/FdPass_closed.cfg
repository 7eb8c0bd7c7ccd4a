SPECIFICATION Spec
CONSTANTS
  NumClients = 2
  Upstreams = 2
  CounterMod = 2
  SockCap = 1
  ChanCap = 1
  MaxRestarts = 1
  Faults = TRUE
INVARIANTS EveryFdPushed
\* The bounds NumClients and MaxRestarts end the behaviour.
CHECK_DEADLOCK FALSE
