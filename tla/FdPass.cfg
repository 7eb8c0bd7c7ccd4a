SPECIFICATION FairSpec
CONSTANTS
  NumClients = 3
  Upstreams = 2
  CounterMod = 2
  SockCap = 1
  ChanCap = 1
  MaxRestarts = 1
  Faults = FALSE
INVARIANTS TypeOK Balanced OneLossPerRestart NobodyLost
PROPERTIES Settled DispatchSpec
\* The bounds NumClients and MaxRestarts end the behaviour.
CHECK_DEADLOCK FALSE
