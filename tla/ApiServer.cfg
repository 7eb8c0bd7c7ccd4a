SPECIFICATION FairSpec
CONSTANTS
  c1 = c1
  c2 = c2
  s1 = s1
  s2 = s2
  b1 = b1
  b2 = b2
  Conns = {c1, c2}
  Scratches = {s1, s2}
  Buffers = {b1, b2}
  ShedSlots = 1
  MaxRequests = 3
INVARIANTS TypeOK DefaultsCounted ReadyIsFinal SlotsHeld OwnVerdict
PROPERTIES Answered ServiceSpec
\* The bound MaxRequests, and the end of the process, end the behaviour.
CHECK_DEADLOCK FALSE
