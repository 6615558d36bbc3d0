SPECIFICATION Spec
\* Indices of three bits and eight pushes, so that both indices wrap around to zero; the requests
\* give buffers of one, two and four slots.
CONSTANTS
  Modulus = 8
  Requested = {0, 2, 3}
  MaxPushes = 8
INVARIANTS
  NoDataRace
  SizeSane
PROPERTIES
  ImplementsFifo
CHECK_DEADLOCK FALSE
