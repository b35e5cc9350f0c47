CONSTANTS
  Bridges = {b1, b2}
  Uploads = {u1}
  Requests = {r1, r2}
  Skew = 3
  Ahead = 1
  Behind = 1
  Stall = 1
  Fractions = 2
  LastSecond = 8
  None = None
SPECIFICATION Spec
INVARIANTS
  TypeOK
  AtMostOnce
PROPERTIES
  KeepsPromise
  RevocationIsFinal
CHECK_DEADLOCK FALSE
