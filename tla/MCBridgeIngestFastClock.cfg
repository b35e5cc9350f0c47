CONSTANTS
  Bridges = {b1}
  Uploads = {u1}
  Requests = {r1, r2}
  Skew = 2
  Ahead = 2
  Behind = 1
  Stall = 0
  Fractions = 2
  LastSecond = 7
  None = None
SPECIFICATION Spec
INVARIANT AtMostOnce
SYMMETRY RequestSymmetry
CHECK_DEADLOCK FALSE
