CONSTANTS
  Keys = {k1, k2, k3, k4}
  Sizes = {1, 2, 4}
  SmallMem = 3
  LargeMem = 6
  Wrap = 1024
SPECIFICATION Spec
INVARIANT Inclusion
PROPERTY CurveIsRight
