CONSTANTS
  Keys = {k1, k2, k3}
  Sizes = {1, 2, 3}
  Wrap = 1024
SPECIFICATION Spec
PROPERTY CompulsoryMissIsMiss
