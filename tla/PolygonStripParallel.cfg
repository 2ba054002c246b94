SPECIFICATION Spec
CONSTANTS
  w1 = w1
  w2 = w2
  Worker = {w1, w2}
  Sizes = {5}
  WorkPerTask = 50
SYMMETRY MCSymmetry
INVARIANT
  StripIsFound
