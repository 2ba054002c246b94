SPECIFICATION Spec
CONSTANTS
  w1 = w1
  w2 = w2
  Worker = {w1, w2}
  Sizes = {3, 4, 5, 6, 7}
  WorkPerTask = 100
SYMMETRY MCSymmetry
INVARIANTS
  AcceptedIndexMakesStrip
  ReturnedIndexMakesStrip
  SequentialFindsFirst
  OppositeIsTraversedWhenOdd
