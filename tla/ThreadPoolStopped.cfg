SPECIFICATION Spec
CONSTANTS
  Worker = {w1, w2}
  Client = {c1, c2}
  MaxTasks = 2
SYMMETRY Interchangeable
INVARIANT
  StoppedCallIsIgnored
