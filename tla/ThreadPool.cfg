SPECIFICATION Spec
CONSTANTS
  Worker = {w1, w2}
  Client = {c1, c2}
  MaxTasks = 2
INVARIANTS
  TypeOK
  PendingIsOwned
  StartOrder
  ExitedIsComplete
  PerformWaits
PROPERTIES
  ImplementsTaskPool
  AcceptedEnds
  JoinReturns
  PerformEnds
