SPECIFICATION Spec
CONSTANTS
  NameA = NameA
  NameB = NameB
  Name = {NameA, NameB}
  Inputs <- MCInputs
  readersCount = 2
  kReadBlockLineCount = 2
INVARIANTS
  TypeOK
  CheckHolds
  ReadIsComplete
  DictionaryIsExact
  StatsAreSequential
  LookupFindsWhatWasRead
PROPERTY
  ReadEnds
