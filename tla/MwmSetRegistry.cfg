\* Two countries, two threads, every failure of CreateInfo and CreateValue.
SPECIFICATION Spec
CONSTANTS
  Country = {c1, c2}
  Version = {1, 2}
  Info = {i1, i2, i3}
  Handle = {h1, h2}
  Thread = {t1, t2}
  CacheSize = 2
  InfoOutcome = {"ok", "unsupported", "throw"}
  ValueOutcome = {"ok", "toomany", "throw"}
  ClearAllowed = TRUE
  NoInfo = NoInfo
  NoFile = NoFile
SYMMETRY Interchangeable
INVARIANTS
  TypeOK
  CacheBounded
  RefsCountHandles
  HandlesPinMaps
  MarkedIsLocked
  RegistryOrdered
  LoadedIffRegistered
PROPERTIES
  DeregisteredIsFinal
  LoadedVersionNeverDrops
