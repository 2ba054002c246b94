\* One thread, and CreateInfo may throw.
SPECIFICATION Spec
CONSTANTS
  Country = {c1}
  Version = {1, 2, 3}
  Info = {i1, i2, i3, i4}
  Handle = {h1, h2}
  Thread = {t1}
  CacheSize = 1
  InfoOutcome = {"ok", "throw"}
  ValueOutcome = {"ok", "toomany", "throw"}
  ClearAllowed = FALSE
  NoInfo = NoInfo
  NoFile = NoFile
INVARIANT ObserverTrustsNoDeadMap
