SPECIFICATION Spec
CONSTANTS
  Libraries = {inner, outer, other}
  Inner = inner
  Outer = outer
  None = none
  MaxLibraries = 3
  Sids = {sid, sid2, longsid}
  LongSids = {longsid}
  MaxSids = 1
  Sizes = {1, 3, 9, 33}
  Largest = 58
  SystemLargest = 10
  Reads = 1
  Lists = 2
  Batch = 1
INVARIANTS
  LibraryLive
  UserRight
  BufferThere
PROPERTIES
  ScanReturns
CHECK_DEADLOCK FALSE
