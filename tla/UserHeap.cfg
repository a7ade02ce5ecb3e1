SPECIFICATION Spec
CONSTANTS
  Heaps = {h1, h2}
  NoHeap = NoHeap
  Pages = {0}
  Frames = {0, 1, 2, 3, 4, 5, 6}
  DeviceFrames = {}
  NoFrame = NoFrame
  Values = {v1}
  PagesPerTable = 1
  FramesPerLevel1 = 4
  PageTables <- MCPageTables
  TableOf <- MCTableOf
  Level1s <- MCLevel1s
  Level1Of <- MCLevel1Of
SYMMETRY HeapSymmetry
INVARIANTS
  TypeOK
  RefCountExact
  NeverBadRefCount
  Level1Exact
  NoLeak
  EntriesHaveTables
