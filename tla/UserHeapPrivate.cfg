SPECIFICATION PrivateSpec
CONSTANTS
  Heaps = {h1, h2, h3}
  NoHeap = NoHeap
  Pages = {0}
  Frames = {0, 1, 2, 3, 4, 5, 6, 7, 8, 9, 10}
  DeviceFrames = {100}
  NoFrame = NoFrame
  Values = {v1, v2}
  PagesPerTable = 1
  FramesPerLevel1 = 16
  PageTables <- MCPageTables
  TableOf <- MCTableOf
  Level1s <- MCLevel1s
  Level1Of <- MCLevel1Of
SYMMETRY HeapSymmetry
VIEW FrameView
INVARIANTS
  WritableExclusive
PROPERTIES
  HeapsArePrivate
