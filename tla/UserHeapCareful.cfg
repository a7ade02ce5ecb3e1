SPECIFICATION CarefulSpec
CONSTANTS
  Heaps = {h1, h2}
  NoHeap = NoHeap
  Pages = {0, 1}
  Frames = {0, 1, 2, 3, 4, 5, 6, 7, 8}
  DeviceFrames = {100}
  NoFrame = NoFrame
  Values = {v1}
  PagesPerTable = 2
  FramesPerLevel1 = 16
  PageTables <- MCPageTables
  TableOf <- MCTableOf
  Level1s <- MCLevel1s
  Level1Of <- MCLevel1Of
SYMMETRY HeapSymmetry
VIEW FrameView
INVARIANTS
  TakenExactly
  OneOwner
