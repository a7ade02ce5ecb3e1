SPECIFICATION Spec
CONSTANTS
  WordBits = 16
  Sizes = {1, 4, 9, 40}
  Null = Null
  Calls <- MCCalls
  Numbers <- MCNumbers
  Longs <- MCLongs
  Texts <- MCTexts
  Size = 5
  Bytes = {0, 65, 97, 172}
  Separators = {172}
  AddressBits = 5
  PageSize = 2
  USER_HEAP_BASE = 8
  Counts = {1, 2, 15}
  Hints = {6, 11, 31}
  MaxHeld = 2
  PhysicalBits = 6
  FrameSize = 4
  KernelStart = 1
  e_placement = 16
  MemoryMaps <- MCMemoryMaps
  ModuleLists <- MCModuleLists
  Heaps = {h1, h2}
  NoHeap = NoHeap
  Pages = {0, 1}
  Frames = {1, 2, 3}
  Devices = {9}
SYMMETRY HeapSymmetry
VIEW SequentialView
INVARIANTS
  InBuffer
  RendersAsAsked
  RoundTrip
  CopiesAreExact
  CompareIsOrder
  TokensAreFields
  HeldIsOwned
  
  TranslationsHold
  NoWriteSneaksIn
  KernelAndModulesStay
  
PROPERTY
  ZeroMeansNone
