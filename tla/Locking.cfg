SPECIFICATION Spec
CONSTANTS
  Heaps = {h1, h2, h3}
  NoHeap = NoHeap
  MaxHeapCalls = 3
INVARIANTS
  TypeOK
  HeapIsUninterrupted
  LockHeldOnlyInCall
PROPERTIES
  CallsReturn
