SPECIFICATION Spec
CONSTANTS
  NumEntries = 3
  MaxPages = 3
  AddressPages = 16
  Frames = {0, 1}
  NoFrame = NoFrame
INVARIANTS
  TypeOK
  FramesExact
