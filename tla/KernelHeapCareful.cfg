SPECIFICATION CarefulSpec
CONSTANTS
  NumEntries = 5
  MaxPages = 4
  AddressPages = 16
  Frames = {0, 1, 2, 3}
  NoFrame = NoFrame
INVARIANTS
  SizesExact
  PagesExact
PROPERTIES
  BlocksAreOwned
