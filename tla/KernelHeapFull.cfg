SPECIFICATION Spec
CONSTANTS
  NumEntries = 4
  MaxPages = 3
  AddressPages = 16
  Frames = {0, 1, 2}
  NoFrame = NoFrame
PROPERTIES
  FullGivesNull
