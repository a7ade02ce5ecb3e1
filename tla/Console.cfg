SPECIFICATION Spec
CONSTANTS
  Width = 2
  Height = 3
  Letters = {a, b}
  Blank = Blank
  Zero = Zero
  Sizes = {1, 3, 5}
INVARIANTS
  TypeOK
  CursorOnScreen
  LineOnScreen
PROPERTIES
  LineIsEdited
