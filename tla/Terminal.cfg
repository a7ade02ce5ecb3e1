SPECIFICATION TerminalSpec
CONSTANTS
  BufSize = 3
  MaxTyped = 6
  Letters = {a}
  Backspace = Backspace
  Enter = Enter
  Zero = Zero
  Blank = Blank
  Width = 1
  Height = 1
  Sizes = {3}
INVARIANTS
  TypeOK
PROPERTIES
  BufferIsQueue
  LineIsTyped
  LineReturns
