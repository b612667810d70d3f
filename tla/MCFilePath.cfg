SPECIFICATION Spec
CONSTANTS
  a = a
  b = b
  Blank = Blank
  Nul = Nul
  Chars <- MCChars
  MaxStrlen = 4
  MaxLength = 4
INVARIANTS
  Terminated
  RequestedOpened
