SPECIFICATION Spec
CONSTANTS
  Byte = {10, 97}
  Newline = 10
  Junk = Junk
  BUFSIZ = 2
  MaxFile = 3
  MaxCall = 3
  Modes = {"r", "stdin", "w", "stdout"}
  Habits = {}
  Faults = {"read", "write", "lseek", "close"}
INVARIANTS
  BufferInBounds
  ReadsTheFile
PROPERTIES
  WritesItsBytes
