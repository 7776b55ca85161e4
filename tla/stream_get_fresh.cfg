SPECIFICATION Spec
CONSTANTS
  Byte = {10, 97}
  Newline = 10
  Junk = Junk
  BUFSIZ = 2
  MaxFile = 2
  MaxCall = 2
  Modes = {"r+"}
  Habits = {"get_fresh"}
  Faults = {}
INVARIANTS
  NoJunkRead
