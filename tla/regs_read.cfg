SPECIFICATION Spec
CONSTANTS
  Threads = {t1}
  Spaces = {"mem"}
  Extent = 2
  MaxLen = 2
  Bytes = {0, 1}
  Zero = 0
  Widths = {1, 2}
  Long = 8
  Mark = 1
  Status <- StatusRegister
  NoThread = NoThread
INVARIANT ReadKeepsNeighbours
