SPECIFICATION FairSpec
CONSTANTS
  Threads = {t1, t2}
  Spaces = {"io", "mem"}
  Extent = 2
  MaxLen = 2
  Bytes = {0, 1}
  Zero = 0
  Widths = {1, 2}
  Long = 4
  Mark = 1
  Status <- StatusRegister
  NoThread = NoThread
INVARIANTS TypeOK
PROPERTIES AtomicRegisters CallsReturn
