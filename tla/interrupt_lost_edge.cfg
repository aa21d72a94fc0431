SPECIFICATION Spec
CONSTANTS
  Threads = {t1}
  Files = {f1}
  Chips = {"CH367", "CH368"}
  Modes = {"LOW", "HIGH", "RISING", "FALLING"}
  Switching = FALSE
  SharedLine = TRUE
  LatchWhenOff = FALSE
  NoThread = NoThread
INVARIANT NoEdgeLost
