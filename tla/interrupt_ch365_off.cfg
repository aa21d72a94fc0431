SPECIFICATION Spec
CONSTANTS
  Threads = {t1}
  Files = {f1}
  Chips = {"CH365"}
  Modes = {"LOW", "HIGH", "RISING", "FALLING"}
  Switching = FALSE
  SharedLine = TRUE
  LatchWhenOff = FALSE
  NoThread = NoThread
INVARIANT DisabledIsQuiet
