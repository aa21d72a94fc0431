SPECIFICATION Spec
CONSTANTS
  Threads = {t1}
  Files = {f1}
  Chips = {"CH367"}
  Modes = {"LOW", "HIGH", "RISING", "FALLING"}
  Switching = TRUE
  SharedLine = TRUE
  LatchWhenOff = FALSE
  NoThread = NoThread
INVARIANT TriggerIsMode
