SPECIFICATION FairSpec
CONSTANTS
  Threads = {t1, t2}
  Files = {f1}
  Chips = {"CH365", "CH367"}
  Modes = {"LOW", "HIGH", "FALLING"}
  Switching = FALSE
  SharedLine = TRUE
  LatchWhenOff = TRUE
  NoThread = NoThread
INVARIANTS TypeOK ModeMatchesChip ClosedMeansDisabled AssertedIsClaimed
PROPERTIES GatedSignals EdgeIsServed CallsReturn
