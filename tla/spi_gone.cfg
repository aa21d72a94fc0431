SPECIFICATION Spec
CONSTANTS
  Threads = {t1}
  SpiModes <- TwoModes
  MaxLen = 2
  NoThread = NoThread
PROPERTY OkMeansShifted
