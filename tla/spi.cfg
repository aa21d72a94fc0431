SPECIFICATION FairSpec
CONSTANTS
  Threads = {t1, t2}
  SpiModes <- TwoModes
  MaxLen = 2
  NoThread = NoThread
INVARIANTS TypeOK FrameIntact ModeSteady PinsRestored
PROPERTIES CallsReturn
