SPECIFICATION FairSpec
CONSTANTS
  Devs = {d1, d2}
  Files = {f1}
  CountMod = 3
  Surprise = FALSE
  MaxPlugs = 1
  PrivateHead = PrivateHead
  Freed = Freed
INVARIANTS TypeOK HandlerHasDevice NothingLeaks SafeUse UniqueMinors OpenFindsDevice FrameworkOutlives
PROPERTIES LoadSettles CallsReturn
