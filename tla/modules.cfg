\* Every plan, every failure and every callback beside it; a counter of eight
\* ticks that wraps after three; two users of the files.
CONSTANTS
  Module <- Modules
  Resource <- Resources
  Plan <- Plans
  Leaky <- LeakyModules
  Unsynced <- UnsyncedModules
  Careless <- CarelessModules
  EarlyNode <- EarlyNodeModules
  Blocking = {"sdio"}
  Window = 3
  Wrap = 8
  Boot = 5
  MaxClock = 14
  User = {u1, u2}
  MaxMaps = 3
SPECIFICATION Spec
INVARIANTS
  TypeOK
  NothingLeftBehind
  CallbackHasModule
  OpenFileHasModule
  ReleasesOwn
  DebounceExact
  LedAlone
  ReaderAlone
PROPERTIES
  ExitReturns
  PressFlips
CHECK_DEADLOCK FALSE
