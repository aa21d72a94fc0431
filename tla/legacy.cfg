\* Two users, two routines and two open files; three devices to probe; one or two
\* calls on registers a few bytes wide; two device nodes and short texts.
CONSTANTS
  Client = {c1, c2}
  Kid = {k1, k2}
  File = {f1, f2}
  MaxIrq = 2
  None = none
  Dev = {d1, d2, d3}
  NoDev = none
  Long = 8
  CfgSize = 8
  IntLine = 3
  IoRange = 4
  MemRange = 5
  VerLen = 9
  MemLen = 11
  Limit = 10
  Buffers = {0, 6}
  MaxCalls = 2
  Node = {0, 1}
  MaxFds = 2
  Text <- Texts
  Datum = {0, 161}
  UInt = 65536
  CfgOffsets = 256
  TypedIoMax = 255
  TypedMemMax = 160
  IoBase = 512
  MemBase = 1000
SPECIFICATION Spec
INVARIANTS
  TypeOK
  SoleUserFreesIrq
  ExitReleasesListed
  DemoTellsTruth
PROPERTIES
  PostedIsSeen
  SuccessMeansDone
CHECK_DEADLOCK FALSE
