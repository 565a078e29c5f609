SPECIFICATION FairSpec
CONSTANTS
  Proc = {p1, p2}
  Block = {b1, b2, b3}
  Val = {v0, v1}
  InitVal = v0
  Torn = Torn
  NoBuf = NoBuf
  MAXOPBLOCKS = 2
  LOGSIZE = 4
  LogSize = 4
  OpBlocks = 1
INVARIANTS CommitAlone PinnedUntilInstalled NoPanic
PROPERTIES WriteAhead CrashAtomic SleeperWoken
