CONSTANTS
  Proc = {1, 2}
  Proc1 = 1
  Inum = {1, 2, 3, 4}
  Starts <- MCStarts
  Names = {"a", "b"}
  File = {1}
  NOFILE = 2
  NINODE = 3
  Calls <- MCCalls
  MaxOps = 2
  MaxCalls = 3
SPECIFICATION Spec
INVARIANTS RefsExact CopyCurrent EntriesBacked OnlyPanics
CHECK_DEADLOCK FALSE
PROPERTY CallsReturn
