SPECIFICATION Spec
CONSTANTS
  NPROC = 2
  MaxPid = 3
  KillPids = {0, 2}
  None = None
INVARIANT KilledOnlyIfAsked
