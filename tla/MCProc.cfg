SPECIFICATION FairSpec
CONSTANTS
  NPROC = 4
  MaxPid = 5
  KillPids = {2, 3}
  None = None
INVARIANTS NoMissedExit KilledOnlyIfAsked
PROPERTIES OrphansReaped
