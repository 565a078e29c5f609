SPECIFICATION Spec
CONSTANTS
  Keys = {"c", "d", " ", "e"}
  CD <- cd
  Entries <- Directory
  DIRSIZ = 2
  MAX_HISTORY = 2
  max = 6
  MaxLines = 1
  MaxGiven = 5
INVARIANT CdAsTyped
CHECK_DEADLOCK FALSE
