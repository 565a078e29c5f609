CONSTANTS
  Page <- MCPage
  PGSIZE = 4
  NPTE = 4
  Trampoline = 100
  Proc = {1, 2}
  Init0 = 1
  Deltas <- MCDeltas
  Programs <- MCPrograms
  Args <- MCArgs
  MAXARG = 2
  USERSTACK = 1
  ALIGN = 2
  PTR = 1
  WORD = 1000
  MaxCalls = 6
SPECIFICATION Spec
INVARIANTS PagesAccounted ImageExact
CHECK_DEADLOCK FALSE
