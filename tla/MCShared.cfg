SPECIFICATION Spec
CONSTANTS
  A = {a1, a2}  B = {b1, b2, b3}  D = {blk1, blk2, blk3}
  D4 = {blk4}  Sectors = {n1, n2}  W = {w0, w1}  w0 = w0
  MaxPins = 1  NUM = 6  Wrap = 12
  init = init  MaxCond = 2
  Letter = Letter  NL = NL  CR = CR  CtrlD = CtrlD  CtrlU = CtrlU  CtrlP = CtrlP  BS = BS
  INPUT_BUF_SIZE = 3  WrapC = 6  MaxN = 2
  None = None
SYMMETRY Sym
VIEW View
INVARIANTS RefcntExact SeesLatest SleeperHasHolder Transferred OneCpuPerStack NoMissedWakeup ConsoleSleepersHaveReason
PROPERTIES ImplementsLineQueue
