SPECIFICATION Spec
CONSTANTS
  Reader = {p1}
  Plain = {x}
  NL = NL  CR = CR  CtrlD = CtrlD  CtrlU = CtrlU  CtrlP = CtrlP  BS = BS
  Keys = {x, CR, CtrlD, CtrlP, BS}
  Modes = {TRUE, FALSE}
  INPUT_BUF_SIZE = 2
  Wrap = 6
  MaxN = 2
  None = None
SYMMETRY Sym
INVARIANT RingNotOverrun
