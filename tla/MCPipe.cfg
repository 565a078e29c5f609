SPECIFICATION FairSpec
CONSTANTS
  Writers = {w1}
  Readers = {r1, r2}
  Byte = {a, b}
  PIPESIZE = 2
  Wrap = 4
  Lengths = {0, 2}
  None = None
PROPERTIES CallsReturn ImplementsFifo
CHECK_DEADLOCK FALSE
