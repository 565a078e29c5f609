CONSTANTS
  Proc = {p, q}
  NB = 7
  BSIZE = 2
  NDIRECT = 1
  BPB = 1
  MAXOPBLOCKS = 6
  FileSizes <- MCFileSizes
  Files = {2, 3}
  Writes = {3}
  MaxWrites = 3
SPECIFICATION Spec
SYMMETRY Sym
INVARIANTS BlocksAccounted ReadsBack WithinReservation OffsetStable
