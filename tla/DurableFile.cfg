\* One writer at a time, which may fail at any point, and losses of power.
CONSTANTS
  w1 = w1  i1 = i1  i2 = i2  i3 = i3
  None = None
  Writers = {w1}
  Inodes = {i1, i2, i3}
  Chunks = 2
  HomeIsKept = TRUE
  MaxWrites = 3
  MaxLosses = 2
SPECIFICATION Spec
SYMMETRY InodeSymmetry
INVARIANTS AckedIsKept
PROPERTIES ImplementsCell
CHECK_DEADLOCK FALSE
