CONSTANTS
  Procs = {p1, p2}
  Clocks = {9, 107, 127}
  Ticks = {9, 127}
  IntMax = 127
  Size = 7
  MaxReads = 3
  MaxWrites = 2
SPECIFICATION Spec
INVARIANTS ReadsOwnTime
PROPERTIES SetsWhatItRead
SYMMETRY Symmetry
CHECK_DEADLOCK FALSE
