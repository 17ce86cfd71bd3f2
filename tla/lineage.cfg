\* Every graph of four nodes, with cycles, diamonds and loops, to every depth.
CONSTANTS
  Node = {a, b, c, d}
  start = a
  MAX_DEPTH = 3
SPECIFICATION LineageSpec
SYMMETRY Symmetry
INVARIANTS
  RowsArePaths
  LineageIsExact
  SpecialQueryIsExact
