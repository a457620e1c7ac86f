SPECIFICATION Spec
CONSTANTS
  Page = {a, b, n}
  Draft = {n}
  Worker = {w1, w2}
  Root = Root
  NoOne = NoOne
  MaxVersion = 2
  MaxEdited = 2
  MaxSaves = 1
  MaxBeside = 2
SYMMETRY TreeSymmetry
INVARIANTS Forest
CHECK_DEADLOCK FALSE
