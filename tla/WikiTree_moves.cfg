SPECIFICATION Spec
CONSTANTS
  Page = {a, b, c, n}
  Draft = {n}
  Worker = {w1, w2}
  Root = Root
  NoOne = NoOne
  MaxVersion = 2
  MaxEdited = 2
  MaxSaves = 1
  MaxBeside = 1
SYMMETRY TreeSymmetry
INVARIANTS OrphansArePublished CyclesPassThroughPublished
PROPERTIES MovesRespectHistory
CHECK_DEADLOCK FALSE
