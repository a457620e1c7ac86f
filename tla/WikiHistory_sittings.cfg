CONSTANTS
  Author = {a, b}
  Owner = a
  Worker = {w1, w2}
  Nobody = nobody
  Window = 3
  MaxClock = 6
  MaxTexts = 2
SPECIFICATION Spec
SYMMETRY Symmetry
CHECK_DEADLOCK FALSE
INVARIANTS
  HistoryKeepsEverySitting
  NewestRevisionIsThePage
  OneCreation
