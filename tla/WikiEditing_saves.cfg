SPECIFICATION Spec
CONSTANTS
  Editor = {e1, e2}
  Stray = stray
  NoDocument = nodoc
  Scalar = {}
  Block = {b1, b2}
  Text = {t1, t2, t3}
  Kind = {"page", "draft"}
  MaxEdits = 3
  MaxLosses = 1
  MaxResets = 0
SYMMETRY EditingSymmetry
INVARIANTS PageSaveNeverConflictsWithItself
PROPERTIES NoSilentLoss AnswersKeepTyping
CHECK_DEADLOCK FALSE
