SPECIFICATION Spec
CONSTANTS
  Editor = {e1}
  Stray = stray
  NoDocument = nodoc
  Scalar = {title}
  Block = {b1}
  Text = {t1, t2, t3}
  Kind = {"draft"}
  MaxEdits = 2
  MaxLosses = 0
  MaxResets = 0
INVARIANTS SaveNeverConflictsWithItself

CHECK_DEADLOCK FALSE
