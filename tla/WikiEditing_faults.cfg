SPECIFICATION FairSpec
CONSTANTS
  Editor = {e1}
  Stray = stray
  NoDocument = nodoc
  Scalar = {title}
  Block = {b1}
  Text = {t1, t2}
  Kind = {"page", "draft"}
  MaxEdits = 3
  MaxLosses = 1
  MaxResets = 1
INVARIANTS AtRestMeansPersisted
PROPERTIES NoSaveAcrossGenerations Settles
CHECK_DEADLOCK FALSE
