SPECIFICATION Spec
CONSTANTS
  Tab = {t1, t2}
  Key = {k1, k2, k3}
  Payload = {"p", "q"}
  Precise = {"p"}
  Other = {o}
  MaxEdits = 1
  MaxMoves = 2
  MaxFaults = 1
  NoKey = NoKey
SYMMETRY PublishSymmetry
INVARIANTS TypeOK OnePlacePerDraft OneNotice PublishingIsUnderWay
PROPERTIES HandOffIsOfThisDraft DraftsKept
CHECK_DEADLOCK FALSE
