SPECIFICATION Spec
CONSTANTS
  Source = {s1}
  Scoped = {s1}
  Switchable = {}
  Worker = {w1, w2}
  Run = {1, 2, 3}
  Menu = {m1}
  EmptyMenu = empty
  Key = {k1, k2}
  Refresh <- MCRefresh
  ClaimDuration = 1
  PollDuration = 0
  Retention = 3
  MaxTime = 4
  WindowLength = 3
  ClaimsDelay = 0
  MaxWindowFailures = 2
  FirstRetryDelay = 1
  LaterRetryDelay = 1
  EmptyMin = 1
  EmptyMax = 2
  MinRepeat = 1
  RefreshAfter = 2
  NoOne = NoOne
  NoSource = NoSource
  NoMenu = NoMenu
  NoKey = NoKey
SYMMETRY WorkerSymmetry
INVARIANTS EmptyMenuConfirmed RetryBudget
CHECK_DEADLOCK FALSE
