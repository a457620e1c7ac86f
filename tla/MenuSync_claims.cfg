SPECIFICATION Spec
CONSTANTS
  Source = {s1}
  Scoped = {}
  Switchable = {}
  Worker = {w1, w2}
  Run = {1, 2, 3}
  Menu = {m1}
  EmptyMenu = empty
  Key = {k1}
  Refresh <- MCRefresh
  ClaimDuration = 2
  PollDuration = 4
  Retention = 11
  MaxTime = 4
  WindowLength = 7
  ClaimsDelay = 1
  MaxWindowFailures = 3
  FirstRetryDelay = 1
  LaterRetryDelay = 2
  EmptyMin = 2
  EmptyMax = 3
  MinRepeat = 2
  RefreshAfter = 3
  NoOne = NoOne
  NoSource = NoSource
  NoMenu = NoMenu
  NoKey = NoKey
SYMMETRY WorkerSymmetry
INVARIANTS ClaimIsTheRunningRun RetrySpacing
PROPERTY PublishesAsSpecified
CHECK_DEADLOCK FALSE
