SPECIFICATION FairSpec
CONSTANTS
  Source = {s1, s2}
  Scoped = {}
  Switchable = {s1, s2}
  Worker = {w1, w2}
  Run = {1, 2}
  Menu = {m1}
  EmptyMenu = empty
  Key = {k1}
  Refresh <- MCRefresh
  ClaimDuration = 1
  PollDuration = 1
  Retention = 4
  MaxTime = 1
  WindowLength = 3
  ClaimsDelay = 0
  MaxWindowFailures = 1
  FirstRetryDelay = 1
  LaterRetryDelay = 1
  EmptyMin = 1
  EmptyMax = 2
  MinRepeat = 1
  RefreshAfter = 2
  NoOne = NoOne
  NoSource = NoSource
  NoMenu = NoMenu
  NoKey = NoKey
INVARIANT ChecksAgree
PROPERTY InvocationsEnd
CHECK_DEADLOCK FALSE
