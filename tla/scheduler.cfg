SPECIFICATION FairSpec
CONSTANTS
  Invoices = {i1, i2, i3}
  BatchSize = 2
  MaxAttempts = 2
  NoUuid = {i3}
  Flaky = {i1}
  MaxFaults = 1
INVARIANTS SchedulerTypeOK SnapshotIsCurrent ExitIsClean
PROPERTIES DueIsHandled ExitsOnShutdown
