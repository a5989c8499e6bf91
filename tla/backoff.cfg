SPECIFICATION Spec
CONSTANTS
  Kinds = {"submit", "poll", "cancel"}
  Limit <- Defaults
  PollInterval <- Intervals
  CallTimes = {0, 60}
  Windows = {5, 6, 610, 4000, 259200}
  Downtimes = {0, 600}
  MaxFaults = 1
  AtLeast <- Earliest
  AtMost <- Latest
  Early = 1800
  EarlyGap = 300
  LateGap = 900
CHECK_DEADLOCK FALSE
INVARIANTS BackoffTypeOK GivesUpOnTime VerdictIsNoticed CallsAreBounded RequestInTimeIsSent
