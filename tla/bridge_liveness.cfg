SPECIFICATION FairSpec
CONSTANTS
  Invoices = {i1, i2}
  Uuids = {u1, u2}
  NoUuid = NoUuid
  Reasons = {r1}
  NoReason = NoReason
  MaxEvents = 3
  ErrorStatuses = {409}
  LocalErrors = {"Transport"}
  SubmitMax = 2
  PollMax = 2
  CancelMax = 2
  Malformed = {i2}
  OmitsDocuments = FALSE
  MaxFaults = 1
PROPERTIES PendingIsDecided SubmittedIsSettled CancellationIsAnswered
CHECK_DEADLOCK FALSE
