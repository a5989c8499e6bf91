SPECIFICATION FairSpec
CONSTANTS
  Invoices = {i1}
  Uuids = {u1, u2}
  NoUuid = NoUuid
  Reasons = {r1}
  NoReason = NoReason
  MaxEvents = 3
  ErrorStatuses = {409}
  LocalErrors = {}
  SubmitMax = 2
  PollMax = 2
  CancelMax = 2
  Malformed = {}
  OmitsDocuments = TRUE
  MaxFaults = 0
PROPERTY MissingUuidIsGivenUp
CHECK_DEADLOCK FALSE
