SPECIFICATION Spec
CONSTANTS
  Invoices = {i1}
  Uuids = {u1, u2}
  NoUuid = NoUuid
  Reasons = {r1}
  NoReason = NoReason
  MaxEvents = 3
  ErrorStatuses = {409}
  LocalErrors = {"Transport"}
  SubmitMax = 2
  PollMax = 2
  CancelMax = 2
  Malformed = {}
  OmitsDocuments = FALSE
  MaxFaults = 1
INVARIANT RefusedCancelLeftDocumentValid
CHECK_DEADLOCK FALSE
