SPECIFICATION Spec
CONSTANTS
  Invoices = {i1}
  Uuids = {u1, u2, u3, u4}
  NoUuid = NoUuid
  Reasons = {r1, r2}
  NoReason = NoReason
  MaxEvents = 4
  ErrorStatuses = {401, 409, 503}
  LocalErrors = {"Transport", "Schema", "Storage"}
  SubmitMax = 3
  PollMax = 2
  CancelMax = 2
  Malformed = {}
  OmitsDocuments = TRUE
  MaxFaults = 2
SYMMETRY Symmetry
INVARIANTS TypeOK JobsAreCurrent StatusAgreesWithLhdn DuplicatesNeedFaults
PROPERTIES DecisionsStand
CHECK_DEADLOCK FALSE
