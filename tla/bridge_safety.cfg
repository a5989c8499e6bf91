SPECIFICATION Spec
CONSTANTS
  Invoices = {i1, i2}
  Uuids = {u1, u2, u3}
  NoUuid = NoUuid
  Reasons = {r1}
  NoReason = NoReason
  MaxEvents = 3
  ErrorStatuses = {409}
  LocalErrors = {"Transport"}
  SubmitMax = 2
  PollMax = 2
  CancelMax = 2
  Malformed = {}
  OmitsDocuments = FALSE
  MaxFaults = 1
SYMMETRY Symmetry
INVARIANTS OneEventPerInvoice OutboxMatchesStatus JobsAreCurrent
  StatusAgreesWithLhdn
PROPERTIES DecisionsStand ImplementsLifecycle
CHECK_DEADLOCK FALSE
