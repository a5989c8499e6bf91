SPECIFICATION FairSpec
CONSTANTS
  Tills = {t1, t2}
  Invoices = {i1}
  Reasons = {r1, r2}
  NoReason = NoReason
  NoTill = NoTill
  MaxLost = 2
INVARIANTS PosTypeOK AnswersHold OneAuthor
PROPERTIES KeepsLifecycle PostIsAnswered
