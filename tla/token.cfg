SPECIFICATION FairSpec
CONSTANTS
  Callers = {submitter, poller, canceller}
  Nobody = Nobody
  Leeway = 2
  CallMax = 1
  StoreMax = 1
  Lifetimes = {4}
  MaxNow = 7
  MaxGrants = 2
  MaxRestarts = 1
INVARIANTS TokenTypeOK OneFetchPerExpiry NeverExpiresInFlight MemoryIsStored
PROPERTIES CallsEnd
