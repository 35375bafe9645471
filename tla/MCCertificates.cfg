CONSTANTS
  Clients = {ana, bo}
  Pieces = {ring}
  Orders = {}
  Transfers = {}
  NoClient = NoClient
  Dispatchers = {d1, d2}
  Workers = {w1}
  MaxRows = 1
  MaxAttempts = 2
  KeepFailed = 1
  NoJob = NoJob
  NoWorker = NoWorker
SPECIFICATION FairCertificatesSpec
INVARIANTS
  CertificatesTypeOK
  PromisesKept
  CertifiedOnce
PROPERTIES
  ImplementsOwnership
  RowsSettle
