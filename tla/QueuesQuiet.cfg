CONSTANTS
  Uuids = {u1, u2}
  Contended = {u2}
  Delayed = {u2}
  Handlers = {h1, h2}
  Scans = {s1}
  IdForms = {"raw", "text"}
  NoScan = NoScan
  NoRow = NoRow
  NoBatch = NoBatch
  Unknown = Unknown
  MaxRequests = 4
SPECIFICATION Spec
CHECK_DEADLOCK FALSE
INVARIANTS
  TypeOK
  NothingLost
  QueuedHasScan
  QuietOnePlace
  QuietScanKept
PROPERTY
  ImplementsLifecycle
