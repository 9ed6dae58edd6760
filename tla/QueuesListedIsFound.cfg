CONSTANTS
  Uuids = {u1}
  Contended = {}
  Delayed = {}
  Handlers = {h1, h2}
  Scans = {s1, s2}
  IdForms = {"text"}
  NoScan = NoScan
  NoRow = NoRow
  NoBatch = NoBatch
  Unknown = Unknown
  MaxRequests = 2
SPECIFICATION Spec
CHECK_DEADLOCK FALSE
PROPERTY
  ListedIsFound
