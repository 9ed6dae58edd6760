CONSTANTS
  Members = {m1}
  Contended = {m1}
  Delayed = {}
  Handlers = {h1, h2}
  d1 = d1
  d2 = d2
  Data = {d1, d2}
  TextFields <- MCTextFields
  InitialRecords <- MCInitialRecords
  NoMember = NoMember
  NoBatch = NoBatch
  NoValue = NoValue
  Keep = Keep
  Unknown = Unknown
  Absent = Absent
  Undecodable = Undecodable
  MaxRetries = 1
  MaxRequests = 2
SPECIFICATION Spec
CHECK_DEADLOCK FALSE
PROPERTY RefusedChangesNothing
