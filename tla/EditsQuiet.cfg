CONSTANTS
  Members = {m1, m2}
  Contended = {}
  Delayed = {m2}
  Handlers = {h1, h2}
  d1 = d1
  d2 = d2
  Data = {d1, d2}
  TextFields <- MCTextFields
  InitialRecords <- MCInitialRecords
  NoMember = NoMember
  NoBatch = NoBatch
  NoValue = NoValue
  Keep = Keep
  Unknown = Unknown
  Absent = Absent
  Undecodable = Undecodable
  MaxRetries = 1
  MaxRequests = 3
SPECIFICATION OneMember
SYMMETRY Symmetry
CHECK_DEADLOCK FALSE
INVARIANTS
  TypeOK
  QuietListShowsDetail
  SoleEditsDurable
  QuietGoodbyeFinal
  CopiesAgree
PROPERTIES
  QuietUsernameKept
  ImplementsRecords
