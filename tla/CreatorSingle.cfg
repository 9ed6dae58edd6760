CONSTANTS
  u1 = u1
  u2 = u2
  u3 = u3
  n1 = n1
  n2 = n2
  e2 = e2
  NoName = NoName
  Nobody = Nobody
  Uuids = {u1, u2}
  Runs = {r1}
  Names = {n1, n2, e2}
  Username <- DistinctNames
  Ascii <- AsciiOfNames
  NewGroups = {users}
  IgnoreGroups = {}
  OtherGroups = {staff}
  Administered = {n2}
  MinUid = 1000
  MaxUid = 1005
  UsedUids = {1001}
  MaxFaults = 1
SPECIFICATION FairSpec
INVARIANTS
  TypeOK
  UidNumbersDistinct
  ArchivedArePurged
PROPERTIES
  OthersKept
  RunsAdvance
  ImplementsAccounts
  DepartedArchived
  JoiningFinishes
