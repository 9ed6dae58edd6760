CONSTANTS
  u1 = u1
  u2 = u2
  u3 = u3
  n1 = n1
  n2 = n2
  e2 = e2
  NoName = NoName
  Nobody = Nobody
  Uuids = {u1}
  Runs = {r1}
  Names = {n1, n2, e2}
  Username <- DistinctNames
  Ascii <- AsciiOfNames
  NewGroups = {users}
  IgnoreGroups = {}
  OtherGroups = {staff}
  Administered = {}
  MinUid = 1000
  MaxUid = 1008
  UsedUids = {1001}
  MaxFaults = 0
SPECIFICATION FairSpec
PROPERTIES
  DepartedPurged
