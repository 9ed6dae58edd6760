CONSTANTS
  Records = {u1, u2}
  Lagging = {u2}
  FirstRows <- OneOfEachKind
  Nobody = Nobody
SPECIFICATION FairSpec
CHECK_DEADLOCK FALSE
INVARIANTS
  TypeOK
  MovedAreFound
  FilesFit
  NobodyIsStuck
PROPERTIES
  NeverBack
  BackupEnds
