CONSTANTS
  Members = members
  Lists = {members}
  LastKey = 3
  Listable <- AllListable
  After <- ExactAfter
  Loads <- EachItself
  PageSize = 2
  Requests = {r1, r2}
SPECIFICATION FairSpec
INVARIANTS
  TypeOK
  EndSeesAll
  PrintedInOrder
  PrintsAll
PROPERTY
  PrinterEnds
