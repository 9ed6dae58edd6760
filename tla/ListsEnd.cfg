CONSTANTS
  Members = members
  Lists = {members}
  LastKey = 4
  Listable <- AllListable
  After <- UnderscoreAfter
  Loads <- EachItself
  PageSize = 2
  Requests = {r1}
SPECIFICATION Spec
INVARIANT
  AllEndSeesAll
