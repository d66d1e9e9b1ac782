SPECIFICATION PageSpec
CONSTANTS
  Options = {}
  Places = {"success"}
  MaxRequests = 4
  MaxUnderway = 2
  MaxActs = 0
  Cors = FALSE
INVARIANTS
  ImagesRecent
  HeadingTells
PROPERTIES
  PageSettles
