SPECIFICATION Spec
CONSTANTS
  Options <- MCOptions
  Places = {"ajaxStart", "beforeSend", "ajaxSend", "success", "ajaxError", "complete", "ajaxStop"}
  MaxRequests = 2
  MaxActs = 2
  Cors = FALSE
INVARIANTS
  TypeOK
  Told
  ActiveCounts
  JsonpOwn
  ConvertsRight
PROPERTIES
  Completes
