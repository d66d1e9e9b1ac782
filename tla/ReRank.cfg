SPECIFICATION Spec

CONSTANTS
  Docs <- MCDocs
  Distances <- MCDistances
  Rows <- MCRows

INVARIANTS
  TypeOK
  NearestKept
  ResponseIsPrefix
