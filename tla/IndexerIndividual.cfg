SPECIFICATION Spec

CONSTANTS
  c1 = c1
  c2 = c2
  pathA = pathA
  pathB = pathB
  Consumers <- MCConsumers
  Paths <- MCPaths
  FileList <- MCFileList
  CacheLimit = 1
  IndividualFiles = TRUE
  MaxErrors = 2

SYMMETRY MCSymmetry

INVARIANTS
  FilesComplete
