SPECIFICATION FairSpec

CONSTANTS
  c1 = c1
  c2 = c2
  pathA = pathA
  pathB = pathB
  Consumers <- MCConsumers
  Paths <- MCPaths
  FileList <- MCFileList
  CacheLimit = 1
  IndividualFiles = FALSE
  MaxErrors = 2

INVARIANTS
  TypeOK
  OnePlace
  Complete
  Counted
  CrowdedIsNoticed
  AddFile

PROPERTIES
  JobImplemented
  JobExits
