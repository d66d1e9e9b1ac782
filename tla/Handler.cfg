SPECIFICATION FairSpec

CONSTANTS
  r1 = r1
  r2 = r2
  imageA = imageA
  imageB = imageB
  noFile = noFile
  noFeature = noFeature
  Images <- MCImages
  Features <- MCFeatures
  FeatureOf <- MCFeatureOf
  HashesOf <- MCHashesOf
  Schema <- MCSchema
  Requests <- OneRequest
  Params <- MCParams
  Unreadable = {noFile}
  Unextractable = {noFeature}
  CandidateResultNumber = 2
  DefaultNumberOfResults = 3
  MaxChanges = 4
  MinTime = 1
  MaxTime = 2

INVARIANTS
  SelfFirst
  DocsOrError

PROPERTIES
  EveryRequestEnds

CHECK_DEADLOCK FALSE
