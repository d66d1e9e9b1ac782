SPECIFICATION Spec

CONSTANTS
  r1 = r1
  r2 = r2
  imageA = imageA
  imageB = imageB
  noFile = noFile
  noFeature = noFeature
  Images <- MCImages
  Features <- MCFeatures
  FeatureOf <- MCFeatureOf
  HashesOf <- MCHashesOf
  Schema <- MCSchema
  Requests <- TwoRequests
  Params <- TimeParams
  Unreadable = {noFile}
  Unextractable = {noFeature}
  CandidateResultNumber = 2
  DefaultNumberOfResults = 3
  MaxChanges = 2
  MinTime = 1
  MaxTime = 2

INVARIANTS
  TimeIsOwn

CHECK_DEADLOCK FALSE
