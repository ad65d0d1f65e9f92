SPECIFICATION Spec
CONSTANTS
  twin = twin
  other = other
  helper = helper
  requests = requests
  numpy = numpy
  a = a
  b = b
  c = c
  Missing = Missing
  WholeFile = WholeFile
  File <- TwoPaths
  Path <- TwoPaths
  Rank <- MCRank
  Name <- MCName
  FileAt <- OwnFile
  DirOf <- MCDirOf
  TopModule <- MCTopModule
  TestPath <- MCTestPath
  PreviewRules <- MCPreviewRules
  Code <- AllRules
  Site <- MCSite
  Authored <- MCAuthored
  Empty <- MCEmpty
  Cut <- MCCut
  Jobs <- MCJobs
  MaxFaults = 1
  MaxEdits = 1
  MaxRuns = 1
INVARIANTS
  FindingsAtHome
  OptedOutNeverRewritten
  CleanMeansClean
  DamageIsReported
  FixedIsGone
PROPERTY
  SavesSurvive
