SPECIFICATION FairSpec
CONSTANTS
  twin = twin
  other = other
  helper = helper
  requests = requests
  numpy = numpy
  a = a
  b = b
  c = c
  Missing = Missing
  WholeFile = WholeFile
  File <- ThreePaths
  Path <- ThreePaths
  Rank <- MCRank
  Name <- MCName
  FileAt <- OwnFile
  DirOf <- MCDirOf
  TopModule <- MCTopModule
  TestPath <- MCTestPath
  PreviewRules <- MCPreviewRules
  Code <- AllRules
  Site <- MCSite
  Authored <- FixTexts
  Empty <- MCEmpty
  Cut <- MCCut
  Jobs <- FixJobs
  MaxFaults = 2
  MaxEdits = 0
  MaxRuns = 5
INVARIANT
  FailureIsContained
PROPERTIES
  Converges
