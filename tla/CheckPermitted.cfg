SPECIFICATION Spec
CONSTANTS
  twin = twin
  other = other
  helper = helper
  requests = requests
  numpy = numpy
  a = a
  b = b
  c = c
  Missing = Missing
  WholeFile = WholeFile
  File <- TwoPaths
  Path <- TwoPaths
  Rank <- MCRank
  Name <- MCName
  FileAt <- OwnFile
  DirOf <- MCDirOf
  TopModule <- MCTopModule
  TestPath <- MCTestPath
  PreviewRules <- MCPreviewRules
  Code <- AllRules
  Site <- MCSite
  Authored <- MCAuthored
  Empty <- MCEmpty
  Cut <- MCCut
  Jobs <- PermissiveJob
  MaxFaults = 0
  MaxEdits = 0
  MaxRuns = 1
INVARIANT
  PermittedCommentsStay
