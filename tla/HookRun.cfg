SPECIFICATION Spec
CONSTANTS
  File <- Names
  Spelling <- MCSpelling
  FileAt <- MCFileAt
  NoPath = NoPath
  Malformed = Malformed
  PreviewRules <- MCPreviewRules
  Configs <- MCConfigs
  Authored <- MCAuthored
  MaxFaults = 1
  MaxEdits = 2
INVARIANTS
  BlocksOnFindingsOnly
  SilentMeansClean
