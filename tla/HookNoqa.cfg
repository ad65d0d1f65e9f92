SPECIFICATION Spec
CONSTANTS
  File <- Names
  Spelling <- MCSpelling
  FileAt <- MCFileAt
  NoPath = NoPath
  Malformed = Malformed
  PreviewRules <- NoPreview
  Configs <- Plain
  Authored <- Acknowledged
  MaxFaults = 1
  MaxEdits = 2
INVARIANT
  AcknowledgedIsSilent
