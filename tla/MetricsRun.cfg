SPECIFICATION Spec
CONSTANTS
  PreviewRules <- NoPreview
  NumHashes = 5
  Bands = 4
  Hash <- MCHash
  ShingleK = 2
  Path <- MCPath
  Suffixed <- MCSuffixed
  Content <- MCContent
  Measures <- MCMeasures
  Trees <- MCTrees
  Saved <- MCSaved
  Missing = "missing"
  Malformed = Malformed
  Configs <- MCConfigs
  DefaultConfig <- MCDefaultConfig
  Jobs <- MCJobs
  MaxFaults = 1
  MaxSaves = 1
INVARIANTS
  GatesAreExact
  BadgesShowPanel
  ViewsAgree
  DuplicatesAreCounted
PROPERTY BadgesSettle
