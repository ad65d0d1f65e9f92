CONSTANTS
  TestNames <- MCTestNames
  UnittestNames <- MCUnittestNames
  AbstractNames <- MCAbstractNames
  NameOrder <- MCNameOrder
  ContentWords <- MCContentWords
  WordCount <- MCWordCount
  RuleCodes = {"SLP010", "SLP030", "SLP210", "SLP230", "E501"}
  Guards = {"requires_auth", "login_required", "validate_token"}
  Foreign <- MCForeign
  AllowedNames = {"indexOf"}
  QtModules = {"qtpy"}
  CredentialNames = {"password", "token"}
  WeakCredentials = {"changeme"}
  DummyReturns = {"todo"}
  PlaceholderTokens = {"foo", "bar"}
  PlaceholderTexts = {"a@example.com", "changeme"}
  Normalized <- MCNormalized
  Distributions <- MCDistributions
  ProvidedModules = {"os"}
  IdentifierWords <- MCIdentifierWords
  UpperNames = {"LIMIT", "DEBUG"}
  ConfigReceivers = {"settings", "config"}
  BaseNames = {}
  ReservedNames = {"main"}
  ProseMinLines = 3
  PreviewRules <- MCPreviewRules
  Sources <- AliasSources
  Projects <- AliasProjects
SPECIFICATION PipelineSpec
INVARIANT UsedIsNoGhost
