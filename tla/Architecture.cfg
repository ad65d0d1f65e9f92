SPECIFICATION FairSpec
CONSTANTS
  Projects <- MCProjects
  Profiles <- MCProfiles
INVARIANTS
  EdgesAreImports
  HardCyclesAreHard
  TextMatchesJson
  NoCouplingLost
  LevelsAgree
PROPERTIES
  MovesPay
  Terminates
