SPECIFICATION FairSpec
CONSTANTS
  Projects <- SrcPackage
  Profiles <- MCProfiles
INVARIANT
  EdgesAreImports
