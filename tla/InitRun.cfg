SPECIFICATION FairSpec
CONSTANTS
  h = h
  bnr = bnr
  formatter = formatter
  handmade = handmade
  Hook <- h
  Banner <- bnr
  Other <- MCOther
  Mention <- MCMention
  Authored <- MCAuthored
  Jobs <- MCJobs
  MaxFaults = 1
  MaxEdits = 1
INVARIANTS
  NothingLost
  AtMostOneHook
  SaidIsSo
PROPERTY
  SettlesDown
