\* A spec that does not parse, stored before the webhooks are installed.
SPECIFICATION FairAdmissionSpec
CONSTANTS
  Name <- Names
  Regions <- ListedRegions
  Specs <- Careless
  EarlySpecs <- Careless
  NoPolicy = NoPolicy
  Untracked = Untracked
  RegisteredAtFirst = FALSE
  MaxEdits = 3
  MaxOutages = 0
PROPERTIES DeletionCompletes
CHECK_DEADLOCK FALSE
