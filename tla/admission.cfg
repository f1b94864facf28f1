\* Webhooks installed at some moment, before which users keep to valid specs.
SPECIFICATION FairAdmissionSpec
CONSTANTS
  Name <- Names
  Regions <- ListedRegions
  Specs <- AllSpecs
  EarlySpecs <- Careful
  NoPolicy = NoPolicy
  Untracked = Untracked
  RegisteredAtFirst = FALSE
  MaxEdits = 6
  MaxOutages = 2
INVARIANTS
  TypeOK
  ActsOnOwnNodeGroup
  TracksOwnNodeGroup
  StoredIsAdmissible
PROPERTIES
  EditsKept
  DeletionCompletes
CHECK_DEADLOCK FALSE
