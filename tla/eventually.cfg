SPECIFICATION FairSpec
CONSTANTS
  Replica = {r1}
  Specs <- MixedSpecs
  NoPolicy = NoPolicy
  MaxRelease = 2
  MaxUpdates = 1
  MinMinor = 32
  MaxMinor = 33
  MaxLag = 1
  PromptInformer = FALSE
  AmiType = "AL2_X86_64"
  Faults = {"aws", "initiate", "response", "api", "apiResponse", "crash"}
  MaxFaults = 1
  MaxEdits = 1
PROPERTIES
  Concludes
  DeletionCompletes
\* A paused or deleted policy leaves the operator with nothing to do.
CHECK_DEADLOCK FALSE
