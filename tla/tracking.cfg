SPECIFICATION Spec
CONSTANTS
  Replica = {r1}
  Specs <- SteadySpecs
  NoPolicy = NoPolicy
  MaxRelease = 3
  MaxUpdates = 3
  MinMinor = 32
  MaxMinor = 32
  MaxLag = 2
  PromptInformer = TRUE
  AmiType = "AL2023_X86_64_STANDARD"
  Faults = {"initiate", "response", "api", "crash"}
  MaxFaults = 2
  MaxEdits = 0
INVARIANTS
  NoOrphan
  CooldownRespected
