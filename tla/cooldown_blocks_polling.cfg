SPECIFICATION Spec
CONSTANTS
  Replica = {r1}
  Specs <- IntervalSpecs
  NoPolicy = NoPolicy
  MaxRelease = 2
  MaxUpdates = 2
  MinMinor = 32
  MaxMinor = 32
  MaxLag = 2
  PromptInformer = TRUE
  AmiType = "AL2023_X86_64_STANDARD"
  Faults = {}
  MaxFaults = 0
  MaxEdits = 0
INVARIANT PolledSoon
