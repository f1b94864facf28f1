SPECIFICATION Spec
CONSTANTS
  Replica = {r1, r2}
  Specs <- IntervalSpecs
  NoPolicy = NoPolicy
  MaxRelease = 2
  MaxUpdates = 2
  MinMinor = 32
  MaxMinor = 32
  MaxLag = 1
  PromptInformer = FALSE
  AmiType = "AL2023_X86_64_STANDARD"
  Faults = {}
  MaxFaults = 0
  MaxEdits = 0
SYMMETRY Replicas
INVARIANT NoLostWakeup
PROPERTY FollowsLifecycle
