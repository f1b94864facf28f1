SPECIFICATION Spec
CONSTANTS
  Replica = {r1}
  Specs <- CoreSpecs
  NoPolicy = NoPolicy
  MaxRelease = 2
  MaxUpdates = 2
  MinMinor = 32
  MaxMinor = 32
  MaxLag = 2
  PromptInformer = FALSE
  AmiType = "AL2023_X86_64_STANDARD"
  Faults = {"aws", "initiate", "response", "api", "apiResponse", "crash"}
  MaxFaults = 1
  MaxEdits = 2
INVARIANTS
  TypeOK
  NoLostWakeup
  ReportedOutcome
  FinalizerHolds
PROPERTIES
  FollowsLifecycle
  KeepsPolling
\* A paused or deleted policy leaves the operator with nothing to do.
CHECK_DEADLOCK FALSE
