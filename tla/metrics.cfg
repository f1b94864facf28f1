SPECIFICATION MeteredSpec
CONSTANTS
  Replica = {r1}
  Specs <- PlainSpecs
  NoPolicy = NoPolicy
  MaxRelease = 2
  MaxUpdates = 1
  MinMinor = 32
  MaxMinor = 33
  MaxLag = 2
  PromptInformer = TRUE
  AmiType = "AL2_X86_64"
  Faults = {"aws", "initiate", "response", "api", "apiResponse", "crash"}
  MaxFaults = 2
  MaxEdits = 1
  MaxCount = 2
INVARIANTS
  MetricsTypeOK
  ConditionsHold
PROPERTY ComplianceShown
\* A counter at its bound, or a paused or deleted policy, ends the run.
CHECK_DEADLOCK FALSE
