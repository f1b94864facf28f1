SPECIFICATION Spec
CONSTANTS
  Replica = {r1}
  Specs <- CoreSpecs
  NoPolicy = NoPolicy
  MaxRelease = 2
  MaxUpdates = 2
  MinMinor = 32
  MaxMinor = 32
  MaxLag = 2
  PromptInformer = TRUE
  AmiType = "CUSTOM"
  Faults = {}
  MaxFaults = 0
  MaxEdits = 0
INVARIANT CustomLeftAlone
\* A paused or deleted policy leaves the operator with nothing to do.
CHECK_DEADLOCK FALSE
