SPECIFICATION HistorySpec
CONSTANTS
  Second = 2
  Policies = {"cron"}
  ScheduleOf <- CronFromLater
  MinInterval = 360
  Start = 137
  Durations = {2, 18}
  Writes = {2}
  Fractions = {1}
  Backoffs = {10}
  Horizon = 4000
INVARIANT
  NeverOversleeps
\* The run ends at the horizon.
CHECK_DEADLOCK FALSE
