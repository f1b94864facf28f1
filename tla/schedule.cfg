SPECIFICATION HistorySpec
CONSTANTS
  Second = 2
  Policies = {"cron", "interval"}
  ScheduleOf <- CronAndInterval
  MinInterval = 60
  Start = 137
  Durations = {2, 17}
  Writes = {2, 12}
  Fractions = {1}
  Backoffs = {30}
  Horizon = 370
INVARIANTS
  NeverForgotten
  NeverOversleeps
PROPERTY SlotHonoured
\* The run ends at the horizon.
CHECK_DEADLOCK FALSE
