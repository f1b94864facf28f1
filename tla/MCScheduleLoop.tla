--------------------------- MODULE MCScheduleLoop ---------------------------
(* Small instances of ScheduleLoop for TLC, two ticks to the second. *)
EXTENDS ScheduleLoop

ScheduleFor(cron, minutes, interval, startAfter) ==
  [cron |-> cron, period |-> minutes * Minute, interval |-> interval * Second,
   startAfter |-> startAfter * Second]

\* A cron every two minutes beside an interval that is to start later.
CronAndInterval == [p \in {"cron", "interval"} |->
  IF p = "cron" THEN ScheduleFor("valid", 2, 86400, 0) ELSE ScheduleFor("none", 2, 40, 90)]

\* A cron every minute that is to start in twenty minutes.
CronFromLater == [p \in {"cron"} |-> ScheduleFor("valid", 1, 86400, 1320)]
=============================================================================
