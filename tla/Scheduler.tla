------------------------------ MODULE Scheduler ------------------------------
(***************************************************************************)
(* The time arithmetic of internal/scheduler/scheduler.go, and of the two  *)
(* places of the controller that ask it for a delay.  Time is an integer   *)
(* number of ticks, Second of them to the second; a delay that jitter      *)
(* chooses is a set of delays.                                             *)
(*                                                                         *)
(* A cron schedule is one that repeats at a fixed period (every n minutes, *)
(* hourly, daily); its slots are the multiples of the period.  The zero    *)
(* metav1.Time is NoTime.                                                  *)
(***************************************************************************)
EXTENDS Integers

CONSTANT Second   \* ticks per second: the resolution of the model

ASSUME SecondAssumption == Second \in Nat \ {0}

Minute == 60 * Second
EarlyTolerance == Second
LateTolerance == 5 * Second
Nudge == 6 * Second

NoTime == 0

\* What a spec says of time.  cron: spec.scheduleCron is empty, does not parse
\* (or its timezone does not), parses but never matches (30 February), or
\* matches every `period`, whole minutes of it.  interval: what ParseInterval makes of
\* spec.checkInterval; the webhook admits any duration, negative ones too.
Schedule == [cron : {"none", "invalid", "never", "valid"},
             period : Nat,
             interval : Int,
             startAfter : Nat]

OnMinutes(s) == s.period > 0 /\ s.period % Minute = 0

\* schedule.Next: the first slot strictly after t.
NextSlot(s, t) == (t \div s.period + 1) * s.period

\* At t itself or later: Next of an instant before t.
SlotFrom(s, t) == NextSlot(s, t - 1)

nextRunInterval(s, now, lastChecked) ==
  IF lastChecked # NoTime /\ now < lastChecked + s.interval
    THEN lastChecked + s.interval - now
    ELSE 0

\* A second before a slot, or up to five after it.  The late test asks for the
\* first slot of the last minute; for a cron that never matches Next is the
\* zero time, and the early test holds of it.
DueAt(s, now) ==
  \/ s.cron = "never"
  \/ SlotFrom(s, now) - now <= EarlyTolerance
  \/ LET prev == NextSlot(s, now - Minute)
     IN  now > prev /\ now - prev <= LateTolerance

NextRun(s, now, lastChecked) ==
  IF s.cron \in {"none", "invalid"}
    THEN [delay |-> nextRunInterval(s, now, lastChecked), reason |-> "interval"]
    ELSE [delay |-> IF DueAt(s, now) THEN 0 ELSE SlotFrom(s, now) - now, reason |-> "cron"]

\* d, more or less a tenth (the tenth itself is never reached).
Jitter(d) ==
  LET max == d \div 10
  IN  IF d <= 0 \/ max <= 0 THEN {d} ELSE (d - max + 1)..(d + max - 1)

\* Mutant: every delay is jittered, a cron's too.
JitteredAlways(run) == Jitter(run.delay)

Jittered(run) == IF run.reason = "interval" THEN Jitter(run.delay) ELSE {run.delay}

\* Mutant: no nudge past the late tolerance.
ComputeWithoutNudge(s, now, lastChecked) ==
  LET run == NextRun(s, now, lastChecked)
  IN  IF run.delay <= 0 THEN {s.interval} ELSE Jittered(run)

\* Mutant: no fallback when the schedule is due at once again.
ComputeWithoutFallback(s, now, lastChecked) ==
  LET run == NextRun(s, now, lastChecked)
  IN  Jittered(IF run.delay <= 0 /\ run.reason = "cron"
                 THEN NextRun(s, now + Nudge, lastChecked) ELSE run)

\* The delays computeNextDelay may return.
computeNextDelay(s, now, lastChecked) ==
  LET first == NextRun(s, now, lastChecked)
      run   == IF first.delay <= 0 /\ first.reason = "cron"
                 THEN NextRun(s, now + Nudge, lastChecked) ELSE first
  IN  IF run.delay <= 0 THEN {s.interval} ELSE Jittered(run)
=============================================================================
