-------------------------- MODULE ScheduleLoopProofs --------------------------
(***************************************************************************)
(* Facts about the delays of Scheduler, and from them that ScheduleLoop    *)
(* forgets no policy, oversleeps no cron slot and honours every slot that  *)
(* its own stamps and the other policies leave it time for.                *)
(***************************************************************************)
EXTENDS SlotHistory, TLAPS

\* Jitter keeps a positive delay positive, and takes less than a tenth of it
\* either way.
LEMMA JitterBounds ==
  ASSUME NEW d \in Int, NEW j \in Jitter(d)
  PROVE  /\ j \in Int
         /\ d > 0 => j > 0
         /\ j <= d + d \div 10 \/ j = d
<1>1. d \div 10 \in Int
  OBVIOUS
<1>2. d > 0 => d \div 10 < d
  OBVIOUS
<1> QED BY <1>1, <1>2 DEF Jitter

\* What the quotient by a positive number is.
LEMMA DivisionBounds ==
  ASSUME NEW t \in Int, NEW p \in Nat, p > 0
  PROVE  /\ t \div p \in Int
         /\ p * (t \div p) <= t
         /\ t < p * (t \div p) + p
  OBVIOUS

\* A schedule's next slot is after the instant asked about, and one period
\* away from it at most.
LEMMA NextSlotBounds ==
  ASSUME NEW s \in Schedule, OnMinutes(s), NEW t \in Int
  PROVE  /\ NextSlot(s, t) \in Int
         /\ t < NextSlot(s, t)
         /\ NextSlot(s, t) <= t + s.period
<1>1. PICK p \in Nat : p = s.period /\ p > 0
  BY DEF Schedule, OnMinutes
<1>2. PICK q \in Int : q = t \div p
  BY <1>1
<1>3. p * q <= t /\ t < p * q + p
  BY <1>1, <1>2, DivisionBounds
<1>4. (q + 1) * p = p * q + p /\ p * q \in Int
  BY <1>1, <1>2
<1>5. NextSlot(s, t) = (q + 1) * p
  BY <1>1, <1>2 DEF NextSlot
<1> QED BY <1>1, <1>3, <1>4, <1>5

\* What NextRun returns: a number of ticks, and why.
LEMMA NextRunType ==
  ASSUME NEW s \in Schedule, s.cron = "valid" => OnMinutes(s),
         NEW t \in Int, NEW checked \in Nat
  PROVE  /\ NextRun(s, t, checked).delay \in Int
         /\ NextRun(s, t, checked).reason \in {"interval", "cron"}
<1>1. s.interval \in Int
  BY DEF Schedule
<1>2. nextRunInterval(s, t, checked) \in Int
  BY <1>1 DEF nextRunInterval, NoTime
<1>3. CASE s.cron \in {"none", "invalid"}
  BY <1>2, <1>3 DEF NextRun
<1>4. CASE s.cron = "never"
  BY <1>4 DEF NextRun, DueAt
<1>5. CASE s.cron = "valid"
  <2>1. SlotFrom(s, t) \in Int
    BY <1>5, NextSlotBounds DEF SlotFrom
  <2> QED BY <2>1, <1>5 DEF NextRun
<1> QED BY <1>3, <1>4, <1>5 DEF Schedule

\* A delay of computeNextDelay is a number of ticks.
LEMMA DelayIsAnInteger ==
  ASSUME NEW s \in Schedule, s.cron = "valid" => OnMinutes(s),
         NEW t \in Int, NEW checked \in Nat,
         NEW d \in computeNextDelay(s, t, checked)
  PROVE  d \in Int
<1> DEFINE first == NextRun(s, t, checked)
           run == IF first.delay <= 0 /\ first.reason = "cron"
                    THEN NextRun(s, t + Nudge, checked) ELSE first
<1>1. t + Nudge \in Int
  BY SecondAssumption DEF Nudge
<1>2. run.delay \in Int
  BY <1>1, NextRunType
<1>3. s.interval \in Int
  BY DEF Schedule
<1>4. d = s.interval \/ d \in Jitter(run.delay) \/ d = run.delay
  BY DEF computeNextDelay, Jittered
<1> QED BY <1>2, <1>3, <1>4, JitterBounds

\* The safety net of computeNextDelay: with a positive checkInterval every
\* delay it may return is positive, whatever the schedule and the instant.
LEMMA DelayIsPositive ==
  ASSUME NEW s \in Schedule, s.cron = "valid" => OnMinutes(s), s.interval > 0,
         NEW t \in Int, NEW checked \in Nat,
         NEW d \in computeNextDelay(s, t, checked)
  PROVE  d \in Int /\ d > 0
<1> DEFINE first == NextRun(s, t, checked)
           run == IF first.delay <= 0 /\ first.reason = "cron"
                    THEN NextRun(s, t + Nudge, checked) ELSE first
<1>1. t + Nudge \in Int
  BY SecondAssumption DEF Nudge
<1>2. run.delay \in Int
  BY <1>1, NextRunType
<1>3. s.interval \in Int
  BY DEF Schedule
<1>4. d \in IF run.delay <= 0 THEN {s.interval} ELSE Jittered(run)
  BY DEF computeNextDelay
<1>5. CASE run.delay <= 0
  BY <1>3, <1>4, <1>5
<1>6. CASE ~(run.delay <= 0)
  <2>1. d \in Jitter(run.delay) \/ d = run.delay
    BY <1>4, <1>6 DEF Jittered
  <2> QED BY <2>1, <1>2, <1>6, JitterBounds
<1> QED BY <1>5, <1>6

------------------------------------------------------------------------------
(***************************************************************************)
(* No policy is forgotten.  A timer is set to now' plus a positive delay,  *)
(* and its policy is in the queue or at the worker when it is cleared; so  *)
(* the property is inductive with the types of what it reads, and with the *)
(* delay that waits for the stamps being positive as well.                 *)
(***************************************************************************)

LoopInv ==
  /\ now \in Nat \ {0} /\ Start <= now
  /\ timer \in [Policies -> Nat]
  /\ queue \in Seq(Policies)
  /\ lastChecked \in [Policies -> Nat]
  /\ lastAttempt \in [Policies -> Nat]
  /\ inFlight \in [Policies -> BOOLEAN]

\* A delay is there only while its stamps are written, and is positive.
AnswerInv ==
  /\ worker = {} => answer = {}
  /\ \A p \in worker, d \in answer : d \in Int /\ (ScheduleOf[p].interval > 0 => d > 0)

Known == LoopInv /\ AnswerInv /\ NeverForgotten

\* What the assumption on the schedules says of one of them.
LEMMA ScheduleTypes ==
  ASSUME NEW p \in Policies
  PROVE  /\ ScheduleOf[p] \in Schedule
         /\ ScheduleOf[p].cron = "valid" => OnMinutes(ScheduleOf[p])
         /\ ScheduleOf[p].interval \in Int
         /\ ScheduleOf[p].startAfter \in Nat
BY ScheduleAssumption DEF Schedule

\* What the queue still holds when its first key has been taken.
LEMMA RestRemembers ==
  ASSUME NEW keys \in Seq(Policies), keys # <<>>, NEW q \in Policies, q # Head(keys),
         \E i \in 1..Len(keys) : keys[i] = q
  PROVE  \E i \in 1..Len(Tail(keys)) : Tail(keys)[i] = q
<1>1. PICK i \in 1..Len(keys) : keys[i] = q
  OBVIOUS
<1>2. i # 1
  BY <1>1
<1>3. i - 1 \in 1..Len(Tail(keys)) /\ Tail(keys)[i - 1] = q
  BY <1>1, <1>2
<1> QED BY <1>3

\* A later instant is a timer.
LEMMA LaterIsNotNever ==
  ASSUME NEW t \in Nat \ {0}, NEW d \in Int, d > 0
  PROVE  t + d # Never
BY DEF Never

\* Setting a positive timer for p, taken off the queue or done with by the
\* worker, forgets nobody.
LEMMA TimerRemembers ==
  ASSUME Known, NEW p \in Policies, NEW delay \in Int,
         ScheduleOf[p].interval > 0 => delay > 0,
         now' \in Nat \ {0},
         timer' = [timer EXCEPT ![p] = IF delay > 0 THEN now' + delay ELSE Never],
         \/ worker' = worker /\ Take(p)
         \/ worker = {p} /\ queue' = queue
  PROVE  NeverForgotten' /\ timer' \in [Policies -> Nat] /\ queue' \in Seq(Policies)
<1>1. timer' \in [Policies -> Nat]
  <2>1. (IF delay > 0 THEN now' + delay ELSE Never) \in Nat
    BY DEF Never
  <2> QED BY <2>1 DEF Known, LoopInv
<1>2. queue' \in Seq(Policies)
  <2>1. CASE Take(p)
    BY <2>1 DEF Known, LoopInv, Take
  <2>2. CASE queue' = queue
    BY <2>2 DEF Known, LoopInv
  <2> QED BY <2>1, <2>2
<1>3. ASSUME NEW q \in Policies, ScheduleOf[q].interval > 0
      PROVE  timer'[q] # Never \/ q \in worker' \/ \E i \in 1..Len(queue') : queue'[i] = q
  <2>1. CASE q = p
    <3>1. timer'[p] = IF delay > 0 THEN now' + delay ELSE Never
      BY DEF Known, LoopInv
    <3>2. delay > 0
      BY <1>3, <2>1
    <3>3. timer'[q] = now' + delay
      BY <2>1, <3>1, <3>2
    <3>4. now' + delay # Never
      BY <3>2, LaterIsNotNever
    <3> QED BY <3>3, <3>4
  <2>2. CASE q # p
    <3>1. timer[q] # Never \/ q \in worker \/ \E i \in 1..Len(queue) : queue[i] = q
      BY <1>3 DEF Known, NeverForgotten
    <3>2. timer'[q] = timer[q]
      BY <2>2 DEF Known, LoopInv
    <3>3. CASE worker' = worker /\ Take(p)
      BY <2>2, <3>1, <3>2, <3>3, RestRemembers DEF Take, Known, LoopInv
    <3>4. CASE worker = {p} /\ queue' = queue
      BY <2>2, <3>1, <3>2, <3>4
    <3> QED BY <3>3, <3>4
  <2> QED BY <2>1, <2>2
<1>4. NeverForgotten'
  BY <1>3 DEF NeverForgotten
<1> QED BY <1>1, <1>2, <1>4

\* A policy taken off the queue is the worker's.
LEMMA TakenRemembers ==
  ASSUME Known, NEW p \in Policies, Take(p), worker' = {p}, timer' = timer
  PROVE  NeverForgotten' /\ queue' \in Seq(Policies)
<1>1. ASSUME NEW q \in Policies, ScheduleOf[q].interval > 0
      PROVE  timer'[q] # Never \/ q \in worker' \/ \E i \in 1..Len(queue') : queue'[i] = q
  <2>1. timer[q] # Never \/ q \in worker \/ \E i \in 1..Len(queue) : queue[i] = q
    BY <1>1 DEF Known, NeverForgotten
  <2>2. q # p /\ q \notin worker
        => timer'[q] # Never \/ \E i \in 1..Len(queue') : queue'[i] = q
    <3> SUFFICES ASSUME q # p, q \notin worker, timer[q] = Never
                 PROVE  \E i \in 1..Len(queue') : queue'[i] = q
      OBVIOUS
    <3>1. queue \in Seq(Policies) /\ queue # <<>> /\ q # Head(queue) /\ queue' = Tail(queue)
      BY DEF Take, Known, LoopInv
    <3>2. \E i \in 1..Len(queue) : queue[i] = q
      BY <2>1
    <3> QED BY <3>1, <3>2, RestRemembers
  <2> QED BY <2>2 DEF Take
<1>2. queue' \in Seq(Policies)
  BY DEF Take, Known, LoopInv
<1> QED BY <1>1, <1>2 DEF NeverForgotten

\* At start every policy has a timer.
LEMMA KnownInit == Init => Known
<1> SUFFICES ASSUME Init PROVE Known
  OBVIOUS
<1>1. LoopInv
  BY TimeAssumption DEF Init, LoopInv, NoTime
<1>2. NeverForgotten
  BY TimeAssumption DEF Init, NeverForgotten, Never
<1>3. AnswerInv
  BY DEF Init, AnswerInv
<1> QED BY <1>1, <1>2, <1>3 DEF Known

\* Time that passes leaves the clock a positive number.
LEMMA TimePasses ==
  ASSUME LoopInv, NEW d \in Nat, now' = now + d
  PROVE  now' \in Nat \ {0} /\ Start <= now' /\ now' >= now
BY TimeAssumption DEF LoopInv

\* What a pass behind the gate has in common: time passes, and no delay waits.
LEMMA BusyTypes ==
  ASSUME LoopInv, NEW p \in Policies,
         \/ \E calls \in Durations : Busy(p, calls)
         \/ \E calls \in Durations, write \in Writes : Busy(p, calls + write)
  PROVE  /\ now' \in Nat \ {0} /\ Start <= now' /\ now' >= now
         /\ now' % Second \in Fractions
         /\ worker = {p} /\ answer = {} /\ queue' = queue
<1>1. \A calls \in Durations, write \in Writes : calls \in Nat /\ calls + write \in Nat
  BY TimeAssumption
<1>2. Durations \subseteq Nat
  BY TimeAssumption
<1>3. PICK d \in Nat : Busy(p, d)
  BY <1>1, <1>2
<1> QED BY <1>3, TimePasses DEF Busy

\* Whole seconds of a natural number.
LEMMA StoredType == ASSUME NEW t \in Nat PROVE Stored(t) \in Nat
<1>1. t % Second \in Int /\ 0 <= t % Second /\ t % Second <= t
  BY SecondAssumption
<1> QED BY <1>1 DEF Stored

\* What ProcessUpgrade leaves of the status.
LEMMA ProcessedTypes ==
  ASSUME LoopInv, NEW p \in Policies, NEW following \in BOOLEAN, NEW attempted \in BOOLEAN,
         Processed(p, following, attempted)
  PROVE  /\ \E calls \in Durations, write \in Writes : Busy(p, calls + write)
         /\ lastChecked' \in [Policies -> Nat] /\ lastAttempt' \in [Policies -> Nat]
         /\ inFlight' = [inFlight EXCEPT ![p] = following]
         /\ inFlight' \in [Policies -> BOOLEAN]
<1>1. PICK calls \in Durations, write \in Writes :
        /\ Busy(p, calls + write)
        /\ lastChecked' = [lastChecked EXCEPT ![p] = Stored(now + calls)]
        /\ lastAttempt' = [lastAttempt EXCEPT ![p] = IF attempted THEN Stored(now + calls) ELSE @]
  BY DEF Processed
<1>2. now + calls \in Nat
  BY TimeAssumption DEF LoopInv
<1>3. Stored(now + calls) \in Nat
  BY <1>2, StoredType
<1>4. lastChecked' \in [Policies -> Nat] /\ lastAttempt' \in [Policies -> Nat]
  BY <1>1, <1>3 DEF LoopInv
<1>5. inFlight' = [inFlight EXCEPT ![p] = following]
  BY DEF Processed
<1> QED BY <1>1, <1>4, <1>5 DEF LoopInv

\* The delaying queue moves a policy from its timer to the queue.
LEMMA KnownWake ==
  ASSUME Known, NEW p \in Policies, Wake(p)
  PROVE  Known'
<1>1. LoopInv' /\ AnswerInv'
  BY DEF Known, LoopInv, AnswerInv, Wake, Never, statusVars
<1>2. ASSUME NEW q \in Policies, ScheduleOf[q].interval > 0
      PROVE  timer'[q] # Never \/ q \in worker' \/ \E i \in 1..Len(queue') : queue'[i] = q
  <2>1. Len(queue') = Len(queue) + 1 /\ queue'[Len(queue) + 1] = p
    BY DEF Wake, Known, LoopInv
  <2>2. \A i \in 1..Len(queue) : queue'[i] = queue[i]
    BY DEF Wake, Known, LoopInv
  <2>3. CASE q = p
    <3>1. Len(queue') \in 1..Len(queue')
      BY <2>1 DEF Known, LoopInv
    <3> QED BY <2>1, <2>3, <3>1
  <2>4. CASE q # p
    <3>1. timer[q] # Never \/ q \in worker \/ \E i \in 1..Len(queue) : queue[i] = q
      BY <1>2 DEF Known, NeverForgotten
    <3>2. timer'[q] = timer[q] /\ worker' = worker
      BY <2>4 DEF Wake, Known, LoopInv
    <3>3. \A i \in 1..Len(queue) : i \in 1..Len(queue')
      BY <2>1 DEF Known, LoopInv
    <3> QED BY <2>2, <3>1, <3>2, <3>3
  <2> QED BY <2>3, <2>4
<1>3. NeverForgotten'
  BY <1>2 DEF NeverForgotten
<1> QED BY <1>1, <1>3 DEF Known

\* Sleeping forgets nobody.
LEMMA KnownSleep == ASSUME Known, Sleep PROVE Known'
<1>1. PICK p \in Policies : timer[p] # Never /\ now' = timer[p] /\ timer[p] > now
  BY DEF Sleep
<1>2. now' \in Nat \ {0} /\ Start <= now'
  BY <1>1, TimeAssumption DEF Known, LoopInv, Never
<1>3. LoopInv' /\ AnswerInv'
  BY <1>2 DEF Known, LoopInv, AnswerInv, Sleep, statusVars
<1>4. NeverForgotten'
  BY DEF Known, NeverForgotten, Sleep
<1> QED BY <1>3, <1>4 DEF Known

\* The wait of a guard is positive, jittered or not.
LEMMA KnownSkip == ASSUME Known, NEW p \in Policies, Skip(p) PROVE Known'
<1>1. HeldBack(p) \in Int
  BY ScheduleTypes, TimeAssumption DEF Known, LoopInv, HeldBack
<1>2. PICK delay \in Jitter(HeldBack(p)) : RequeueAfter(p, delay)
  BY DEF Skip
<1>3. delay \in Int /\ delay > 0
  BY <1>1, JitterBounds DEF Skip
<1>4. NeverForgotten' /\ timer' \in [Policies -> Nat] /\ queue' \in Seq(Policies)
  BY <1>2, <1>3, TimerRemembers DEF Skip, RequeueAfter, Known, LoopInv
<1> QED BY <1>4 DEF Known, LoopInv, AnswerInv, Skip, statusVars

\* The wait for a schedule that is not due is positive, jittered or not.
LEMMA KnownNotDue == ASSUME Known, NEW p \in Policies, NotDue(p) PROVE Known'
<1> DEFINE run == NextRun(ScheduleOf[p], now, lastChecked[p])
<1>1. run.delay \in Int /\ run.delay > 0
  <2>1. now \in Int /\ lastChecked[p] \in Nat
    BY DEF Known, LoopInv
  <2>2. run.delay \in Int
    BY <2>1, ScheduleTypes, NextRunType
  <2> QED BY <2>2 DEF NotDue
<1>2. PICK delay \in Jittered(run) : answer' = {delay}
  BY DEF NotDue
<1>3. delay \in Int /\ delay > 0
  <2>1. delay \in Jitter(run.delay) \/ delay = run.delay
    BY <1>2 DEF Jittered
  <2> HIDE DEF run
  <2> QED BY <1>1, <2>1, JitterBounds
<1>4. AnswerInv'
  BY <1>2, <1>3 DEF AnswerInv, NotDue
<1>5. NeverForgotten' /\ queue' \in Seq(Policies)
  BY TakenRemembers DEF NotDue
<1> QED BY <1>4, <1>5 DEF Known, LoopInv, NotDue, statusVars

\* A due policy goes to the worker.
LEMMA KnownProceed == ASSUME Known, NEW p \in Policies, Proceed(p) PROVE Known'
<1>1. NeverForgotten' /\ queue' \in Seq(Policies)
  BY TakenRemembers DEF Proceed
<1>2. AnswerInv'
  BY DEF Known, AnswerInv, Proceed, Take
<1> QED BY <1>1, <1>2 DEF Known, LoopInv, Proceed, statusVars

\* An update that is followed asks for two minutes.
LEMMA KnownFollowed == ASSUME Known, NEW p \in Policies, Followed(p) PROVE Known'
<1>1. /\ \E calls \in Durations, write \in Writes : Busy(p, calls + write)
      /\ lastChecked' \in [Policies -> Nat] /\ lastAttempt' \in [Policies -> Nat]
      /\ inFlight' \in [Policies -> BOOLEAN]
  BY ProcessedTypes DEF Known, LoopInv, Followed
<1>2. /\ now' \in Nat \ {0} /\ Start <= now'
      /\ worker = {p} /\ queue' = queue
  BY <1>1, BusyTypes DEF Known
<1>3. PollInterval \in Int /\ PollInterval > 0
  BY SecondAssumption DEF PollInterval, Minute
<1>4. NeverForgotten' /\ timer' \in [Policies -> Nat] /\ queue' \in Seq(Policies)
  BY <1>2, <1>3, TimerRemembers DEF Followed, RequeueAfter
<1> QED BY <1>1, <1>2, <1>4 DEF Known, LoopInv, AnswerInv, Followed, Done

\* A finished pass has a positive delay to return.
LEMMA KnownChecked == ASSUME Known, NEW p \in Policies, Checked(p) PROVE Known'
<1>1. /\ \E calls \in Durations, write \in Writes : Busy(p, calls + write)
      /\ lastChecked' \in [Policies -> Nat] /\ lastAttempt' \in [Policies -> Nat]
      /\ inFlight' \in [Policies -> BOOLEAN]
  BY ProcessedTypes DEF Known, Checked
<1>2. /\ now' \in Nat \ {0} /\ Start <= now'
      /\ worker = {p} /\ queue' = queue
  BY <1>1, BusyTypes DEF Known
<1>3. PICK delay \in computeNextDelay(ScheduleOf[p], now', lastChecked'[p]) : answer' = {delay}
  BY DEF Checked
<1>4. delay \in Int /\ (ScheduleOf[p].interval > 0 => delay > 0)
  BY <1>1, <1>2, <1>3, ScheduleTypes, DelayIsPositive, DelayIsAnInteger
<1>5. worker' = {p} /\ timer' = timer
  BY <1>2 DEF Checked
<1>6. AnswerInv'
  BY <1>3, <1>4, <1>5 DEF AnswerInv
<1>7. NeverForgotten'
  BY <1>2, <1>5 DEF Known, NeverForgotten
<1> QED BY <1>1, <1>2, <1>5, <1>6, <1>7 DEF Known, LoopInv

\* The delay is positive when it is returned, too.
LEMMA KnownStamped == ASSUME Known, NEW p \in Policies, Stamped(p) PROVE Known'
<1>1. PICK delay \in answer, write \in Writes : now' = now + write /\ RequeueAfter(p, delay)
  BY DEF Stamped
<1>2. worker = {p} /\ queue' = queue
  BY DEF Stamped
<1>3. delay \in Int /\ (ScheduleOf[p].interval > 0 => delay > 0)
  BY <1>1, <1>2 DEF Known, AnswerInv
<1>4. now' \in Nat \ {0} /\ Start <= now'
  BY <1>1, TimePasses, TimeAssumption DEF Known
<1>5. NeverForgotten' /\ timer' \in [Policies -> Nat] /\ queue' \in Seq(Policies)
  BY <1>1, <1>2, <1>3, <1>4, TimerRemembers DEF RequeueAfter
<1> QED BY <1>4, <1>5 DEF Known, LoopInv, AnswerInv, Stamped, Done, statusVars

\* A failed read asks for two minutes or for a positive delay.
LEMMA KnownUnread == ASSUME Known, NEW p \in Policies, Unread(p) PROVE Known'
<1>1. /\ now' \in Nat \ {0} /\ Start <= now'
      /\ worker = {p} /\ queue' = queue
  BY BusyTypes DEF Known, Unread
<1>2. PICK delay : /\ RequeueAfter(p, delay)
                   /\ \/ delay = PollInterval
                      \/ delay \in computeNextDelay(ScheduleOf[p], now', lastChecked[p])
  BY DEF Unread
<1>3. PollInterval \in Int /\ PollInterval > 0
  BY SecondAssumption DEF PollInterval, Minute
<1>4. lastChecked[p] \in Nat
  BY DEF Known, LoopInv
<1>5. delay \in Int /\ (ScheduleOf[p].interval > 0 => delay > 0)
  BY <1>1, <1>2, <1>3, <1>4, ScheduleTypes, DelayIsPositive, DelayIsAnInteger
<1>6. NeverForgotten' /\ timer' \in [Policies -> Nat] /\ queue' \in Seq(Policies)
  BY <1>1, <1>2, <1>5, TimerRemembers DEF RequeueAfter
<1> QED BY <1>1, <1>6 DEF Known, LoopInv, AnswerInv, Unread, Done, statusVars

\* An unsupported AMI asks for a positive delay.
LEMMA KnownUnsupported == ASSUME Known, NEW p \in Policies, Unsupported(p) PROVE Known'
<1>1. /\ now' \in Nat \ {0} /\ Start <= now'
      /\ worker = {p} /\ queue' = queue
  BY BusyTypes DEF Known, Unsupported
<1>2. PICK delay \in computeNextDelay(ScheduleOf[p], now', lastChecked[p]) : RequeueAfter(p, delay)
  BY DEF Unsupported
<1>3. lastChecked[p] \in Nat
  BY DEF Known, LoopInv
<1>4. delay \in Int /\ (ScheduleOf[p].interval > 0 => delay > 0)
  BY <1>1, <1>2, <1>3, ScheduleTypes, DelayIsPositive, DelayIsAnInteger
<1>5. NeverForgotten' /\ timer' \in [Policies -> Nat] /\ queue' \in Seq(Policies)
  BY <1>1, <1>2, <1>4, TimerRemembers DEF RequeueAfter
<1>6. inFlight' \in [Policies -> BOOLEAN]
  BY DEF Unsupported, Known, LoopInv
<1> QED BY <1>1, <1>5, <1>6 DEF Known, LoopInv, AnswerInv, Unsupported, Done

\* The rate limiter's delay is positive.
LEMMA KnownErrored == ASSUME Known, NEW p \in Policies, Errored(p) PROVE Known'
<1>1. /\ now' \in Nat \ {0} /\ Start <= now'
      /\ worker = {p} /\ queue' = queue
  BY BusyTypes DEF Known, Errored
<1>2. PICK delay \in Backoffs : timer' = [timer EXCEPT ![p] = now' + delay]
  BY DEF Errored
<1>3. delay \in Int /\ delay > 0
  BY <1>2, TimeAssumption
<1>4. timer' = [timer EXCEPT ![p] = IF delay > 0 THEN now' + delay ELSE Never]
  BY <1>2, <1>3
<1>5. NeverForgotten' /\ timer' \in [Policies -> Nat] /\ queue' \in Seq(Policies)
  BY <1>1, <1>3, <1>4, TimerRemembers
<1> QED BY <1>1, <1>5 DEF Known, LoopInv, AnswerInv, Errored, Done, statusVars

\* Every step keeps the invariant.
LEMMA KnownNext == Known /\ [Next]_vars => Known'
<1> SUFFICES ASSUME Known, [Next]_vars PROVE Known'
  OBVIOUS
<1>1. ASSUME NEW p \in Policies, Wake(p) \/ NotDue(p) \/ Proceed(p) \/ Checked(p) \/ Stamped(p)
      PROVE  Known'
  BY <1>1, KnownWake, KnownNotDue, KnownProceed, KnownChecked, KnownStamped
<1>2. ASSUME NEW p \in Policies, Return(p)
      PROVE  Known'
  BY <1>2, KnownSkip, KnownFollowed, KnownUnread, KnownUnsupported, KnownErrored DEF Return
<1>3. CASE Sleep
  BY <1>3, KnownSleep
<1>4. CASE UNCHANGED vars
  BY <1>4 DEF Known, LoopInv, AnswerInv, NeverForgotten, vars, statusVars
<1> QED BY <1>1, <1>2, <1>3, <1>4 DEF Next

\* Whatever the schedules, the failures and the timing, a policy with a
\* positive checkInterval always has a way back to the control loop.
THEOREM NothingForgotten == Spec => []NeverForgotten
<1>1. Known => NeverForgotten
  BY DEF Known
<1> QED BY <1>1, KnownInit, KnownNext, PTL DEF Spec

------------------------------------------------------------------------------
(***************************************************************************)
(* Cron slots are not overslept, when the startAfter of every valid cron   *)
(* has passed before the operator starts (the run start_after shows what   *)
(* happens otherwise) and no pass asks for a delay on a whole second.      *)
(***************************************************************************)

CronsStartAtOnce ==
  \A p \in Policies : ScheduleOf[p].cron = "valid" => ScheduleOf[p].startAfter <= Start

OffTheSecond == 0 \notin Fractions

IsSlot(s, n) == \E k \in Int : n = s.period * k

\* A quotient is determined by its bounds.
LEMMA QuotientIs ==
  ASSUME NEW v \in Int, NEW p \in Nat, p > 0, NEW k \in Int, p * k <= v, v < p * k + p
  PROVE  v \div p = k
<1> DEFINE q == v \div p
<1>1. q \in Int /\ p * q <= v /\ v < p * q + p
  BY DivisionBounds
<1> HIDE DEF q
<1>2. ~(q > k)
  <2> SUFFICES ASSUME q > k PROVE FALSE
    OBVIOUS
  <2>1. PICK m \in Nat : q = k + 1 + m
    BY <1>1
  <2>2. p * q = p * k + p + p * m /\ p * m >= 0
    BY <2>1
  <2> QED BY <1>1, <2>2
<1>3. ~(q < k)
  <2> SUFFICES ASSUME q < k PROVE FALSE
    OBVIOUS
  <2>1. PICK m \in Nat : k = q + 1 + m
    BY <1>1
  <2>2. p * k = p * q + p + p * m /\ p * m >= 0
    BY <1>1, <2>1
  <2> QED BY <1>1, <2>2
<1>4. q = k
  BY <1>1, <1>2, <1>3
<1> QED BY <1>4 DEF q

\* From a slot up to the one a period later, the next slot is that one.
LEMMA NextSlotIs ==
  ASSUME NEW s \in Schedule, OnMinutes(s), NEW n \in Int, IsSlot(s, n),
         NEW v \in Int, n <= v, v < n + s.period
  PROVE  NextSlot(s, v) = n + s.period
<1>1. PICK p \in Nat : p = s.period /\ p > 0
  BY DEF Schedule, OnMinutes
<1>2. PICK k \in Int : n = p * k
  BY <1>1 DEF IsSlot
<1>3. v \div p = k
  BY <1>1, <1>2, QuotientIs
<1>4. (k + 1) * p = p * k + p
  BY <1>1
<1> QED BY <1>1, <1>2, <1>3, <1>4 DEF NextSlot

\* The next slot is a slot, and so is the one a period before it.
LEMMA NextSlotIsSlot ==
  ASSUME NEW s \in Schedule, OnMinutes(s), NEW t \in Int
  PROVE  IsSlot(s, NextSlot(s, t)) /\ IsSlot(s, NextSlot(s, t) - s.period)
<1>1. PICK p \in Nat : p = s.period /\ p > 0
  BY DEF Schedule, OnMinutes
<1>2. PICK q \in Int : q = t \div p
  BY <1>1, DivisionBounds
<1>3. (q + 1) * p = p * (q + 1) /\ p * (q + 1) - p = p * q /\ q + 1 \in Int
  BY <1>1, <1>2
<1>4. NextSlot(s, t) = (q + 1) * p
  BY <1>1, <1>2 DEF NextSlot
<1> QED BY <1>1, <1>2, <1>3, <1>4 DEF IsSlot

\* A later instant has a later next slot, or the same.
LEMMA NextSlotMonotone ==
  ASSUME NEW s \in Schedule, OnMinutes(s), NEW t \in Int, NEW u \in Int, t <= u
  PROVE  NextSlot(s, t) <= NextSlot(s, u)
<1> DEFINE n == NextSlot(s, t) - s.period
<1>1. s.period \in Nat
  BY DEF Schedule
<1>2. n \in Int /\ n <= t /\ IsSlot(s, n) /\ NextSlot(s, t) = n + s.period
  BY <1>1, NextSlotBounds, NextSlotIsSlot
<1>3. u < NextSlot(s, u) /\ NextSlot(s, u) \in Int
  BY NextSlotBounds
<1> HIDE DEF n
<1>4. CASE u < n + s.period
  BY <1>1, <1>2, <1>4, NextSlotIs
<1>5. CASE ~(u < n + s.period)
  BY <1>1, <1>2, <1>3, <1>5
<1> QED BY <1>4, <1>5

\* Slots are whole minutes.
LEMMA SlotOnSecond ==
  ASSUME NEW s \in Schedule, OnMinutes(s), NEW n \in Int, IsSlot(s, n)
  PROVE  (n - Second) % Second = 0
<1>1. PICK k \in Int : n = s.period * k
  BY DEF IsSlot
<1>2. s.period \in Nat /\ Second \in Nat /\ Second > 0 /\ Minute \in Nat /\ Minute > 0
  BY SecondAssumption DEF Schedule, Minute
<1>3. PICK m \in Int : s.period = Minute * m
  <2> DEFINE m == s.period \div Minute
  <2>1. m \in Int
    BY <1>2
  <2>2. s.period = Minute * m + (s.period % Minute)
    BY <1>2
  <2>3. Minute * m \in Int
    BY <1>2, <2>1
  <2> HIDE DEF m
  <2> QED BY <2>1, <2>2, <2>3 DEF OnMinutes
<1>4. PICK j \in Int : n - Second = Second * j
  <2> DEFINE j == 60 * m * k - 1
  <2>1. j \in Int
    OBVIOUS
  <2>2. n = (60 * Second * m) * k
    BY <1>1, <1>3 DEF Minute
  <2>3. Second * j = (60 * Second * m) * k - Second
    BY <1>2
  <2> HIDE DEF j
  <2> QED BY <2>1, <2>2, <2>3
<1>5. (Second * j) % Second = 0
  <2>1. (Second * j) \div Second = j
    BY <1>2, QuotientIs
  <2>2. Second * j = Second * ((Second * j) \div Second) + ((Second * j) % Second)
    BY <1>2
  <2> QED BY <1>2, <2>1, <2>2
<1> QED BY <1>4, <1>5

\* The constants of scheduler.go in ticks.
LEMMA Constants ==
  /\ Second \in Nat /\ Second > 0
  /\ Minute = 60 * Second /\ EarlyTolerance = Second
  /\ LateTolerance = 5 * Second /\ Nudge = 6 * Second
BY SecondAssumption DEF Minute, EarlyTolerance, LateTolerance, Nudge

\* A period is a minute or more.
LEMMA PeriodBounds ==
  ASSUME NEW s \in Schedule, OnMinutes(s)
  PROVE  s.period \in Nat /\ s.period >= 60 * Second
<1>1. PICK p \in Nat : p = s.period /\ p > 0 /\ p % Minute = 0
  BY DEF Schedule, OnMinutes
<1>2. PICK m \in Nat : m = Minute /\ m > 0 /\ m = 60 * Second
  BY Constants
<1>3. ~(p < m)
  <2> SUFFICES ASSUME p < m PROVE FALSE
    OBVIOUS
  <2>1. p \div m = 0
    <3>1. m * 0 <= p /\ p < m * 0 + m
      BY <1>1, <1>2
    <3> QED BY <1>2, <3>1, QuotientIs
  <2>2. p = m * (p \div m) + (p % m)
    BY <1>2
  <2>3. p % m = 0
    BY <1>1, <1>2
  <2>4. p = m * 0 + 0
    BY <2>1, <2>2, <2>3
  <2> QED BY <1>1, <1>2, <2>4
<1> QED BY <1>1, <1>2, <1>3

\* A cron that is not due waits for the next slot.
LEMMA CronWait ==
  ASSUME NEW s \in Schedule, OnMinutes(s), s.cron = "valid",
         NEW t \in Int, NEW checked \in Nat,
         NextRun(s, t, checked).delay > 0
  PROVE  t + NextRun(s, t, checked).delay <= NextSlot(s, t + EarlyTolerance)
<1> DEFINE n == SlotFrom(s, t)
<1>1. n \in Int
  BY NextSlotBounds DEF SlotFrom
<1>2. NextRun(s, t, checked).delay = IF DueAt(s, t) THEN 0 ELSE n - t
  BY DEF NextRun
<1>3. ~DueAt(s, t) /\ NextRun(s, t, checked).delay = n - t
  BY <1>2
<1>4. n <= NextSlot(s, t + EarlyTolerance)
  BY Constants, NextSlotMonotone DEF SlotFrom
<1>5. NextSlot(s, t + EarlyTolerance) \in Int
  BY Constants, NextSlotBounds
<1> QED BY <1>1, <1>3, <1>4, <1>5

\* The nudge: away from the instant one second before a slot, a cron that is
\* due is asked again behind the late tolerance of the slot it is due for, is
\* not due there, and waits for the slot after.
LEMMA CronNudged ==
  ASSUME NEW s \in Schedule, OnMinutes(s), s.cron = "valid",
         NEW t \in Int, DueAt(s, t), t % Second # 0
  PROVE  /\ ~DueAt(s, t + Nudge)
         /\ SlotFrom(s, t + Nudge) > t + Nudge
         /\ SlotFrom(s, t + Nudge) = NextSlot(s, t + EarlyTolerance)
<1>1. s.period \in Nat /\ s.period >= 60 * Second
  BY PeriodBounds
\* The slot it is due for, and where t is from it.
<1>2. PICK n \in Int : /\ IsSlot(s, n)
                       /\ t - 5 * Second <= n /\ n < t + Second
  <2>1. CASE SlotFrom(s, t) - t <= EarlyTolerance
    <3> DEFINE n == SlotFrom(s, t)
    <3>1. n \in Int /\ IsSlot(s, n) /\ t <= n
      BY NextSlotBounds, NextSlotIsSlot DEF SlotFrom
    <3>2. n # t + Second
      <4> SUFFICES ASSUME n = t + Second PROVE FALSE
        OBVIOUS
      <4>1. n - Second = t
        BY Constants, <3>1
      <4> QED BY <3>1, <4>1, SlotOnSecond
    <3>3. n <= t + Second
      BY <2>1, <3>1, Constants
    <3> HIDE DEF n
    <3> QED BY <3>1, <3>2, <3>3, Constants
  <2>2. CASE LET prev == NextSlot(s, t - Minute) IN t > prev /\ t - prev <= LateTolerance
    <3> DEFINE n == NextSlot(s, t - Minute)
    <3>1. n \in Int /\ IsSlot(s, n)
      BY Constants, NextSlotBounds, NextSlotIsSlot
    <3>2. t > n /\ t - n <= LateTolerance
      BY <2>2
    <3> HIDE DEF n
    <3> QED BY <3>1, <3>2, Constants
  <2> QED BY <2>1, <2>2 DEF DueAt
<1>3. NextSlot(s, t + EarlyTolerance) = n + s.period
  BY <1>1, <1>2, Constants, NextSlotIs
<1>4. SlotFrom(s, t + Nudge) = n + s.period
  BY <1>1, <1>2, Constants, NextSlotIs DEF SlotFrom
<1>5. NextSlot(s, t + Nudge - Minute) = n
  <2>1. IsSlot(s, n - s.period)
    <3>1. PICK k \in Int : n = s.period * k
      BY <1>2 DEF IsSlot
    <3>2. PICK p \in Nat : p = s.period
      BY <1>1
    <3>3. p * k - p = p * (k - 1) /\ k - 1 \in Int
      BY <3>2
    <3> QED BY <3>1, <3>2, <3>3 DEF IsSlot
  <2>2. /\ n - s.period \in Int
        /\ n - s.period <= t + Nudge - Minute
        /\ t + Nudge - Minute < (n - s.period) + s.period
    BY <1>1, <1>2, Constants
  <2>3. NextSlot(s, t + Nudge - Minute) = (n - s.period) + s.period
    BY <2>1, <2>2, Constants, NextSlotIs
  <2> QED BY <1>1, <2>3
<1>6. n + s.period > t + Nudge /\ ~(n + s.period - (t + Nudge) <= EarlyTolerance)
  BY <1>1, <1>2, Constants
<1>7. ~(t + Nudge - n <= LateTolerance)
  BY <1>2, Constants
<1>8. ~DueAt(s, t + Nudge)
  <2>1. PICK u \in Int : u = t + Nudge
    BY Constants
  <2>2. ~(SlotFrom(s, u) - u <= EarlyTolerance)
    BY <1>1, <1>2, <1>4, <1>6, <2>1, Constants
  <2>3. ~(u - NextSlot(s, u - Minute) <= LateTolerance)
    BY <1>2, <1>5, <1>7, <2>1, Constants
  <2>4. ~DueAt(s, u)
    BY <2>2, <2>3 DEF DueAt
  <2> QED BY <2>1, <2>4
<1> QED BY <1>3, <1>4, <1>6, <1>8

\* Off the exact edge, computeNextDelay never goes past the next slot of a cron.
LEMMA CronDelay ==
  ASSUME NEW s \in Schedule, OnMinutes(s), s.cron = "valid",
         NEW t \in Int, t % Second # 0, NEW checked \in Nat,
         NEW d \in computeNextDelay(s, t, checked)
  PROVE  d \in Int /\ t + d <= NextSlot(s, t + EarlyTolerance)
<1> DEFINE first == NextRun(s, t, checked)
           nudged == NextRun(s, t + Nudge, checked)
<1>1. first.reason = "cron" /\ nudged.reason = "cron"
  BY DEF NextRun
<1>2. first.delay \in Int /\ nudged.delay \in Int
  BY Constants, NextRunType
<1>3. NextSlot(s, t + EarlyTolerance) \in Int
  BY Constants, NextSlotBounds
<1>4. CASE first.delay > 0
  <2>1. d = first.delay
    BY <1>1, <1>2, <1>4 DEF computeNextDelay, Jittered
  <2> QED BY <1>2, <1>4, <2>1, CronWait
<1>5. CASE ~(first.delay > 0)
  <2>1. DueAt(s, t)
    <3> SUFFICES ASSUME ~DueAt(s, t) PROVE FALSE
      OBVIOUS
    <3>1. first.delay = SlotFrom(s, t) - t
      BY DEF NextRun
    <3>2. ~(SlotFrom(s, t) - t <= EarlyTolerance) /\ SlotFrom(s, t) \in Int
      BY NextSlotBounds DEF DueAt, SlotFrom
    <3> QED BY <1>5, <3>1, <3>2, Constants
  <2>2. nudged.delay = SlotFrom(s, t + Nudge) - (t + Nudge)
    BY <2>1, CronNudged DEF NextRun
  <2>3. nudged.delay > 0
    BY <1>3, <2>1, <2>2, Constants, CronNudged
  <2>4. d = nudged.delay
    BY <1>1, <1>2, <1>5, <2>3 DEF computeNextDelay, Jittered
  <2> QED BY <1>2, <1>3, <2>1, <2>2, <2>4, Constants, CronNudged
<1> QED BY <1>4, <1>5

------------------------------------------------------------------------------
(***************************************************************************)
(* No slot is overslept, and none is lost but to the write of the stamps   *)
(* or to other policies that hold the worker.  The timer of a policy on a  *)
(* cron lies at its slot, or behind it by the write of the stamps; while   *)
(* it waits in the queue only the looks at others let time go by, and the  *)
(* one during which its last chance passes is remembered.                  *)
(***************************************************************************)

Queued(p) == \E i \in 1..Len(queue) : queue[i] = p

\* What SlotHonoured says, at every instant p waits for its slot; the look that
\* takes its last chance may still be under way.
Honoured(p) ==
  OnCron(p) /\ wrote[p] <= LateTolerance /\ (timer[p] # Never \/ Queued(p)) =>
    \/ now <= LastChance(p)
    \/ lostTo[p] # {}
    \/ worker # {} /\ taken <= LastChance(p)

MemoryInv ==
  /\ taken \in Nat /\ taken <= now
  /\ decidedAt \in [Policies -> Nat]
  /\ \A p \in Policies : Start <= decidedAt[p]
  /\ wrote \in [Policies -> Nat]
  /\ lostTo \in [Policies -> SUBSET Policies]

\* The delay that waits for the stamps leads to the next slot of a cron.
AnswerPunctual ==
  \A p \in Policies : p \in worker /\ ScheduleOf[p].cron = "valid" =>
    \A d \in answer : now + d <= NextSlot(ScheduleOf[p], now + EarlyTolerance)

HonourInv ==
  /\ Known
  /\ MemoryInv
  /\ AnswerPunctual
  /\ NeverOversleeps
  /\ \A p \in Policies : Honoured(p)

\* A step of SlotHistory is one of ScheduleLoop.
LEMMA HistoryStep == [HistoryNext]_historyVars => [Next]_vars
BY DEF HistoryNext, Next, historyVars

\* When crons start at once, the slot to use is the next one.
LEMMA SlotAfterIs ==
  ASSUME CronsStartAtOnce, NEW p \in Policies, ScheduleOf[p].cron = "valid",
         NEW t \in Nat, Start <= t
  PROVE  /\ SlotAfter(ScheduleOf[p], t) = NextSlot(ScheduleOf[p], t + EarlyTolerance)
         /\ SlotAfter(ScheduleOf[p], t) \in Int
         /\ t < SlotAfter(ScheduleOf[p], t)
<1>1. ~(ScheduleOf[p].startAfter > t)
  BY ScheduleTypes, TimeAssumption DEF CronsStartAtOnce
<1>2. SlotAfter(ScheduleOf[p], t) = NextSlot(ScheduleOf[p], t + EarlyTolerance)
  BY <1>1 DEF SlotAfter
<1>3. t + EarlyTolerance \in Int /\ t <= t + EarlyTolerance
  BY Constants
<1> QED BY <1>2, <1>3, ScheduleTypes, NextSlotBounds

\* The slot to use and the last chance are instants.
LEMMA ChanceType ==
  ASSUME MemoryInv, NEW p \in Policies, ScheduleOf[p].cron = "valid"
  PROVE  SlotToUse(p) \in Int /\ LastChance(p) \in Int
<1>1. decidedAt[p] \in Nat
  BY DEF MemoryInv
<1>2. (IF ScheduleOf[p].startAfter > decidedAt[p]
         THEN ScheduleOf[p].startAfter - 1 ELSE decidedAt[p]) + EarlyTolerance \in Int
  BY <1>1, ScheduleTypes, Constants
<1>3. SlotToUse(p) \in Int
  BY <1>2, ScheduleTypes, NextSlotBounds DEF SlotToUse, SlotAfter
<1> QED BY <1>3, Constants DEF LastChance

\* A cron is due during the late tolerance of each of its slots.
LEMMA DueWhenLate ==
  ASSUME NEW s \in Schedule, OnMinutes(s), NEW n \in Int, IsSlot(s, n - s.period),
         NEW t \in Int, n < t, t <= n + LateTolerance
  PROVE  DueAt(s, t)
<1>1. s.period \in Nat /\ s.period >= 60 * Second
  BY PeriodBounds
<1>2. /\ n - s.period \in Int
      /\ n - s.period <= t - Minute
      /\ t - Minute < (n - s.period) + s.period
      /\ t - Minute \in Int
  BY <1>1, Constants
<1>3. NextSlot(s, t - Minute) = (n - s.period) + s.period
  BY <1>2, NextSlotIs
<1>4. NextSlot(s, t - Minute) = n
  BY <1>1, <1>3
<1>5. t - n <= LateTolerance
  BY Constants
<1> QED BY <1>4, <1>5 DEF DueAt

\* What is left of the queue was there before.
LEMMA TakenQueue ==
  ASSUME LoopInv, NEW p \in Policies, Take(p), NEW q, Queued(q)'
  PROVE  Queued(q)
<1>1. PICK i \in 1..Len(queue') : queue'[i] = q
  BY DEF Queued
<1>2. queue \in Seq(Policies) /\ queue # <<>> /\ queue' = Tail(queue)
  BY DEF Take, LoopInv
<1>3. i + 1 \in 1..Len(queue) /\ queue[i + 1] = q
  BY <1>1, <1>2
<1> QED BY <1>3 DEF Queued

\* At start every slot is ahead.
LEMMA HonourInit ==
  ASSUME CronsStartAtOnce, HistoryInit
  PROVE  HonourInv
<1>1. /\ Init
      /\ now = Start /\ taken = Start /\ worker = {}
      /\ timer = [p \in Policies |-> Start]
      /\ decidedAt = [p \in Policies |-> Start]
      /\ wrote = [p \in Policies |-> 0]
      /\ lostTo = [p \in Policies |-> {}]
  BY DEF HistoryInit, Init
<1>2. Known
  BY <1>1, KnownInit
<1>3. MemoryInv
  BY <1>1, TimeAssumption DEF MemoryInv
<1>4. AnswerPunctual
  BY <1>1 DEF AnswerPunctual
<1>5. ASSUME NEW p \in Policies, ScheduleOf[p].cron = "valid"
      PROVE  timer[p] <= SlotToUse(p) + wrote[p] /\ now <= LastChance(p)
  <2>1. Start < SlotToUse(p) /\ SlotToUse(p) \in Int
    BY <1>1, <1>5, SlotAfterIs, TimeAssumption DEF SlotToUse
  <2>2. SlotToUse(p) + LateTolerance \in Int /\ SlotToUse(p) <= SlotToUse(p) + LateTolerance
    BY <2>1, Constants
  <2> QED BY <1>1, <2>1, <2>2, TimeAssumption DEF LastChance
<1> QED BY <1>2, <1>3, <1>4, <1>5 DEF HonourInv, Honoured, OnCron, NeverOversleeps

\* The delaying queue moves a policy that waits.
LEMMA HonourWake ==
  ASSUME HonourInv, Known', NEW p \in Policies, Wake(p), UNCHANGED memory
  PROVE  HonourInv'
<1>1. /\ UNCHANGED <<now, worker, answer, failing, inFlight>>
      /\ UNCHANGED <<taken, decidedAt, wrote, lostTo>>
  BY DEF Wake, statusVars, memory
<1>2. MemoryInv' /\ AnswerPunctual'
  BY <1>1 DEF HonourInv, MemoryInv, AnswerPunctual
<1>3. ASSUME NEW q \in Policies, timer'[q] # Never
      PROVE  timer'[q] = timer[q]
  BY <1>3 DEF Wake, HonourInv, Known, LoopInv
<1>4. ASSUME NEW q \in Policies, Queued(q)'
      PROVE  timer[q] # Never \/ Queued(q)
  <2>1. PICK i \in 1..Len(queue') : queue'[i] = q
    BY <1>4 DEF Queued
  <2>2. queue \in Seq(Policies) /\ queue' = Append(queue, p) /\ timer[p] # Never
    BY DEF Wake, HonourInv, Known, LoopInv
  <2>3. CASE i = Len(queue) + 1
    BY <2>1, <2>2, <2>3
  <2>4. CASE i # Len(queue) + 1
    <3>1. i \in 1..Len(queue) /\ queue[i] = q
      BY <2>1, <2>2, <2>4
    <3> QED BY <3>1 DEF Queued
  <2> QED BY <2>3, <2>4
<1>5. \A q \in Policies : (OnCron(q)' <=> OnCron(q)) /\ SlotToUse(q)' = SlotToUse(q) /\ LastChance(q)' = LastChance(q)
  BY <1>1 DEF OnCron, SlotToUse, LastChance
<1>6. NeverOversleeps'
  BY <1>1, <1>3, <1>5 DEF HonourInv, NeverOversleeps
<1>7. ASSUME NEW q \in Policies PROVE Honoured(q)'
  <2>1. Honoured(q)
    BY DEF HonourInv
  <2> QED BY <1>1, <1>3, <1>4, <1>5, <2>1 DEF Honoured
<1> QED BY <1>2, <1>6, <1>7 DEF HonourInv

\* The worker takes a policy: it is late for nobody yet.
LEMMA HonourTake ==
  ASSUME HonourInv, Known', NEW p \in Policies, NotDue(p) \/ Proceed(p),
         taken' = now, UNCHANGED <<decidedAt, wrote, lostTo>>
  PROVE  HonourInv'
<1>1. /\ UNCHANGED <<now, timer, failing, inFlight>>
      /\ Take(p) /\ worker = {} /\ worker' = {p}
  BY DEF NotDue, Proceed, statusVars, Take
<1>2. MemoryInv'
  BY <1>1 DEF HonourInv, Known, LoopInv, MemoryInv
<1>3. AnswerPunctual'
  <2> SUFFICES ASSUME ScheduleOf[p].cron = "valid", NEW d \in answer'
               PROVE  now + d <= NextSlot(ScheduleOf[p], now + EarlyTolerance)
    BY <1>1 DEF AnswerPunctual
  <2>1. NotDue(p)
    BY <1>1 DEF Proceed, HonourInv, Known, AnswerInv
  <2> DEFINE run == NextRun(ScheduleOf[p], now, lastChecked[p])
  <2>2. d = run.delay /\ run.delay > 0
    BY <2>1 DEF NotDue, Jittered, NextRun
  <2>3. now \in Int /\ lastChecked[p] \in Nat
    BY DEF HonourInv, Known, LoopInv
  <2> QED BY <2>2, <2>3, CronWait, ScheduleTypes
<1>4. \A q \in Policies : (OnCron(q)' => OnCron(q)) /\ SlotToUse(q)' = SlotToUse(q) /\ LastChance(q)' = LastChance(q)
  BY <1>1 DEF OnCron, SlotToUse, LastChance
<1>5. NeverOversleeps'
  BY <1>1, <1>4 DEF HonourInv, NeverOversleeps
<1>6. ASSUME NEW q \in Policies PROVE Honoured(q)'
  <2>1. Honoured(q)
    BY DEF HonourInv
  <2>2. Queued(q)' => Queued(q)
    BY <1>1, TakenQueue DEF HonourInv, Known
  <2> QED BY <1>1, <1>4, <2>1, <2>2 DEF Honoured
<1> QED BY <1>2, <1>3, <1>5, <1>6 DEF HonourInv

\* ProcessUpgrade takes time: if it takes somebody's last chance, it was taken
\* before that.
LEMMA HonourChecked ==
  ASSUME OffTheSecond, HonourInv, Known', NEW p \in Policies, Checked(p), UNCHANGED memory
  PROVE  HonourInv'
<1>1. /\ \E calls \in Durations, write \in Writes : Busy(p, calls + write)
      /\ lastChecked' \in [Policies -> Nat]
      /\ inFlight' = [inFlight EXCEPT ![p] = FALSE]
  BY ProcessedTypes DEF HonourInv, Known, Checked
<1>2. /\ now' \in Nat /\ now' >= now /\ now' % Second # 0
      /\ worker = {p} /\ queue' = queue
  BY <1>1, BusyTypes DEF HonourInv, Known, OffTheSecond
<1>3. UNCHANGED <<timer, worker, failing, taken, decidedAt, wrote, lostTo>>
  BY DEF Checked, memory
<1>4. now \in Nat /\ taken \in Nat /\ taken <= now
  BY DEF HonourInv, Known, LoopInv, MemoryInv
<1>5. MemoryInv'
  BY <1>2, <1>3, <1>4 DEF HonourInv, MemoryInv
<1>6. AnswerPunctual'
  <2> SUFFICES ASSUME ScheduleOf[p].cron = "valid", NEW d \in answer'
               PROVE  now' + d <= NextSlot(ScheduleOf[p], now' + EarlyTolerance)
    BY <1>2, <1>3 DEF AnswerPunctual
  <2>1. d \in computeNextDelay(ScheduleOf[p], now', lastChecked'[p])
    BY DEF Checked
  <2>2. now' \in Int /\ lastChecked'[p] \in Nat
    BY <1>1, <1>2
  <2> QED BY <1>2, <2>1, <2>2, CronDelay, ScheduleTypes
<1>7. \A q \in Policies : (OnCron(q)' => OnCron(q)) /\ SlotToUse(q)' = SlotToUse(q) /\ LastChance(q)' = LastChance(q)
  BY <1>1, <1>2, <1>3 DEF OnCron, SlotToUse, LastChance, HonourInv, Known, LoopInv
<1>8. NeverOversleeps'
  BY <1>3, <1>7 DEF HonourInv, NeverOversleeps
<1>9. ASSUME NEW q \in Policies PROVE Honoured(q)'
  <2> SUFFICES ASSUME OnCron(q), wrote[q] <= LateTolerance, timer[q] # Never \/ Queued(q)
               PROVE  lostTo[q] # {} \/ taken <= LastChance(q)
    BY <1>2, <1>3, <1>7 DEF Honoured, Queued
  <2>1. now <= LastChance(q) \/ lostTo[q] # {} \/ taken <= LastChance(q)
    BY DEF HonourInv, Honoured
  <2>2. LastChance(q) \in Int
    BY ChanceType DEF HonourInv, OnCron
  <2> QED BY <1>4, <2>1, <2>2
<1> QED BY <1>5, <1>6, <1>8, <1>9 DEF HonourInv

\* Nobody waits in the queue when the clock jumps, and it jumps to the first
\* of the timers.
LEMMA HonourSleep ==
  ASSUME HonourInv, Known', Sleep, UNCHANGED memory
  PROVE  HonourInv'
<1>1. /\ UNCHANGED <<timer, worker, failing, inFlight>>
      /\ UNCHANGED <<taken, decidedAt, wrote, lostTo>>
      /\ worker = {} /\ queue' = <<>>
  BY DEF Sleep, statusVars, memory
<1>2. now \in Nat /\ now' \in Nat /\ now <= now'
  BY DEF Sleep, HonourInv, Known, LoopInv
<1>3. MemoryInv' /\ AnswerPunctual'
  BY <1>1, <1>2 DEF HonourInv, MemoryInv, AnswerPunctual
<1>4. \A q \in Policies : (OnCron(q)' <=> OnCron(q)) /\ SlotToUse(q)' = SlotToUse(q) /\ LastChance(q)' = LastChance(q)
  BY <1>1 DEF OnCron, SlotToUse, LastChance
<1>5. NeverOversleeps'
  BY <1>1, <1>4 DEF HonourInv, NeverOversleeps
<1>6. ASSUME NEW q \in Policies PROVE Honoured(q)'
  <2> SUFFICES ASSUME OnCron(q), wrote[q] <= LateTolerance, timer[q] # Never
               PROVE  now' <= LastChance(q)
    BY <1>1, <1>4 DEF Honoured, Queued
  <2>1. timer[q] <= SlotToUse(q) + wrote[q]
    BY DEF HonourInv, NeverOversleeps
  <2>2. now' <= timer[q] /\ now' \in Nat /\ timer[q] \in Nat
    BY <1>2 DEF Sleep, HonourInv, Known, LoopInv
  <2>3. SlotToUse(q) \in Int /\ wrote[q] \in Nat
    BY ChanceType DEF HonourInv, OnCron, MemoryInv
  <2> QED BY <2>1, <2>2, <2>3, Constants DEF LastChance
<1> QED BY <1>3, <1>5, <1>6 DEF HonourInv

\* Time that has gone by, and a moment that has not gone by a tolerance.
LEMMA Span ==
  ASSUME NEW a \in Nat, NEW b \in Nat, a <= b
  PROVE  /\ b - a \in Nat
         /\ \A limit, slot \in Int : b - a <= limit /\ a < slot => b <= slot + limit
OBVIOUS

\* A look at p that returns makes p's own slot the next one, and is remembered
\* by those whose last chance it took.
LEMMA HonourRemember ==
  ASSUME CronsStartAtOnce, HonourInv, Known', NEW p \in Policies,
         NEW decided \in Nat, Start <= decided, decided <= now', now <= now',
         Remember(p, decided),
         worker = {p} \/ (worker = {} /\ now' = now),
         worker' = {}, answer' = {},
         \A q \in Policies \ {p} :
           /\ timer'[q] = timer[q] /\ inFlight'[q] = inFlight[q]
           /\ (q \in failing' <=> q \in failing)
           /\ (Queued(q)' => Queued(q)),
         ScheduleOf[p].cron = "valid" /\ ~inFlight'[p] /\ p \notin failing' /\ timer'[p] # Never =>
           timer'[p] <= NextSlot(ScheduleOf[p], decided + EarlyTolerance) + (now' - decided)
  PROVE  HonourInv'
<1>1. now \in Nat /\ now' \in Nat /\ taken \in Nat /\ taken <= now
  BY DEF HonourInv, Known, LoopInv, MemoryInv
<1>2. /\ taken' = taken
      /\ decidedAt' = [decidedAt EXCEPT ![p] = decided]
      /\ wrote' = [wrote EXCEPT ![p] = now' - decided]
      /\ lostTo' = [q \in Policies |->
                      IF q = p THEN {} ELSE IF Kept(p, q) THEN lostTo[q] \cup {p} ELSE lostTo[q]]
  BY DEF Remember
<1>3. now' - decided \in Nat
  <2>1. decided \in Nat /\ decided <= now'
    OBVIOUS
  <2> QED BY ONLY <1>1, <2>1, Span
<1>4. MemoryInv'
  BY <1>1, <1>2, <1>3 DEF HonourInv, MemoryInv
<1>5. AnswerPunctual'
  BY DEF AnswerPunctual
<1>6. /\ decidedAt'[p] = decided /\ wrote'[p] = now' - decided
      /\ \A q \in Policies \ {p} : decidedAt'[q] = decidedAt[q] /\ wrote'[q] = wrote[q]
  BY <1>2 DEF HonourInv, MemoryInv
<1>7. ASSUME NEW q \in Policies, q # p
      PROVE  SlotToUse(q)' = SlotToUse(q) /\ LastChance(q)' = LastChance(q)
  BY <1>6, <1>7 DEF SlotToUse, LastChance
<1>8. ASSUME ScheduleOf[p].cron = "valid"
      PROVE  /\ SlotToUse(p)' = NextSlot(ScheduleOf[p], decided + EarlyTolerance)
             /\ SlotToUse(p)' \in Int /\ decided < SlotToUse(p)'
  BY <1>6, <1>8, SlotAfterIs DEF SlotToUse
<1>9. ASSUME NEW q \in Policies, OnCron(q)', timer'[q] # Never
      PROVE  timer'[q] <= SlotToUse(q)' + wrote'[q]
  <2>1. CASE q = p
    BY <1>6, <1>8, <1>9, <2>1 DEF OnCron
  <2>2. CASE q # p
    <3>1. ScheduleOf[q].cron = "valid" /\ ~inFlight[q] /\ q \notin failing /\ timer[q] # Never
      BY <1>9, <2>2 DEF OnCron
    <3>2. q \notin worker
      BY <2>2
    <3>3. timer[q] <= SlotToUse(q) + wrote[q]
      BY <3>1, <3>2 DEF HonourInv, NeverOversleeps, OnCron
    <3> QED BY <1>6, <1>7, <2>2, <3>3
  <2> QED BY <2>1, <2>2
<1>10. ASSUME NEW q \in Policies PROVE Honoured(q)'
  <2> SUFFICES ASSUME OnCron(q)', wrote'[q] <= LateTolerance, timer'[q] # Never \/ Queued(q)'
               PROVE  now' <= LastChance(q)' \/ lostTo'[q] # {}
    BY DEF Honoured
  <2>1. CASE q = p
    <3>1. ScheduleOf[p].cron = "valid" /\ now' - decided <= LateTolerance
      BY <1>6, <2>1 DEF OnCron
    <3>2. SlotToUse(p)' \in Int /\ decided < SlotToUse(p)'
      BY <1>8, <3>1
    <3>3. decided \in Nat /\ decided <= now' /\ LateTolerance \in Int
      BY Constants
    <3>4. now' <= SlotToUse(p)' + LateTolerance
      BY ONLY <1>1, <3>1, <3>2, <3>3, Span
    <3> QED BY <2>1, <3>4 DEF LastChance
  <2>2. CASE q # p
    <3>1. OnCron(q) /\ wrote[q] <= LateTolerance /\ (timer[q] # Never \/ Queued(q))
      BY <1>6, <2>2 DEF OnCron
    <3>2. now <= LastChance(q) \/ lostTo[q] # {} \/ (worker # {} /\ taken <= LastChance(q))
      BY <3>1 DEF HonourInv, Honoured
    <3>3. LastChance(q) \in Int
      BY <3>1, ChanceType DEF HonourInv, OnCron
    <3>4. lostTo'[q] = IF Kept(p, q) THEN lostTo[q] \cup {p} ELSE lostTo[q]
      BY <1>2, <2>2
    <3>5. now' <= LastChance(q) \/ lostTo'[q] # {}
      <4>1. CASE worker = {p}
        <5>1. CASE lostTo[q] # {}
          BY <3>4, <5>1
        <5>2. CASE now <= LastChance(q) \/ taken <= LastChance(q)
          <6>1. taken <= LastChance(q)
            BY <1>1, <3>3, <5>2
          <6>2. now' <= LastChance(q) \/ now' > LastChance(q)
            BY <1>1, <3>3
          <6>3. now' > LastChance(q) => Kept(p, q)
            BY <4>1, <6>1 DEF Kept
          <6> QED BY <3>4, <6>2, <6>3
        <5> QED BY <3>2, <5>1, <5>2
      <4>2. CASE worker = {} /\ now' = now
        BY <3>2, <3>4, <4>2
      <4> QED BY <4>1, <4>2
    <3> QED BY <1>7, <2>2, <3>5
  <2> QED BY <2>1, <2>2
<1>11. NeverOversleeps'
  BY <1>9 DEF NeverOversleeps
<1> QED BY <1>4, <1>5, <1>10, <1>11 DEF HonourInv

\* What RequeueAfter does to the others.
LEMMA RequeueFrame ==
  ASSUME LoopInv, NEW p \in Policies, NEW delay, RequeueAfter(p, delay), NEW q \in Policies \ {p}
  PROVE  timer'[q] = timer[q] /\ (q \in failing' <=> q \in failing)
BY DEF RequeueAfter, LoopInv

\* computeNextDelay, asked off the second and returned at once.
LEMMA AskedNow ==
  ASSUME LoopInv, OffTheSecond, NEW p \in Policies, ScheduleOf[p].cron = "valid",
         now' \in Nat, now' % Second \in Fractions,
         NEW checked \in Nat, NEW delay \in computeNextDelay(ScheduleOf[p], now', checked),
         RequeueAfter(p, delay), timer'[p] # Never
  PROVE  timer'[p] <= NextSlot(ScheduleOf[p], now' + EarlyTolerance) + (now' - now')
<1>1. now' % Second # 0
  BY DEF OffTheSecond
<1>2. delay \in Int /\ now' + delay <= NextSlot(ScheduleOf[p], now' + EarlyTolerance)
  BY <1>1, CronDelay, ScheduleTypes
<1>3. timer'[p] = now' + delay
  BY <1>2 DEF LoopInv, RequeueAfter
<1>4. NextSlot(ScheduleOf[p], now' + EarlyTolerance) \in Int
  BY Constants, NextSlotBounds, ScheduleTypes
<1> QED BY <1>2, <1>3, <1>4

LEMMA HonourSkip ==
  ASSUME CronsStartAtOnce, HonourInv, Known', NEW p \in Policies, Skip(p), Remember(p, now')
  PROVE  HonourInv'
\* A cron that starts at once is never held back.
<1>1. ScheduleOf[p].cron # "valid"
  <2> SUFFICES ASSUME ScheduleOf[p].cron = "valid" PROVE FALSE
    OBVIOUS
  <2>1. ~(now < ScheduleOf[p].startAfter)
    BY ScheduleTypes, TimeAssumption DEF CronsStartAtOnce, HonourInv, Known, LoopInv
  <2>2. HeldBack(p) = 0
    BY <2>1 DEF HeldBack
  <2> QED BY <2>2 DEF Skip
<1>2. /\ now' = now /\ now' \in Nat /\ Start <= now'
      /\ Take(p) /\ worker = {} /\ worker' = {} /\ answer' = {}
  BY DEF Skip, Take, HonourInv, Known, LoopInv, AnswerInv
<1>3. PICK delay : RequeueAfter(p, delay)
  BY DEF Skip
<1>4. \A q \in Policies \ {p} :
        /\ timer'[q] = timer[q] /\ inFlight'[q] = inFlight[q]
        /\ (q \in failing' <=> q \in failing)
        /\ (Queued(q)' => Queued(q))
  BY <1>2, <1>3, RequeueFrame, TakenQueue DEF Skip, statusVars, HonourInv, Known
<1>5. now <= now'
  BY <1>2
<1> QED BY <1>1, <1>2, <1>4, <1>5, HonourRemember

LEMMA HonourFollowed ==
  ASSUME CronsStartAtOnce, HonourInv, Known', NEW p \in Policies, Followed(p), Remember(p, now')
  PROVE  HonourInv'
<1>1. /\ \E calls \in Durations, write \in Writes : Busy(p, calls + write)
      /\ inFlight' = [inFlight EXCEPT ![p] = TRUE]
  BY ProcessedTypes DEF HonourInv, Known, LoopInv, Followed
<1>2. /\ now' \in Nat /\ Start <= now' /\ now <= now'
      /\ worker = {p} /\ queue' = queue /\ worker' = {} /\ answer' = {}
  BY <1>1, BusyTypes DEF HonourInv, Known, Followed, Done
<1>3. RequeueAfter(p, PollInterval)
  BY DEF Followed
<1>4. inFlight'[p] /\ \A q \in Policies \ {p} : inFlight'[q] = inFlight[q]
  BY <1>1 DEF HonourInv, Known, LoopInv
<1>5. \A q \in Policies \ {p} :
        /\ timer'[q] = timer[q] /\ inFlight'[q] = inFlight[q]
        /\ (q \in failing' <=> q \in failing)
        /\ (Queued(q)' => Queued(q))
  BY <1>2, <1>3, <1>4, RequeueFrame DEF Queued, HonourInv, Known
<1> QED BY <1>2, <1>4, <1>5, HonourRemember

\* The write of the stamps makes the timer late by what it takes.
LEMMA HonourStamped ==
  ASSUME CronsStartAtOnce, HonourInv, Known', NEW p \in Policies, Stamped(p), Remember(p, now)
  PROVE  HonourInv'
<1>1. PICK delay \in answer, write \in Writes : now' = now + write /\ RequeueAfter(p, delay)
  BY DEF Stamped
<1>2. write \in Nat /\ now \in Nat /\ Start <= now /\ now <= now' /\ now' - now = write
  BY <1>1, TimeAssumption DEF HonourInv, Known, LoopInv
<1>3. worker = {p} /\ queue' = queue /\ worker' = {} /\ answer' = {} /\ inFlight' = inFlight
  BY DEF Stamped, Done, statusVars
<1>4. \A q \in Policies \ {p} :
        /\ timer'[q] = timer[q] /\ inFlight'[q] = inFlight[q]
        /\ (q \in failing' <=> q \in failing)
        /\ (Queued(q)' => Queued(q))
  BY <1>1, <1>3, RequeueFrame DEF Queued, HonourInv, Known
<1>5. ASSUME ScheduleOf[p].cron = "valid", timer'[p] # Never
      PROVE  timer'[p] <= NextSlot(ScheduleOf[p], now + EarlyTolerance) + (now' - now)
  <2>1. delay \in Int /\ now + delay <= NextSlot(ScheduleOf[p], now + EarlyTolerance)
    BY <1>1, <1>3, <1>5 DEF HonourInv, Known, AnswerInv, AnswerPunctual
  <2>2. timer'[p] = now' + delay
    BY <1>1, <1>5 DEF RequeueAfter, HonourInv, Known, LoopInv
  <2>3. now + EarlyTolerance \in Int
    BY <1>2, Constants
  <2>4. NextSlot(ScheduleOf[p], now + EarlyTolerance) \in Int
    BY <1>5, <2>3, NextSlotBounds, ScheduleTypes
  <2> QED BY <1>1, <1>2, <2>1, <2>2, <2>4
<1> QED BY <1>2, <1>3, <1>4, <1>5, HonourRemember

LEMMA HonourUnread ==
  ASSUME CronsStartAtOnce, OffTheSecond, HonourInv, Known', NEW p \in Policies, Unread(p),
         Remember(p, now')
  PROVE  HonourInv'
<1>1. /\ now' \in Nat /\ Start <= now' /\ now <= now' /\ now' % Second \in Fractions
      /\ worker = {p} /\ queue' = queue /\ worker' = {} /\ answer' = {} /\ inFlight' = inFlight
  BY BusyTypes DEF HonourInv, Known, Unread, Done, statusVars
<1>2. PICK delay : /\ RequeueAfter(p, delay)
                   /\ inFlight[p] \/ delay \in computeNextDelay(ScheduleOf[p], now', lastChecked[p])
  BY DEF Unread
<1>3. \A q \in Policies \ {p} :
        /\ timer'[q] = timer[q] /\ inFlight'[q] = inFlight[q]
        /\ (q \in failing' <=> q \in failing)
        /\ (Queued(q)' => Queued(q))
  BY <1>1, <1>2, RequeueFrame DEF Queued, HonourInv, Known
<1>4. ASSUME ScheduleOf[p].cron = "valid", ~inFlight'[p], timer'[p] # Never
      PROVE  timer'[p] <= NextSlot(ScheduleOf[p], now' + EarlyTolerance) + (now' - now')
  <2>1. lastChecked[p] \in Nat
    BY DEF HonourInv, Known, LoopInv
  <2> QED BY <1>1, <1>2, <1>4, <2>1, AskedNow DEF HonourInv, Known
<1> QED BY <1>1, <1>3, <1>4, HonourRemember

LEMMA HonourUnsupported ==
  ASSUME CronsStartAtOnce, OffTheSecond, HonourInv, Known', NEW p \in Policies, Unsupported(p),
         Remember(p, now')
  PROVE  HonourInv'
<1>1. /\ now' \in Nat /\ Start <= now' /\ now <= now' /\ now' % Second \in Fractions
      /\ worker = {p} /\ queue' = queue /\ worker' = {} /\ answer' = {}
  BY BusyTypes DEF HonourInv, Known, Unsupported, Done
<1>2. PICK delay \in computeNextDelay(ScheduleOf[p], now', lastChecked[p]) : RequeueAfter(p, delay)
  BY DEF Unsupported
<1>3. \A q \in Policies \ {p} : inFlight'[q] = inFlight[q]
  BY DEF Unsupported, HonourInv, Known, LoopInv
<1>4. \A q \in Policies \ {p} :
        /\ timer'[q] = timer[q] /\ inFlight'[q] = inFlight[q]
        /\ (q \in failing' <=> q \in failing)
        /\ (Queued(q)' => Queued(q))
  BY <1>1, <1>2, <1>3, RequeueFrame DEF Queued, HonourInv, Known
<1>5. ASSUME ScheduleOf[p].cron = "valid", timer'[p] # Never
      PROVE  timer'[p] <= NextSlot(ScheduleOf[p], now' + EarlyTolerance) + (now' - now')
  <2>1. lastChecked[p] \in Nat
    BY DEF HonourInv, Known, LoopInv
  <2> QED BY <1>1, <1>2, <1>5, <2>1, AskedNow DEF HonourInv, Known
<1> QED BY <1>1, <1>4, <1>5, HonourRemember

\* After an error nothing is promised of p.
LEMMA HonourErrored ==
  ASSUME CronsStartAtOnce, HonourInv, Known', NEW p \in Policies, Errored(p), Remember(p, now')
  PROVE  HonourInv'
<1>1. /\ now' \in Nat /\ Start <= now' /\ now <= now'
      /\ worker = {p} /\ queue' = queue /\ worker' = {} /\ answer' = {} /\ inFlight' = inFlight
  BY BusyTypes DEF HonourInv, Known, Errored, Done, statusVars
<1>2. p \in failing' /\ \A q \in Policies \ {p} : q \in failing' <=> q \in failing
  BY DEF Errored
<1>3. \A q \in Policies \ {p} : timer'[q] = timer[q]
  BY DEF Errored, HonourInv, Known, LoopInv
<1>4. \A q \in Policies \ {p} :
        /\ timer'[q] = timer[q] /\ inFlight'[q] = inFlight[q]
        /\ (q \in failing' <=> q \in failing)
        /\ (Queued(q)' => Queued(q))
  BY <1>1, <1>2, <1>3 DEF Queued
<1> QED BY <1>1, <1>2, <1>4, HonourRemember

LEMMA HonourNext ==
  ASSUME CronsStartAtOnce, OffTheSecond, HonourInv, [HistoryNext]_historyVars
  PROVE  HonourInv'
<1>1. Known'
  BY HistoryStep, KnownNext DEF HonourInv
<1>2. ASSUME NEW p \in Policies, NotDue(p) \/ Proceed(p), taken' = now,
             UNCHANGED <<decidedAt, wrote, lostTo>>
      PROVE  HonourInv'
  BY <1>1, <1>2, HonourTake
<1>3. ASSUME NEW p \in Policies, Stamped(p), Remember(p, now)
      PROVE  HonourInv'
  BY <1>1, <1>3, HonourStamped
<1>4. ASSUME NEW p \in Policies, Return(p), Remember(p, now')
      PROVE  HonourInv'
  BY <1>1, <1>4, HonourSkip, HonourFollowed, HonourUnread, HonourUnsupported, HonourErrored DEF Return
<1>5. ASSUME NEW p \in Policies, Wake(p) \/ Checked(p), UNCHANGED memory
      PROVE  HonourInv'
  BY <1>1, <1>5, HonourWake, HonourChecked
<1>6. CASE Sleep /\ UNCHANGED memory
  BY <1>1, <1>6, HonourSleep
<1>7. CASE UNCHANGED historyVars
  <2>1. /\ UNCHANGED <<now, timer, queue, worker, answer, failing, inFlight>>
        /\ UNCHANGED <<taken, decidedAt, wrote, lostTo>>
    BY <1>7 DEF historyVars, vars, statusVars, memory
  <2>2. MemoryInv' /\ AnswerPunctual' /\ NeverOversleeps'
    BY <2>1 DEF HonourInv, MemoryInv, AnswerPunctual, NeverOversleeps, OnCron, SlotToUse
  <2>3. ASSUME NEW q \in Policies PROVE Honoured(q)'
    <3>1. Honoured(q)
      BY DEF HonourInv
    <3> QED BY <2>1, <3>1 DEF Honoured, OnCron, Queued, SlotToUse, LastChance
  <2> QED BY <1>1, <2>2, <2>3 DEF HonourInv
<1> QED BY <1>2, <1>3, <1>4, <1>5, <1>6, <1>7 DEF HistoryNext

\* A look that finds a cron not due is ahead of its slot, or its last chance has
\* passed, and with it somebody else's look or its own slow write.
LEMMA HonouredWhenNotDue ==
  ASSUME CronsStartAtOnce, HonourInv, NEW p \in Policies, NotDue(p), OnCron(p)
  PROVE  now <= SlotToUse(p) \/ wrote[p] > LateTolerance \/ lostTo[p] # {}
<1> SUFFICES ASSUME ~(wrote[p] > LateTolerance), lostTo[p] = {}
             PROVE  now <= SlotToUse(p)
  OBVIOUS
<1>1. Queued(p) /\ worker = {}
  <2>1. queue \in Seq(Policies) /\ queue # <<>> /\ Head(queue) = p /\ worker = {}
    BY DEF NotDue, Take, HonourInv, Known, LoopInv
  <2>2. 1 \in 1..Len(queue) /\ queue[1] = p
    BY <2>1
  <2> QED BY <2>1, <2>2 DEF Queued
<1>2. wrote[p] <= LateTolerance
  BY Constants DEF HonourInv, MemoryInv
<1>3. now <= LastChance(p)
  BY <1>1, <1>2 DEF HonourInv, Honoured
<1>4. decidedAt[p] \in Nat /\ Start <= decidedAt[p] /\ ScheduleOf[p].cron = "valid"
  BY DEF HonourInv, MemoryInv, OnCron
<1>5. /\ SlotToUse(p) = NextSlot(ScheduleOf[p], decidedAt[p] + EarlyTolerance)
      /\ SlotToUse(p) \in Int
  BY <1>4, SlotAfterIs DEF SlotToUse
<1>6. decidedAt[p] + EarlyTolerance \in Int
  BY <1>4, Constants
<1>7. IsSlot(ScheduleOf[p], SlotToUse(p) - ScheduleOf[p].period)
  BY <1>4, <1>5, <1>6, ScheduleTypes, NextSlotIsSlot
<1>8. ~DueAt(ScheduleOf[p], now)
  BY <1>4 DEF NotDue, NextRun
<1>9. now \in Int
  BY DEF HonourInv, Known, LoopInv
<1>10. ~(SlotToUse(p) < now /\ now <= SlotToUse(p) + LateTolerance)
  BY <1>4, <1>5, <1>7, <1>8, <1>9, ScheduleTypes, DueWhenLate
<1> QED BY <1>3, <1>5, <1>9, <1>10, Constants DEF LastChance

\* No cron slot is overslept, whatever fails and however long a pass and a write
\* take, but for the write of the policy's own stamps, if valid crons have no
\* startAfter ahead and no pass asks for a delay on a whole second.
THEOREM NothingOverslept ==
  ASSUME CronsStartAtOnce, OffTheSecond
  PROVE  HistorySpec => []NeverOversleeps
<1>1. HistoryInit => HonourInv
  BY HonourInit
<1>2. HonourInv /\ [HistoryNext]_historyVars => HonourInv'
  BY HonourNext
<1>3. HonourInv => NeverOversleeps
  BY DEF HonourInv
<1> QED BY <1>1, <1>2, <1>3, PTL DEF HistorySpec

\* A cron slot is lost only to a slow write of the policy's own stamps or to the
\* looks at other policies that keep the worker through the end of its late
\* tolerance, under the same two assumptions.
THEOREM SlotsHonoured ==
  ASSUME CronsStartAtOnce, OffTheSecond
  PROVE  HistorySpec => SlotHonoured
<1> DEFINE Honours ==
      \A p \in Policies :
        NotDue(p) /\ OnCron(p) =>
          \/ now <= SlotToUse(p)
          \/ wrote[p] > LateTolerance
          \/ lostTo[p] # {}
<1>1. HistoryInit => HonourInv
  BY HonourInit
<1>2. HonourInv /\ [HistoryNext]_historyVars => HonourInv'
  BY HonourNext
<1>3. HonourInv => Honours
  BY HonouredWhenNotDue
<1>4. HonourInv /\ [HistoryNext]_historyVars => [Honours]_historyVars
  BY <1>3
<1> QED BY <1>1, <1>2, <1>4, PTL DEF HistorySpec, SlotHonoured
=============================================================================
