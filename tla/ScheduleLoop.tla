---------------------------- MODULE ScheduleLoop ----------------------------
(***************************************************************************)
(* Several policies, one worker and a clock: when the control loop looks   *)
(* at which policy.  Reconciler leaves open whether a schedule is due;     *)
(* here Scheduler decides that, and what a pass does to AWS is left open.  *)
(* A pass takes time, and so does the write of the schedule stamps between *)
(* the moment a delay is computed and the return it is counted from; the   *)
(* timers of other policies run out meanwhile and wait in the queue.  The  *)
(* clock jumps to the next timer.  All policies carry the finalizer.       *)
(***************************************************************************)
EXTENDS Scheduler, Sequences

CONSTANTS
  Policies,
  ScheduleOf,   \* the schedule of each policy
  MinInterval,  \* the cooldown: six hours in the code
  Start,        \* bound: when the operator starts
  Durations,    \* bound: how long the calls of a pass take
  Writes,       \* bound: how long a status write takes
  Fractions,    \* bound: at which fractions of a second computeNextDelay is asked
  Backoffs,     \* bound: the rate limiter's delays after an error
  Horizon       \* bound: the last timer looked at

ASSUME ScheduleAssumption ==
  \A p \in Policies :
    ScheduleOf[p] \in Schedule /\ (ScheduleOf[p].cron = "valid" => OnMinutes(ScheduleOf[p]))
ASSUME TimeAssumption ==
  /\ MinInterval \in Nat /\ Start \in Nat \ {0} /\ Horizon \in Nat
  /\ Durations \subseteq Nat /\ Writes \subseteq Nat /\ Fractions \subseteq Nat
  /\ Backoffs \subseteq Nat \ {0}

VARIABLES
  now,
  timer,       \* when the delaying queue adds each policy
  queue,       \* the policies to look at
  worker,      \* the policy that is being looked at: one at most
  answer,      \* the delay computed for it, while its stamps are written: one at most
  failing,     \* the policies whose last look ended in an error
  lastChecked, \* status.lastChecked
  lastAttempt, \* status.lastUpgradeAttempt
  inFlight     \* isInFlight(policy)

statusVars == <<lastChecked, lastAttempt, inFlight>>
vars == <<now, timer, queue, worker, answer, failing, statusVars>>

Never == 0     \* no timer
PollInterval == 2 * Minute

Init ==
  /\ now = Start
  /\ timer = [p \in Policies |-> Start]      \* the informer lists them all
  /\ queue = <<>>
  /\ worker = {}
  /\ answer = {}
  /\ failing = {}
  /\ lastChecked = [p \in Policies |-> NoTime]
  /\ lastAttempt = [p \in Policies |-> NoTime]
  /\ inFlight = [p \in Policies |-> FALSE]

\* controller-runtime adds the key again only after a positive RequeueAfter,
\* and the rate limiter forgets its failures.
RequeueAfter(p, delay) ==
  /\ timer' = [timer EXCEPT ![p] = IF delay > 0 THEN now' + delay ELSE Never]
  /\ failing' = failing \ {p}

\* The delaying queue adds p.
Wake(p) ==
  /\ timer[p] # Never /\ timer[p] <= now
  /\ queue' = Append(queue, p)
  /\ timer' = [timer EXCEPT ![p] = Never]
  /\ UNCHANGED <<now, worker, answer, failing, statusVars>>

\* Nothing to do until the next timer.
Sleep ==
  /\ worker = {} /\ queue = <<>>
  /\ \A p \in Policies : timer[p] = Never \/ timer[p] > now
  /\ \E p \in Policies :
       /\ timer[p] # Never /\ timer[p] <= Horizon
       /\ \A q \in Policies : timer[q] = Never \/ timer[p] <= timer[q]
       /\ now' = timer[p]
  /\ UNCHANGED <<timer, queue, worker, answer, failing, statusVars>>

------------------------------------------------------------------------------
\* One look at a policy: the guards, the schedule gate, and what needs AWS.

\* The worker takes the first key.
Take(p) == worker = {} /\ queue # <<>> /\ Head(queue) = p /\ queue' = Tail(queue)

\* ShouldSkip's wait: for startAfter, or for the end of an interval's cooldown.
HeldBack(p) ==
  LET s == ScheduleOf[p]
  IN  IF now < s.startAfter THEN s.startAfter - now
      ELSE IF s.cron = "none" /\ lastAttempt[p] # NoTime /\ now < lastAttempt[p] + MinInterval
        THEN lastAttempt[p] + MinInterval - now
        ELSE 0

\* handleGuards jitters the wait of every schedule, and returns at once.
Skip(p) ==
  /\ Take(p)
  /\ HeldBack(p) > 0
  /\ UNCHANGED <<now, worker, answer, statusVars>>
  /\ \E delay \in Jitter(HeldBack(p)) : RequeueAfter(p, delay)

\* whenToRunNext: not due.  The delay is computed, and the stamps go out.
NotDue(p) ==
  LET run == NextRun(ScheduleOf[p], now, lastChecked[p])
  IN  /\ Take(p)
      /\ HeldBack(p) = 0
      /\ ~inFlight[p] /\ run.delay > 0
      /\ worker' = {p}
      /\ \E delay \in Jittered(run) : answer' = {delay}
      /\ UNCHANGED <<now, timer, failing, statusVars>>

\* Due, or an update is in flight: the pass goes on to AWS.
Proceed(p) ==
  /\ Take(p)
  /\ HeldBack(p) = 0
  /\ inFlight[p] \/ NextRun(ScheduleOf[p], now, lastChecked[p]).delay <= 0
  /\ worker' = {p}
  /\ UNCHANGED <<now, timer, answer, failing, statusVars>>

\* The pass over p is past the gate, and computes no delay before `time` is over.
Busy(p, time) ==
  /\ worker = {p} /\ answer = {}
  /\ now' = now + time /\ now' % Second \in Fractions
  /\ UNCHANGED queue

\* Reconcile returns.
Done == worker' = {} /\ answer' = {}

\* A metav1.Time as the API server gives it back: whole seconds.
Stored(t) == t - (t % Second)

\* ProcessUpgrade returns no error: its status write has succeeded, with the
\* lastChecked it set before.
Processed(p, following, attempted) ==
  /\ \E calls \in Durations, write \in Writes :
       /\ Busy(p, calls + write)
       /\ lastChecked' = [lastChecked EXCEPT ![p] = Stored(now + calls)]
       /\ lastAttempt' = [lastAttempt EXCEPT ![p] = IF attempted THEN Stored(now + calls) ELSE @]
  /\ inFlight' = [inFlight EXCEPT ![p] = following]

\* An update has been started, or the one in flight goes on.
Followed(p) ==
  /\ Processed(p, TRUE, ~inFlight[p])
  /\ RequeueAfter(p, PollInterval) /\ Done

\* None is in flight: the one followed has ended, or none was started.  The
\* delay is computed, and the stamps go out.
Checked(p) ==
  /\ \E attempted \in BOOLEAN : (inFlight[p] => ~attempted) /\ Processed(p, FALSE, attempted)
  /\ \E delay \in computeNextDelay(ScheduleOf[p], now', lastChecked'[p]) : answer' = {delay}
  /\ UNCHANGED <<timer, worker, failing>>

\* The stamps are written, or the write has failed: Reconcile returns the delay
\* as it was computed before.
Stamped(p) ==
  /\ worker = {p}
  /\ \E delay \in answer, write \in Writes : now' = now + write /\ RequeueAfter(p, delay)
  /\ Done
  /\ UNCHANGED <<queue, statusVars>>

\* An AWS read failed and Reconcile returned no error: while an update is in
\* flight describeNodegroupOrRequeue and getClientsOrRequeue poll, and
\* resolveLatestOrRequeue keeps to the schedule.
Unread(p) ==
  /\ \E calls \in Durations : Busy(p, calls)
  /\ \/ inFlight[p] /\ RequeueAfter(p, PollInterval)
     \/ \E delay \in computeNextDelay(ScheduleOf[p], now', lastChecked[p]) :
          RequeueAfter(p, delay)
  /\ Done
  /\ UNCHANGED statusVars

\* resolveLatestOrRequeue finds AL2 unsupported: the status is Skipped, if the
\* best-effort write succeeds, and the delay is computed after it.
Unsupported(p) ==
  /\ \E calls \in Durations, write \in Writes : Busy(p, calls + write)
  /\ inFlight' \in {inFlight, [inFlight EXCEPT ![p] = FALSE]}
  /\ \E delay \in computeNextDelay(ScheduleOf[p], now', lastChecked[p]) : RequeueAfter(p, delay)
  /\ Done
  /\ UNCHANGED <<lastChecked, lastAttempt>>

\* Reconcile returned an error: the rate limiter decides.
Errored(p) ==
  /\ \E calls \in Durations : Busy(p, calls)
  /\ \E delay \in Backoffs : timer' = [timer EXCEPT ![p] = now' + delay]
  /\ failing' = failing \cup {p}
  /\ Done
  /\ UNCHANGED statusVars

\* Reconcile returns with nothing to write after the delay.
Return(p) == Skip(p) \/ Followed(p) \/ Unread(p) \/ Unsupported(p) \/ Errored(p)

Next ==
  \/ \E p \in Policies :
       Wake(p) \/ NotDue(p) \/ Proceed(p) \/ Checked(p) \/ Stamped(p) \/ Return(p)
  \/ Sleep

Spec == Init /\ [][Next]_vars

------------------------------------------------------------------------------
(* Properties *)

\* A policy whose checkInterval is positive is never forgotten: it is being
\* worked on, or queued, or has a timer.  Reconcile's only way to come back by
\* itself is a positive RequeueAfter, and computeNextDelay must find one even
\* when the schedule is due again at once: on a first check that failed, on a
\* cron slot's boundary, or with a cron that never matches.
NeverForgotten ==
  \A p \in Policies :
    ScheduleOf[p].interval > 0 =>
      \/ timer[p] # Never
      \/ p \in worker
      \/ \E i \in 1..Len(queue) : queue[i] = p
=============================================================================
