---------------------------- MODULE SlotHistory ----------------------------
(***************************************************************************)
(* ScheduleLoop with a memory of each policy's last look: what becomes of  *)
(* the cron slots in between.  A look that finds a cron not due only waits *)
(* for its next slot, so a slot that went by unlooked at is lost, for a    *)
(* nightly cron until the next night.                                      *)
(***************************************************************************)
EXTENDS ScheduleLoop

VARIABLES
  taken,      \* when the worker took the policy it is at
  decidedAt,  \* when each policy's delay was computed
  wrote,      \* how long the write of its stamps took after that
  lostTo      \* the others that kept the worker beyond its slot's late tolerance

memory == <<taken, decidedAt, wrote, lostTo>>
historyVars == <<vars, memory>>

HistoryInit ==
  /\ Init
  /\ taken = Start
  /\ decidedAt = [p \in Policies |-> Start]
  /\ wrote = [p \in Policies |-> 0]
  /\ lostTo = [p \in Policies |-> {}]

\* The first slot that a look leaves to the next one: not one it was already
\* inside the early tolerance of, and not one before startAfter.
SlotAfter(s, t) ==
  NextSlot(s, (IF s.startAfter > t THEN s.startAfter - 1 ELSE t) + EarlyTolerance)

SlotToUse(p) == SlotAfter(ScheduleOf[p], decidedAt[p])

LastChance(p) == SlotToUse(p) + LateTolerance

\* A look at p that returns now has kept the worker while q's slot was lost.
Kept(p, q) == worker = {p} /\ taken <= LastChance(q) /\ now' > LastChance(q)

Remember(p, decided) ==
  /\ decidedAt' = [decidedAt EXCEPT ![p] = decided]
  /\ wrote' = [wrote EXCEPT ![p] = now' - decided]
  /\ lostTo' = [q \in Policies |->
                  IF q = p THEN {} ELSE IF Kept(p, q) THEN lostTo[q] \cup {p} ELSE lostTo[q]]
  /\ UNCHANGED taken

HistoryNext ==
  \/ \E p \in Policies :
       /\ NotDue(p) \/ Proceed(p)
       /\ taken' = now
       /\ UNCHANGED <<decidedAt, wrote, lostTo>>
  \/ \E p \in Policies : (Stamped(p) /\ Remember(p, now)) \/ (Return(p) /\ Remember(p, now'))
  \/ \E p \in Policies : (Wake(p) \/ Checked(p)) /\ UNCHANGED memory
  \/ Sleep /\ UNCHANGED memory

HistorySpec == HistoryInit /\ [][HistoryNext]_historyVars

------------------------------------------------------------------------------
(* Properties *)

\* On a valid cron, follows no update and has met no error, and is not being
\* looked at.
OnCron(p) == ScheduleOf[p].cron = "valid" /\ ~inFlight[p] /\ p \notin failing /\ p \notin worker

\* A policy on a cron is back at the first slot it may use, later only by the
\* write of its own stamps, which Reconcile makes between computing the delay
\* and returning it.  A slot that the timer leaves behind by more than the late
\* tolerance is lost, since that look only waits for the next.
NeverOversleeps ==
  \A p \in Policies :
    OnCron(p) /\ timer[p] # Never => timer[p] <= SlotToUse(p) + wrote[p]

\* A slot is lost only to the policy's own write of its stamps, if that took
\* longer than the late tolerance, or to other policies that kept the worker
\* until the late tolerance was over: when a look at a policy on a valid cron,
\* whose last look met no error, finds it not due (NextRun's tolerances at
\* scheduler.go:107-138), its slot is still ahead, or one of the two happened.
SlotHonoured ==
  [][\A p \in Policies :
       NotDue(p) /\ OnCron(p) =>
         \/ now <= SlotToUse(p)
         \/ wrote[p] > LateTolerance
         \/ lostTo[p] # {}]_historyVars
=============================================================================
