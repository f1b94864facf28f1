# TLA+ models of eks-ami-operator

The operator keeps EKS managed nodegroups on the AMI release that AWS
recommends. A user writes a `NodeGroupUpgradePolicy`; the controller compares
the nodegroup's release with the one published in SSM, starts an update when
the policy allows it, follows the update by its id, and comes back by cron or
interval. These modules model the control loop and everything it talks to, and
check and prove what makes it correct.

## Inventory

| Component (source) | State it keeps | Operations | Hard behaviour | What makes it correct |
|---|---|---|---|---|
| Reconciler (`internal/controller/..._controller.go`) | none between passes; one pass holds a working copy of the policy, the nodegroup's release, the cluster's version, the recommended release | `Reconcile`, guards, schedule gate, AWS reads, stamps | a pass is a chain of remote calls on a copy that may be stale; every exit must ask to be called again, or rightly not | no wakeup is lost; an update in flight is not left to the schedule; a deleted policy goes |
| Upgrade (`internal/upgrade`) | `policy.status` | `ProcessUpgrade`: track, compliant, skipped, initiate, refused | the id of an update is in memory until the status write; crash, conflict, lost answer | each update the operator starts is tracked; outcomes are reported truly; six hours between attempts |
| AWS helpers (`internal/awsutils`) | none | describe, resolve the AMI path, retry with backoff | the AL2 cutoff at 1.33, CUSTOM; types the code does not list get an AL2 or AL2023 path | the release resolved is one of the nodegroup's own family; CUSTOM is left alone |
| Finalizer (`internal/finalizer`) | `metadata.finalizers` | add, remove | conflicts, lost answers, deletion while adding | work is only done for an object that holds the finalizer; deletion completes |
| Scheduler (`internal/scheduler`) | package RNG | `ShouldSkip`, `NextRun`, `ParseInterval`, `Jitter` | tolerances around cron slots, zero and negative delays | the next run is in the future and not later than the next slot |
| Webhook (`internal/webhook`, `Default`) | none | default, validate create/update | the operator serves it itself; its own finalizer updates pass through it; objects older than the webhook | a pass and a status are about the nodegroup the spec names; what is stored is admissible; deletion completes |
| Metrics (`internal/metrics`) | gauges and counters of one process | `Set`, `Inc` | set before, between and after remote calls; labels shared by passes and policies; lost with the process | what they show agrees with the stored status |
| Conditions (`conditions.go`) | `status.conditions` | `SetCondition` | set in one branch only, cleared in none | they do not precede their cause |
| Manager (`cmd/main.go`), AWS clients (`pkg/awsclient`) | lease, informer caches, queue | start, stop, hand over | two replicas may both be active | see handoff |

Interaction: the API server stores the policy and sends every version to each
replica's informer; `GenerationChangedPredicate` turns some of them into keys of
the replica's work queue; a worker takes a key, reads the *cache*, calls EKS and
SSM, writes finalizer or status with optimistic locking, and returns a delay to
the queue. Nothing else is shared. Reads are never from the API server itself.

The list of hazards, each at its line, is in `PROJECT.json`.

## Modules

| Module | Models | State |
|---|---|---|
| `Upgrade` | `policy.Status` and what each branch of `ProcessUpgrade` and of the unsupported-AL2 branch does to it; one operator per branch | none (pure) |
| `AMI` | `isAL2`, `buildSSMPath`, the cutoff and `ResolveLatestAMI` | none (pure) |
| `EKS` | external: the nodegroup, its updates (one at a time), the recommended release, the cluster's minor | `ngRelease`, `latest`, `minor`, `updates` |
| `ControlPlane` | external: API server, informers with lag, the predicate, the delaying queue, start and stop of replicas, `kubectl` | `store`, `active`, `cache`, `watch`, `queued`, `wait`, `current` |
| `Reconciler` | `Reconcile` and all its handlers, one action per call that reads or writes something outside the process; composed with the four above | `pc`, `obj` (the working copy), `ngSeen`, `minorSeen`, `latestSeen`; the two clocks `started`, `attempts`; the budgets `faults`, `edits` |
| `Scheduler` | `NextRun`, `nextRunInterval`, `Jitter` and `computeNextDelay` as functions of integer time; a jittered delay is a set | none (pure) |
| `ScheduleLoop` | when the control loop looks at which policy: several policies, one worker, a clock | `now`, `timer`, `queue`, `worker`, `answer` (the delay computed, while the stamps are written), `failing`, `lastChecked`, `lastAttempt`, `inFlight` |
| `SlotHistory` | `ScheduleLoop` with the memory of the last look at each policy | `taken`, `decidedAt`, `wrote`, `lostTo` |
| `UpgradeLifecycle` | the abstract promise about the stored status and EKS's updates | `phase`, `id`, `ups` |
| `Metrics` | what a replica's `/metrics` shows: `Reconciler` with the gauges and counters each step sets | `metrics`, `begun` |
| `Fleet` | the nodegroups of one cluster and the gauge they share | `behind`, `updating`, `found`, `working`, `outdated` |
| `Admission` | defaulting and validation in front of every write of a user or of `HandleFinalizer`, with a reconcile reduced to what it acts on and writes | `store`, `registered`, `running`, `serving`, `cache`, `news`, `queued`, `pc`, `copy`, `current` |
| `MCReconciler`, `MCScheduleLoop`, `MCSlotHistory`, `MCMetrics`, `MCAdmission` | the instances for TLC (`Fleet` is its own) | |
| `ReconcilerProofs`, `WakeupProofs`, `FinalizerProofs`, `LifecycleProofs`, `TrackingProofs`, `MetricsProofs`, `ScheduleLoopProofs`, `AdmissionProofs` | the inductive invariants and the theorems | |

How `Reconciler` follows the code: `pc` names the call a worker is about to make.

| `pc` | code | actions |
|---|---|---|
| `idle` | waiting for a key; `r.Get` reads the cache | `Start` |
| `removeFinalizer`, `addFinalizer` | `HandleFinalizer` | `RemoveFinalizer`, `AddFinalizer`, `AddFinalizerUnanswered`, `FinalizerError` |
| `guards` | `handleGuards`, `handleScheduleGate`, `getClientsOrRequeue` | `Paused`, `MalformedStartAfter`, `Skip`, `NotDue`, `Proceed`, `ClientsError` |
| `nodegroup`, `cluster`, `resolve` | the three AWS reads | `DescribeNodegroup`, `DescribeCluster`, `ResolveLatest`, `ResolveUnsupported` and their `...Error` |
| `process` | `ProcessUpgrade` before its write | `Poll`, `PollError`, `Assess`, `Initiate`, `InitiateUnanswered`, `InitiateRefused` |
| `write` | the `Status().Update` at the end of `ProcessUpgrade` | `WriteStatus`, `WriteUnanswered`, `WriteError` |
| `stamp` | the best-effort `Status().Update` of the schedule stamps | `Stamp`, `StampError` |

A return is `Return(r, delay)` or, after a write, `Forget` and `Requeue`. The
delays are the code's: `soon` is a returned error (controller-runtime retries
with backoff and ignores a `RequeueAfter` beside an error), `poll` is two
minutes, `schedule` is `computeNextDelay` or a guard's remaining time, `none` is
`Result{}`. The delaying queue keeps the earliest.

Optimistic locking has no version numbers: `current[r]` says that the working
copy of `r` carries the stored `resourceVersion`. It is decided at `Start` (the
cache has nothing left to see) and lost with the next version stored by anybody.

`ScheduleLoop` is the other half: what a pass does to AWS is left open
(`Followed`, `Checked`, `Unread`, `Unsupported`, `Errored`), and when it happens
is decided by the clock. `Skip` is `handleGuards` (`HeldBack` is the wait of
`ShouldSkip`), `NotDue` and `Proceed` are `handleScheduleGate`, `Wake` and `Take`
are the delaying queue and the one worker. `whenToRunNext` and the end of
`Reconcile` compute the delay, then write the schedule stamps, then return the
delay, and controller-runtime counts it from the return: `NotDue` and `Checked`
put the delay in `answer`, and `Stamped` returns it when the write is over. A
pass takes time, and other policies' timers run out meanwhile. The clock jumps to
the next timer (`Sleep`); timers that fire late are covered by looks that wait
behind a slow pass. A time that has been through the API server is in whole
seconds (`Stored`). In `Scheduler` a cron is one with a fixed period in minutes,
whose slots are the multiples of it; it may also fail to parse or never match.
"Strictly after, from a nanosecond before" is `SlotFrom`, a tick before. The
mutants stand before `computeNextDelay`.

`SlotHistory` adds a memory to `ScheduleLoop`, so that a look can be compared with
the one before it: when the worker took the policy it is at (`taken`), when each
policy's delay was computed (`decidedAt`), how long the write of its stamps took
after that (`wrote`), and which other policies have kept the worker from before
the end of its slot's late tolerance to after it (`lostTo`). The mutants of both
are in `Scheduler`.

`Metrics` extends `Reconciler` and takes its actions one by one: the steps that
export something are conjoined with what they export (`LetsGo`, `LetsGoInVain`,
`Unsupported`, `Decide`, `Dies`), the rest leave the registry alone. The first
gauges of `ProcessUpgrade` are set before the call to EKS, and a scrape may come
in between: that is the action `Begin`, a stutter of `Reconciler`. A gauge that
was never set is not exported, which is the value `"none"`; `update_status` is
the set of label values that are 1.

`Admission` is about objects and the nodegroups they name, so a name is a member
of a small set and a field that is parsed is `""`, `"valid"` or `"garbled"`. What
a pass decides is left open (`Process`, `Paused`, `GiveUp`); what it keeps is the copy it
reads from the cache, the nodegroup in it, and that its two kinds of writes
differ: `HandleFinalizer`'s `Update` sends the whole copy and passes the
webhooks, `Status().Update` sends the status and does not. A paused pass does not
come back (`RequeueAfter` 0); the other early ends may or may not, since with a
`checkInterval` of `0s` `computeNextDelay` may find no delay. The operator serves
the webhooks, so when it is down they are, and `failurePolicy=fail` refuses every
write. `Install` is the operator run with `ENABLE_WEBHOOKS=false` and replaced by
one with webhooks.

What is abstracted in `Reconciler`, and why it is enough:

- Releases and update ids are numbers; only equality and the order in which EKS
  issues ids matter. `lastUpgradeAttempt` is never, recent (under six hours) or past.
- Whether a schedule is due is a free choice between `NotDue` and `Proceed`:
  every timetable is covered, none is relied on. Six hours pass in
  `CooldownElapses`, for every copy of the status at once, since all carry the
  same timestamp.
- `updateErrors` is the id of the update they were read from; the two conditions,
  which the code sets together, are their common reason. The stamps' values and
  `lastChecked` are read by no branch of the logic modelled here (`ScheduleLoop`
  has `lastChecked`) and are left out; the metrics are in `Metrics`.
- The retries inside one AWS read (`retryDescribeNodegroup`,
  `retryGetParameter`) are one step that succeeds or fails. An update status
  that EKS does not document is treated by the code as still in progress and is
  not modelled.
- Foreign finalizers are not modelled: the object goes with the operator's own.
- The nodegroup keeps its AMI type (`AmiType` is a constant), and the type is one
  the code names (`AmiTypeAssumption`): for Bottlerocket, Windows and other types
  `buildSSMPath` returns the path of another family, and what EKS makes of such a
  release is not known from this repository. That a nodegroup is created anew on
  another type, and the conditions then outlive their cause, is not modelled.
- A `startAfter` of `"malformed"` exists because the webhook may be disabled
  (`ENABLE_WEBHOOKS`) or installed after the object.
- The key of a policy in the queue is one bit: client-go deduplicates keys, and
  a key added while it is processed is processed again.

## Runs

| Run | Instance | What it shows |
|---|---|---|
| `core` (`MCReconciler`) | 1 replica, cron policies running and paused, 2 releases, 2 updates, 2 versions of informer lag, each kind of fault, 1 fault, 2 edits | type correctness; `NoLostWakeup`; `ReportedOutcome`; `FinalizerHolds`; the stored status implements `UpgradeLifecycle`; `KeepsPolling` |
| `handoff` (`MCReconciler`) | 2 replicas, both may be active, interval policy, 2 updates, lag 1 | `NoLostWakeup` and `FollowsLifecycle` with two writers |
| `eventually` (`MCReconciler`) | 1 replica, AL2 on a cluster that goes from 1.32 to 1.33, paused and `startAfter` policies, 1 fault of any kind, 1 edit, fair | `Concludes`, `DeletionCompletes` |
| `tracking` (`MCReconciler`) | cron and interval policies, 3 releases, 3 updates, 2 faults (refused and unanswered calls, API failures, crashes), prompt informer, no edits | until the first fault, `NoOrphan` and `CooldownRespected` |
| `cooldown_blocks_polling` (`MCReconciler`) | interval policy, no faults | `PolledSoon` fails (finding) |
| `custom` (`MCReconciler`) | CUSTOM AMI, no faults | `CustomLeftAlone` fails (finding) |
| `schedule` (`MCSlotHistory`) | a cron every two minutes and an interval with `startAfter`, two ticks to the second, passes of 1 s and 8.5 s, status writes of 1 s and 6 s, retries after 15 s, about three minutes | `NeverForgotten`, `NeverOversleeps`, `SlotHonoured` |
| `start_after` (`MCSlotHistory`) | a cron every minute with a `startAfter` twenty minutes ahead | `NeverOversleeps` fails (finding) |
| `metrics` (`MCMetrics`) | AL2 on a cluster that goes from 1.32 to 1.33, auto-upgrading and watching policies, 2 releases, 1 update, 2 faults of any kind, 1 edit or deletion | `MetricsTypeOK`, `ConditionsHold`, `ComplianceShown` |
| `outdated_count` (`Fleet`) | two nodegroups of one cluster | `OutdatedCounted` fails (finding) |
| `admission` (`MCAdmission`) | eight kinds of spec, valid and not, 6 writes of users, 2 outages, webhooks installed at any moment, fair | type correctness; `ActsOnOwnNodeGroup`; `TracksOwnNodeGroup`; `StoredIsAdmissible`; `EditsKept`; `DeletionCompletes` |
| `stuck_deletion` (`MCAdmission`) | one of the specs does not parse, webhooks installed at any moment, fair | `DeletionCompletes` fails (finding) |

Bounds. Two updates are what it takes for the record of one to leak into the
next; `tracking` has three. Two releases are enough for outdated
and compliant, and a newer release during an update. A lag of two versions lets
a worker start from a cache that is two writes behind (its own status and its
own stamps), which is the most one pass writes after the finalizer; with lag one
an event must be seen before the next write, so `handoff` and `eventually` cover
less lag and more of everything else. One fault of each kind already separates
"the call happened" from "the answer arrived"; two together are in `tracking`
and `metrics`.
`Publish` waits for room in the watches, which bounds the lag and removes no
order of events within it.

In `ScheduleLoop` two ticks to the second are enough to be inside and outside each
tolerance, a pass of 8.5 seconds to keep the worker through a late tolerance, and
a write of 6 seconds to miss one by itself. The horizon holds two slots of the
cron; after it nothing new happens, since every rule is relative to the last slot
and the last look. `MinInterval` is scaled from six hours to 30 seconds to fit.
`Fractions` says at which fractions of a second `computeNextDelay` is asked: off
the second, since on it the exact edge of both tolerances is met. The code reads a
nanosecond clock, so that instant is rare; it is ruled out openly, here and in the
theorem, and described under "Other divergences".

In `Metrics` counters stop at two, enough for an update that fails after it was
started. One update and two releases
reach every branch that sets a gauge; the crash empties a registry in the middle
of an update. In `Admission` six writes of users are enough to create, delete,
create again under the same name for another nodegroup, and edit that; before
the webhooks are installed users keep to `EarlySpecs`, valid specs in `admission`
and one that does not parse in `stuck_deletion`. `Fleet` is finite as it stands:
two nodegroups already share.

`SlotHonoured` is about looks that find a cron not due, and names what may have
made the slot before pass: the write of the policy's own stamps, if it took
longer than the late tolerance of five seconds, or other policies that kept the
worker until that tolerance was over. It excepts policies whose last pass ended
in an error, since a retry follows the rate limiter and not the cron.

Deadlock is checked in `handoff` and `tracking`, where there is always something
to come back to; elsewhere a paused or deleted policy leaves nothing to do.
`Replica` is symmetric in `handoff`, which has no liveness property.

`PromptInformer` (in `tracking`, `metrics` and two of the findings) is a timing
assumption: delays of two minutes and more outlast the informer's lag, so a poll
or schedule timer fires with an empty watch. Retries (`soon`) are not so
restricted. Without it `NoOrphan` and `CooldownRespected` fail for a cache that
lags two minutes behind, which says little about the code.

`NoOrphan` and `CooldownRespected` are stated for as long as nothing has failed: a
status write that is lost takes the update's id and the time of the attempt with
it.

`KeepsPolling` needs neither: `core` checks it with a lagging informer, every kind
of fault and edits. `Polls` says that an idle replica comes back to an update in
flight by the two minute poll or a rate-limited retry, and `KeepsPolling` that
only three kinds of pass end that: one that `ShouldSkip` holds back, one whose
resolve fails, and one whose own copy has no update in flight and that ends
without a write, because it read a cache from before the update started and then
lost its stamp to a conflict, which `whenToRunNext` swallows, or failed to read
the nodegroup, or because AL2 is unsupported. `README.md:448` promises the poll
without exception; the three are listed under "Findings" and "Other divergences".
That every other exit of a pass (the in-flight branches of the client, nodegroup
and cluster reads and of `DescribeUpdate`, the errors, the conflicts, the lost
answers) keeps polling is what the property says. `core` has cron policies only,
so the first kind does not arise there; `cooldown_blocks_polling` is its run.

`FinalizerHolds` is checked for one replica: with two, the other one may remove
the finalizer between the first one's read and its calls to EKS; its status
write then conflicts.

### Fairness

`FairSpec` asks for weak fairness of: each replica's worker (a goroutine that
has a key goes on, and every call returns), its informer, its delaying queue,
its restart (the Deployment), the end of every EKS update, and the two clocks.
Faults, edits, deletions, console updates, new releases and cluster upgrades owe
nothing, and a schedule need never be due: `Concludes` holds because an update in
flight bypasses the schedule gate. Within a worker fairness does not choose
between branches: the bound on faults is what ends a series of failures.

`FairAdmissionSpec` asks for weak fairness of the worker and the informer, of the
restart of a stopped operator (the Deployment) and of its webhooks becoming
reachable once it runs; outages are bounded, as faults are. Users owe nothing,
and `Install` need never happen: `DeletionCompletes` is checked for every moment
of it, and for never.

### Mutants

Every property of a passing run is broken by a plausible bug, written next to
the operator it stands in for: `TrackCopiesStatus` (EKS's status stored as
`upgradeStatus`), `InitiatedWithoutReset` (the previous outcome survives),
`InitiatedUnstamped` (no `lastUpgradeAttempt`), `FinalizerErrorSwallowed` (`return
Result{}, nil`), `FinalizerErrorIgnored` (the pass goes on), `WriteStatusUnlocked`
(a patch without `resourceVersion`), `WriteStatusWithoutPoll` (no two minute
requeue), `NotDueInFlight` (the gate not bypassed), `UpgradesRegardless` (the
update in flight not looked at), `SkipWithoutRequeue` (a guard that asks for
nothing), `ComputeWithoutFallback` (no safety net), `ComputeWithoutNudge` (no
nudge past the late tolerance), `JitteredAlways` (crons are jittered as well),
`TrackedInEKSWords` (EKS's status as a label value), `SuccessUngauged` (a branch
that forgets the compliance gauge), `NodeGroupAnywhere` (regions not compared),
`ValidateUpdateRename` (the nodegroup's name may change),
`ValidateUpdateImmutable` (updates checked for immutability alone),
`AddFinalizerUnlocked` (a whole-object write without `resourceVersion`),
`FinalizerRefusalSwallowed` (a refused Update not retried), `ResolveErrorSkips`
(every SSM error taken for the unsupported AL2), `TrackKeepsErrors` (a success
keeps the errors of an update before), `DefaultedBySchema` (the mutating webhook
defaults nothing).

## Findings

- **The cooldown guard stops polling** (`scheduler.go:55-62` before
  `controller.go:330`, run `cooldown_blocks_polling`): with `checkInterval` an
  update in flight is not polled for six hours.
- **An upgrade of CUSTOM nodegroups to "" is attempted** (`aws_helpers.go:70`, run
  `custom`): documented as a no-op, it is a call that EKS has to refuse.
- **startAfter is jittered for cron policies** (`controller.go:318`, run
  `start_after`): with a long wait the first slots after it are overslept.
- **outdated_nodegroups shows the last pass and not the count**
  (`controller.go:136`, run `outdated_count`).
- **A policy the webhook would refuse cannot be deleted** (`finalizer.go:24`, run
  `stuck_deletion`).

### Other divergences

Met while modelling, each a path through the models above; no run is kept for
them.

- An update is lost to a crash, a conflict or a lost answer between
  `UpdateNodegroupVersion` and the status write (`upgrade.go:214-248`): drop
  `faults = 0` from `NoOrphan` and `tracking` shows it.
- An AL2 update's outcome is dropped when the cluster has passed 1.33 by the time
  it would be polled (`controller.go:418`): `UpgradeLifecycle` allows the step from
  in progress to skipped for that reason.
- Polling lapses outside the cooldown too, against `README.md:448`: one failed SSM
  read stops it until the next slot (`controller.go:432`), and so does a pass over
  a cache from before the update started, which finds the schedule not due, loses
  its stamp to a conflict and swallows the error (`controller.go:470`). They are
  the exceptions of `KeepsPolling`: drop either and `core` shows the path.
- The cooldown is lost with a lost status write (`upgrade.go:219`): drop
  `faults = 0` from `CooldownRespected`.
- A timer is late by the write of the stamps, which comes between computing the
  delay and returning it (`controller.go:448-477`, `171-180`): a write of more than
  five seconds loses a cron slot with no other policy involved. It is the second
  disjunct of `SlotHonoured`; drop it and `schedule` shows the path.
- The `UnsupportedAMI` conditions are cleared nowhere (`controller.go:419-422`): a
  nodegroup created anew on AL2023 keeps them.
- A new update shows the old one's errors until it ends (`upgrade.go:233`), which
  is why `ReportedOutcome` speaks of errors beside an outcome only.
- `UpToDate` and `OutdatedAMI` conditions, documented in `README.md`, are never set.
- A pass that ends exactly one second before a slot: the six second nudge lands on
  the last instant of the late tolerance, and a cron policy waits for
  `checkInterval` (`controller.go:507`). It takes 0 in `Fractions`, a cron of five
  minutes and a `checkInterval` of a day.
- `checkInterval: 0s` passes the webhook and ends the reconciling
  (`controller.go:514`): `NeverForgotten` is stated for positive ones.
- Policies on one cron starve one another (`scheduler.go:136`): a pass of more than
  five seconds makes the next policy miss its slot, every time. It is the third
  disjunct of `SlotHonoured`.
- `update_status` is not one-hot after the first update (`upgrade.go:94`); a
  failed update counts two attempts (`upgrade.go:176`); a deletion that is retried
  after a conflict or a lost answer counts twice, although `metrics.go:50` and
  `README.md:557` speak of deletions (`finalizer.go:22`: attempts are counted);
  `update_inflight_seconds` drops to zero during every poll (`upgrade.go:95`) and
  freezes when the cluster passes the AL2 cutoff during an update
  (`controller.go:418`); `compliance_status` is 1 after a success although the
  same pass has read a newer release (`upgrade.go:144`). All are states of
  `Metrics`.

## Proofs

`ReconcilerProofs` proves, for every set of replicas, every lag, release, update,
minor, fault and edit bound, and every set of fault kinds:

- `Invariant`: `Spec => []IInv`;
- `TypeCorrect`: `Spec => []TypeOK`;
- `OutcomesReportedTruly`: `Spec => []ReportedOutcome`;
- `ConditionsTrue`: `Spec => []ConditionsHold`.

Assumptions: the named assumptions on the constants (`ReleaseAssumption`,
`UpdateAssumption`, `MinorAssumption`, `SpecsAssumption`, `NoPolicyAssumption`,
`LagAssumption`, `TimingAssumption`, `AmiTypeAssumption`, `FaultAssumption`,
`EditAssumption`), which TLC evaluates in every run.

`ReportedOutcome` is not inductive: it speaks of the stored status, and a status
travels. The informer carries it to a cache, `Start` takes it into a working copy,
`ProcessUpgrade` rewrites it, a write brings it back. `IInv` therefore says of
*every* copy (in `store`, `cache`, `watch`, `obj`) that it is truthful about the
update it names, and adds what ties copies together: an informer with nothing
left to see has the store (`InSync`), a working worker has a copy (`Working`), a
current copy is a copy of an object that exists (`Existing`), and EKS runs only
releases of the family (`EKSInv`). The argument has three parts:

1. each branch of `ProcessUpgrade` maps a truthful status to a truthful one
   (`TrackTruthful`, `AssessTruthful`, `InitiatedTruthful`);
2. EKS never takes back what it said, so truth lasts when updates start and end
   (`TruthLasts`, `StartUpdateLasts`, `CompleteUpdateLasts`);
3. writes, deliveries, requeues and crashes move truthful copies around
   (`PublishInv`, `LetGoInv`, `ForgetInv`, and from them `WriteInv`, `ReturnInv`,
   `LocalInv`, `SettleInv`), one lemma per group of actions, joined in `NextInv`.

`ConditionsHold` needs the same travelling argument for another set of copies, so
it is made once: a set of copies is `Closed` when the finalizer, the cooldown and
a replaced status do not lead out of it, and `Carried` when the store, every
watch, every cache that is served and every working copy is in it; the workers
and everything around them carry a closed set (`WorkerCarries`,
`SurroundingsCarry`), as long as what a worker *computes* stays in it. For the
conditions, which have to be shown not to precede their cause, the set is the
copies without them, carried until the cluster passes
the cutoff; and what a worker has read of the cluster's minor is never ahead of
the cluster (`MinorSeenNext`). `TrackingProofs` uses the lemmas with another set.

`WakeupProofs` proves, for the same constants, `NoWakeupIsLost`:
`Spec => []NoLostWakeup`, any number of replicas, any lag. The property speaks of
an idle replica and the stored object. A worker that returns without asking to be
called again decided so on a copy, the copy came from a cache, and the cache may
be behind. The predicate accepts an event when the generation differs, so
"accepted by none" is an equivalence (`Generations`), and the invariant `WakeInv`
chains three facts: a worker's copy of another generation than its cache has the
key queued already (`OfItsCache`), a cache of another generation than the store
has an accepted event before it (`Told`), and a copy of the store's generation
decides rightly.

`FinalizerProofs` proves `FinalizerHoldsAlone`: with one replica (`OneReplica`),
`Spec => []FinalizerHolds`. Versions reach the cache in the order they were
stored, so it is enough that once the finalizer is gone no version that lets a
worker pass is still to be seen (`SeesNone`); it goes when the one worker removes
it with a current copy, and then that worker has seen them all (`HasSeenAll`).
With two replicas the property is false, and the theorem says so in its
assumption.

`LifecycleProofs` proves `ImplementsLifecycle`: `Spec => FollowsLifecycle`, for any
number of replicas. A write replaces the stored status by one that was computed
some steps before, from a copy. It is one step of the lifecycle because only a
copy that is still the stored version gets its write accepted (`BasedOnStore`),
and because EKS never takes an answer back; that an update taken up is newer than
those before needs the order in which EKS gives out ids (`InOrder`).

`TrackingProofs` is about one replica (`OneReplica`). As long as its informer is
done before a poll is due (`PromptInformer`, the timing assumption of the run) and
nobody interferes (`edits = 0`):

- `UpdatesTracked`: `NoOrphan`, until something fails;
- `CooldownKept`: `CooldownRespected`, until something fails.

And with none of these restrictions:

- `PollingKept`: `KeepsPolling`, for every AMI type, fault, edit and lag.

They hold for every spec, every bound, every lag and any number of releases and
updates. `UpdatesTracked` stops when the cluster of an AL2 nodegroup passes the
last minor with an AL2 AMI. Every one of these hypotheses is there because the
code does otherwise without it: the paths are described under "Runs" and "Other
divergences". One replica is how the operator is deployed
(`config/manager/manager.yaml:24`, and the chart's `values.yaml:1`: "Keep at 1");
of two, one may take the other's write for a conflict. `NoOrphan` and
`CooldownRespected` speak of one stored status, and are not inductive for two
reasons. First, the pass that decides must not work on an old version: without
edits every copy has the same spec and the key is at one place at a time, in the
queue, in the delaying queue or with the worker (`LeftAlone`), so without failures
each pass starts when the informer has seen all and is still current when it
writes (`InStep`). Second, between the call to EKS and the write the update's id
is in the working copy alone; `Memory` is the place to look, and what is there
names the update that runs (`Remembers`) or the attempt made (`Rested`).
`PollingKept` is about a step, and its argument is one about generations: the one
replica's worker ends a pass with its own timer, an event to come or the key
queued; a step of anybody else either leaves an event (`Announced`, `UpToDate` of
`WakeupProofs`) or no update in flight; and a copy without an update in flight
whose write is accepted makes the stored status one without (`StampsRest` is what
the last write of a pass needs).

`MetricsProofs` proves, for every set of replicas, every fault and every bound,
`MetricsTypeCorrect` (`MetricsTypeOK`) and `GaugeForetells` (`ComplianceShown`).
Every step of `MeteredSpec` is one of `Spec` or a stutter, so that what is proved
of `Spec` holds of it (the lemma `MeteredImplements`; not the converse, since a
counter at `MaxCount` stops a step). The last relates a gauge set by one step to a
write many steps later. Its invariant says that from the moment the worker has
settled on a status until it is written, the worker's gauge shows compliant
exactly if that status is Succeeded, wherever the write would change the phase; a
pass that leaves the phase alone need not have set the gauge, and that it is
*this* worker's write that changes the phase is `BasedOnStore` of
`LifecycleProofs`.

`AdmissionProofs` proves, for any names, regions, specs and bounds, with the
webhooks or without: `TypeCorrect` (`TypeOK`) and `KeepsEdits` (`EditsKept`). If
the webhooks are there from the start (`RegisteredAtFirst`), or users keep to
valid specs with a schedule and one nodegroup until they are (`CarefulUsers`), it
proves `OwnNodeGroup` (`ActsOnOwnNodeGroup`), `OwnUpdate` (`TracksOwnNodeGroup`)
and `Admissible` (`StoredIsAdmissible`); the `EarlySpecs` of `admission` are such
specs. The invariant has two halves. A version that holds the finalizer and is not
being deleted never outlives its object (`CacheInv`), so that a cache that is
behind, or a pass over it, is still about the stored policy's nodegroup although
the policy may have gone and come back under its name; and a status, in the store
or in a copy, names the nodegroup of its own spec (`TracksItself`), which only
immutability keeps so. Assumptions: `NameAssumption`, `SpecsAssumption`,
`AbsenceAssumption`, `RegistrationAssumption`, `BoundsAssumption`.

`ScheduleLoopProofs` proves, for every set of policies and schedules, every
resolution of the clock, pass length and retry delay:

- `NothingForgotten`: `Spec => []NeverForgotten`, by the invariant `Known`: the
  types of what is read, and the property itself. Its heart is `DelayIsPositive`,
  the safety net of `computeNextDelay`, together with `JitterBounds`;
- `NothingOverslept`: `HistorySpec => []NeverOversleeps`, if valid crons have no
  `startAfter` that is still ahead (`CronsStartAtOnce`) and no delay is asked for
  on a whole second (`OffTheSecond`). The first is what the run `start_after`
  violates, the second excludes the instant described under "Other divergences";
  `schedule`'s crons and fractions meet both. It rests on `CronNudged` (away from
  the exact edge, the nudge clears both tolerances and finds the following slot,
  for every period) and on `AnswerPunctual`: while the stamps are written, the
  delay that waits leads to the slot, so that the timer is late by that write and
  by nothing else, however long the pass and the write take;
- `SlotsHonoured`: `HistorySpec => SlotHonoured`, under the same two assumptions. A
  policy on a cron whose stamps were written in time has its timer within the
  late tolerance of the slot, and when it is in the queue later than that, another
  policy holds the worker since before the tolerance was over or has held it
  through that moment (`Honoured`).

Assumptions: `SecondAssumption`, `ScheduleAssumption`, `TimeAssumption`.

Every invariant and action property of a passing run is stated by a theorem.
Only model-checked: the liveness properties (`Concludes`, `DeletionCompletes` of
both specifications), which are out of the prover's reach, as is everything about
`ENABLED`; and the findings, which are counterexamples.

## Not modelled

- Crons without a fixed period, time zones and daylight saving: `NextRun` asks
  `robfig/cron` for the next slot, and the models take slots as given.
- `stampNextCronWindow` and the values of the other schedule stamps, which no
  branch reads; `last_checked_timestamp` and `next_run_seconds`, each set in one
  place from a local value.
- Parsing: crons, durations, RFC 3339, the JSON of the SSM parameter, Kubernetes
  minor versions. A field parses or does not.
- The backoff inside one AWS read. It ends, within about thirty seconds, with an
  answer or an error; that it delays a pass is `Durations` in `ScheduleLoop`.
- Two policies for the same nodegroup, of which each is the other's console user.
- `cmd/main.go` but for registering the controller and the webhooks: flags, TLS,
  certificates, probes. `ValidateDelete`, whose verb is not registered and which
  admits everything. The generated deep copies, printer columns and manifests,
  the Helm chart, CI and the end-to-end tests.

## Plan

1. Done: the control loop (`Upgrade`, `AMI`, `EKS`, `ControlPlane`, `Reconciler`,
   `UpgradeLifecycle`), the timetable (`Scheduler`, `ScheduleLoop`,
   `SlotHistory`), what is exported (`Metrics`, `Fleet`), what is admitted
   (`Admission`), and proofs of their safety properties and of the refinement.
2. Done: every safety property of the runs as a theorem, for every value of the
   constants.
3. Left: what the theorems of `TrackingProofs` say after an edit that the informer
   has seen, and with more than one replica while only one holds the lease; crons
   without a fixed period.
