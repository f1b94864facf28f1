----------------------------- MODULE Reconciler -----------------------------
(***************************************************************************)
(* NodeGroupUpgradePolicyReconciler.Reconcile and the handlers it calls,   *)
(* one step per call that reads or changes something outside the process,  *)
(* for the replicas of the operator, composed with the EKS and Kubernetes  *)
(* sides.  The two clocks are abstract: whether a cron or interval         *)
(* schedule is due is a free choice (NotDue and Proceed), and the six hour *)
(* cooldown ends when CooldownElapses says so.                             *)
(***************************************************************************)
EXTENDS EKS, AMI, ControlPlane

CONSTANTS
  AmiType,     \* the nodegroup's AMI type
  Faults,      \* the kinds of failure that may happen
  MaxFaults,   \* bound: how many failures
  MaxEdits     \* bound: how many times somebody else acts (kubectl, AWS console)

\* "aws": an AWS read or the client construction fails; "initiate": EKS fails
\* UpdateNodegroupVersion; "response": it starts the update, but the answer is
\* lost; "api": the API server fails a write; "apiResponse": it applies the
\* write, but the answer is lost; "crash": a replica stops.
FaultKinds == {"aws", "initiate", "response", "api", "apiResponse", "crash"}

\* Types whose own family ResolveLatestAMI resolves, and CUSTOM.
ASSUME AmiTypeAssumption == AmiType \in AmiTypes \ {"BOTTLEROCKET_X86_64"}
ASSUME FaultAssumption == Faults \subseteq FaultKinds /\ MaxFaults \in Nat
ASSUME EditAssumption == MaxEdits \in Nat

VARIABLES
  pc,        \* where each replica's worker is in Reconcile
  obj,       \* `policy`, its working copy
  ngSeen,    \* releaseVersion, from DescribeNodegroup
  minorSeen, \* eksVersion, from DescribeCluster
  latestSeen,\* latestReleaseVersion, from ResolveLatestAMI
  started,   \* spec.startAfter has passed
  attempts,  \* UpdateNodegroupVersion calls in the last six hours (2: or more)
  faults, edits

procVars == <<pc, obj, ngSeen, minorSeen, latestSeen>>
clockVars == <<started, attempts>>
vars == <<eksVars, planeVars, procVars, clockVars, faults, edits>>

Label == {"idle", "removeFinalizer", "addFinalizer", "guards", "nodegroup",
          "cluster", "resolve", "process", "write", "stamp"}

TypeOK ==
  /\ EKSTypeOK
  /\ PlaneTypeOK
  /\ pc \in [Replica -> Label]
  /\ obj \in [Replica -> MaybePolicy]
  /\ ngSeen \in [Replica -> Release \cup {NoRelease}]
  /\ minorSeen \in [Replica -> Minor]
  /\ latestSeen \in [Replica -> Release \cup {NoRelease}]
  /\ started \in BOOLEAN
  /\ attempts \in 0..2
  /\ faults \in 0..MaxFaults
  /\ edits \in 0..MaxEdits

Init ==
  /\ EKSInit
  /\ PlaneInit
  /\ pc = [r \in Replica |-> "idle"]
  /\ obj = [r \in Replica |-> NoPolicy]
  /\ ngSeen = [r \in Replica |-> NoRelease]
  /\ minorSeen = [r \in Replica |-> MinMinor]
  /\ latestSeen = [r \in Replica |-> NoRelease]
  /\ started = \A spec \in Specs : spec.startAfter # "set"
  /\ attempts = 0
  /\ faults = 0
  /\ edits = 0

Fail(kind) == kind \in Faults /\ faults < MaxFaults /\ faults' = faults + 1

Goto(r, label) == pc' = [pc EXCEPT ![r] = label]

\* The worker returns and forgets everything it read.
Forget(r) ==
  /\ Goto(r, "idle")
  /\ obj' = [obj EXCEPT ![r] = NoPolicy]
  /\ ngSeen' = [ngSeen EXCEPT ![r] = NoRelease]
  /\ minorSeen' = [minorSeen EXCEPT ![r] = MinMinor]
  /\ latestSeen' = [latestSeen EXCEPT ![r] = NoRelease]

\* Reconcile returns before its first write, asking to be called after
\* `delay` ("none": Result{} or a RequeueAfter of zero).
Return(r, delay) ==
  /\ Forget(r)
  /\ LetGo(r)
  /\ Requeue(r, delay)
  /\ UNCHANGED <<eksVars, active, cache, queued, clockVars>>

------------------------------------------------------------------------------
\* Fetching the object, and the finalizer.

AfterGet(p) ==
  IF p.deleting THEN (IF p.finalizer THEN "removeFinalizer" ELSE "idle")
                ELSE (IF p.finalizer THEN "guards" ELSE "addFinalizer")

\* The worker takes the key and reads the object from its informer's cache.
Start(r) ==
  /\ pc[r] = "idle" /\ queued[r]
  /\ queued' = [queued EXCEPT ![r] = FALSE]
  /\ IF cache[r] = NoPolicy \/ AfterGet(cache[r]) = "idle"
       THEN UNCHANGED <<pc, obj, current>>   \* not found, or nothing left to clean up
       ELSE /\ Goto(r, AfterGet(cache[r]))
            /\ obj' = [obj EXCEPT ![r] = cache[r]]
            /\ current' = [current EXCEPT ![r] = watch[r] = <<>>]
  /\ UNCHANGED <<eksVars, store, active, cache, watch, wait, ngSeen, minorSeen,
                 latestSeen, clockVars, faults, edits>>

\* HandleFinalizer removes the finalizer, and the object goes.
RemoveFinalizer(r) ==
  /\ pc[r] = "removeFinalizer"
  /\ current[r]
  /\ Publish(NoPolicy, {})
  /\ Forget(r)
  /\ \/ Requeue(r, "none") /\ UNCHANGED faults
     \/ Requeue(r, "soon") /\ Fail("apiResponse")
  /\ UNCHANGED <<eksVars, active, cache, queued, clockVars, edits>>

\* HandleFinalizer adds the finalizer; the reconcile goes on with what the API
\* server answered.
AddFinalizer(r) ==
  /\ pc[r] = "addFinalizer"
  /\ current[r]
  /\ Publish([store EXCEPT !.finalizer = TRUE], {r})
  /\ Goto(r, "guards")
  /\ obj' = [obj EXCEPT ![r].finalizer = TRUE]
  /\ UNCHANGED <<eksVars, active, cache, queued, wait, ngSeen, minorSeen,
                 latestSeen, clockVars, faults, edits>>

AddFinalizerUnanswered(r) ==
  /\ pc[r] = "addFinalizer"
  /\ current[r]
  /\ Fail("apiResponse")
  /\ Publish([store EXCEPT !.finalizer = TRUE], {})
  /\ Forget(r)
  /\ Requeue(r, "soon")
  /\ UNCHANGED <<eksVars, active, cache, queued, clockVars, edits>>

\* Mutant: the error is swallowed, Reconcile returns Result{}, nil.
FinalizerErrorSwallowed(r) ==
  /\ pc[r] \in {"removeFinalizer", "addFinalizer"}
  /\ \/ ~current[r] /\ UNCHANGED faults
     \/ Fail("api")
  /\ Return(r, "none")
  /\ UNCHANGED edits

\* Mutant: the reconcile goes on although the finalizer was not stored.
FinalizerErrorIgnored(r) ==
  /\ pc[r] \in {"removeFinalizer", "addFinalizer"}
  /\ ~current[r]
  /\ IF pc[r] = "removeFinalizer"
       THEN Return(r, "soon")
       ELSE /\ Goto(r, "guards")
            /\ UNCHANGED <<eksVars, planeVars, obj, ngSeen, minorSeen, latestSeen, clockVars>>
  /\ UNCHANGED <<faults, edits>>

\* A write of the finalizer meets a newer version (or no object), or fails.
FinalizerError(r) ==
  /\ pc[r] \in {"removeFinalizer", "addFinalizer"}
  /\ \/ ~current[r] /\ UNCHANGED faults
     \/ Fail("api")
  /\ Return(r, "soon")
  /\ UNCHANGED edits

------------------------------------------------------------------------------
\* handleGuards, handleScheduleGate and getClientsOrRequeue.

WaitsForStart(spec) == spec.startAfter = "set" /\ ~started

CoolingDown(p) == ~p.spec.cron /\ p.status.lastUpgradeAttempt = "recent"

\* Paused: nothing is asked of the queue, an edit will bring the key back.
Paused(r) ==
  /\ pc[r] = "guards"
  /\ obj[r].spec.paused
  /\ Return(r, "none")
  /\ UNCHANGED <<faults, edits>>

MalformedStartAfter(r) ==
  /\ pc[r] = "guards"
  /\ ~obj[r].spec.paused
  /\ obj[r].spec.startAfter = "malformed"
  /\ Return(r, "soon")
  /\ UNCHANGED <<faults, edits>>

\* Mutant: nothing is asked of the queue.
SkipWithoutRequeue(r) ==
  /\ pc[r] = "guards"
  /\ ~obj[r].spec.paused
  /\ obj[r].spec.startAfter # "malformed"
  /\ WaitsForStart(obj[r].spec) \/ CoolingDown(obj[r])
  /\ Return(r, "none")
  /\ UNCHANGED <<faults, edits>>

\* Before startAfter, or in the cooldown of an interval schedule.
Skip(r) ==
  /\ pc[r] = "guards"
  /\ ~obj[r].spec.paused
  /\ obj[r].spec.startAfter # "malformed"
  /\ WaitsForStart(obj[r].spec) \/ CoolingDown(obj[r])
  /\ Return(r, "schedule")
  /\ UNCHANGED <<faults, edits>>

PassesGuards(p) ==
  /\ ~p.spec.paused
  /\ p.spec.startAfter # "malformed"
  /\ ~WaitsForStart(p.spec)
  /\ ~CoolingDown(p)

\* Mutant: the schedule gate is not bypassed while an update is in flight.
NotDueInFlight(r) ==
  /\ pc[r] = "guards"
  /\ PassesGuards(obj[r])
  /\ Goto(r, "stamp")
  /\ UNCHANGED <<eksVars, planeVars, obj, ngSeen, minorSeen, latestSeen, clockVars,
                 faults, edits>>

\* The schedule is not due: only the stamps are written.
NotDue(r) ==
  /\ pc[r] = "guards"
  /\ PassesGuards(obj[r])
  /\ ~InFlight(obj[r].status)
  /\ Goto(r, "stamp")
  /\ UNCHANGED <<eksVars, planeVars, obj, ngSeen, minorSeen, latestSeen, clockVars,
                 faults, edits>>

Proceed(r) ==
  /\ pc[r] = "guards"
  /\ PassesGuards(obj[r])
  /\ Goto(r, "nodegroup")
  /\ UNCHANGED <<eksVars, planeVars, obj, ngSeen, minorSeen, latestSeen, clockVars,
                 faults, edits>>

ClientsError(r) ==
  /\ pc[r] = "guards"
  /\ PassesGuards(obj[r])
  /\ Fail("aws")
  /\ Return(r, IF InFlight(obj[r].status) THEN "poll" ELSE "soon")
  /\ UNCHANGED edits

------------------------------------------------------------------------------
\* The three AWS reads.

DescribeNodegroup(r) ==
  /\ pc[r] = "nodegroup"
  /\ Goto(r, "cluster")
  /\ ngSeen' = [ngSeen EXCEPT ![r] = ngRelease]
  /\ UNCHANGED <<eksVars, planeVars, obj, minorSeen, latestSeen, clockVars, faults, edits>>

DescribeNodegroupError(r) ==
  /\ pc[r] = "nodegroup"
  /\ Fail("aws")
  /\ Return(r, IF InFlight(obj[r].status) THEN "poll" ELSE "schedule")
  /\ UNCHANGED edits

DescribeCluster(r) ==
  /\ pc[r] = "cluster"
  /\ Goto(r, "resolve")
  /\ minorSeen' = [minorSeen EXCEPT ![r] = minor]
  /\ UNCHANGED <<eksVars, planeVars, obj, ngSeen, latestSeen, clockVars, faults, edits>>

DescribeClusterError(r) ==
  /\ pc[r] = "cluster"
  /\ Fail("aws")
  /\ Return(r, "soon")
  /\ UNCHANGED edits

ResolveLatest(r) ==
  /\ pc[r] = "resolve"
  /\ ~AL2Unsupported(AmiType, minorSeen[r])
  /\ Goto(r, "process")
  /\ latestSeen' = [latestSeen EXCEPT ![r] =
       ResolvedRelease(AmiType, minorSeen[r], [family \in Family |-> latest], NoRelease)]
  /\ UNCHANGED <<eksVars, planeVars, obj, ngSeen, minorSeen, clockVars, faults, edits>>

\* AL2 on a cluster AWS publishes no AL2 AMI for: Skipped, written best-effort.
ResolveUnsupported(r) ==
  /\ pc[r] = "resolve"
  /\ AL2Unsupported(AmiType, minorSeen[r])
  /\ Goto(r, "stamp")
  /\ obj' = [obj EXCEPT ![r].status = UnsupportedAMI(@)]
  /\ UNCHANGED <<eksVars, planeVars, ngSeen, minorSeen, latestSeen, clockVars,
                 faults, edits>>

\* Mutant: every error is taken for the unsupported AL2.
ResolveErrorSkips(r) ==
  /\ pc[r] = "resolve"
  /\ AmiType # "CUSTOM"
  /\ Fail("aws")
  /\ Goto(r, "stamp")
  /\ obj' = [obj EXCEPT ![r].status = UnsupportedAMI(@)]
  /\ UNCHANGED <<eksVars, planeVars, ngSeen, minorSeen, latestSeen, clockVars, edits>>

ResolveError(r) ==
  /\ pc[r] = "resolve"
  /\ ~AL2Unsupported(AmiType, minorSeen[r])
  /\ AmiType # "CUSTOM"                       \* returned before SSM is asked
  /\ Fail("aws")
  /\ Return(r, "schedule")
  /\ UNCHANGED edits

------------------------------------------------------------------------------
\* ProcessUpgrade up to its Status().Update.

Outdated(r) == ngSeen[r] # latestSeen[r]

Begun(r) == BeginProcess(obj[r].status, ngSeen[r], latestSeen[r])

\* ProcessUpgrade has settled on the status to write.
Settle(r, status) ==
  /\ Goto(r, "write")
  /\ obj' = [obj EXCEPT ![r].status = status]
  /\ UNCHANGED <<planeVars, ngSeen, minorSeen, latestSeen, started, edits>>

\* trackInFlightUpdate: DescribeUpdate of the id in the status.
Poll(r) ==
  /\ pc[r] = "process"
  /\ InFlight(obj[r].status)
  /\ Settle(r, TrackInFlightUpdate(Begun(r), updates[obj[r].status.updateID].status))
  /\ UNCHANGED <<eksVars, attempts, faults>>

PollError(r) ==
  /\ pc[r] = "process"
  /\ InFlight(obj[r].status)
  /\ Fail("aws")
  /\ Settle(r, Begun(r))
  /\ UNCHANGED <<eksVars, attempts>>

\* handleNotInFlight without a call to EKS.
Assess(r) ==
  /\ pc[r] = "process"
  /\ ~InFlight(obj[r].status)
  /\ \/ ~Outdated(r) /\ Settle(r, Compliant(Begun(r)))
     \/ Outdated(r) /\ ~obj[r].spec.autoUpgrade /\ Settle(r, SkipUpgrade(Begun(r)))
  /\ UNCHANGED <<eksVars, attempts, faults>>

\* Mutant: the update in flight is not looked at first.
UpgradesRegardless(r) ==
  /\ pc[r] = "process"
  /\ Outdated(r)
  /\ obj[r].spec.autoUpgrade
  /\ attempts' = IF attempts = 2 THEN 2 ELSE attempts + 1

\* handleNotInFlight on its way to UpdateNodegroupVersion.
Upgrades(r) ==
  /\ pc[r] = "process"
  /\ ~InFlight(obj[r].status)
  /\ Outdated(r)
  /\ obj[r].spec.autoUpgrade
  /\ attempts' = IF attempts = 2 THEN 2 ELSE attempts + 1

Initiate(r) ==
  /\ Upgrades(r)
  /\ \E id \in UpdateId :
       /\ StartUpdate(id, latestSeen[r], "operator")
       /\ Settle(r, Initiated(Begun(r), id))
  /\ UNCHANGED faults

\* EKS starts the update, and the operator sees an error.
InitiateUnanswered(r) ==
  /\ Upgrades(r)
  /\ Fail("response")
  /\ \E id \in UpdateId : StartUpdate(id, latestSeen[r], "operator")
  /\ Settle(r, InitiationFailed(Begun(r)))

InitiateRefused(r) ==
  /\ Upgrades(r)
  /\ \/ RefusesUpdate(latestSeen[r]) /\ UNCHANGED faults
     \/ Fail("initiate")
  /\ Settle(r, InitiationFailed(Begun(r)))
  /\ UNCHANGED eksVars

------------------------------------------------------------------------------
\* Status().Update, and the return.

\* Mutant: the status is patched without a resourceVersion.
WriteStatusUnlocked(r) ==
  /\ pc[r] = "write"
  /\ store # NoPolicy
  /\ Publish([store EXCEPT !.status = obj[r].status], {})
  /\ Forget(r)
  /\ Requeue(r, "poll")
  /\ UNCHANGED <<eksVars, active, cache, queued, clockVars, faults, edits>>

\* Mutant: no short requeue while an update is in flight.
WriteStatusWithoutPoll(r) ==
  /\ pc[r] = "write"
  /\ current[r]
  /\ Publish([store EXCEPT !.status = obj[r].status], {r})
  /\ Goto(r, "stamp")
  /\ UNCHANGED <<eksVars, active, cache, queued, wait, obj, ngSeen, minorSeen,
                 latestSeen, clockVars, faults, edits>>

\* The update at the end of ProcessUpgrade succeeds: poll while an update is
\* in flight, otherwise go on to the schedule stamps.
WriteStatus(r) ==
  /\ pc[r] = "write"
  /\ current[r]
  /\ IF InFlight(obj[r].status)
       THEN /\ Publish([store EXCEPT !.status = obj[r].status], {})
            /\ Forget(r)
            /\ Requeue(r, "poll")
       ELSE /\ Publish([store EXCEPT !.status = obj[r].status], {r})
            /\ Goto(r, "stamp")
            /\ UNCHANGED <<obj, ngSeen, minorSeen, latestSeen, wait>>
  /\ UNCHANGED <<eksVars, active, cache, queued, clockVars, faults, edits>>

WriteUnanswered(r) ==
  /\ pc[r] = "write"
  /\ current[r]
  /\ Fail("apiResponse")
  /\ Publish([store EXCEPT !.status = obj[r].status], {})
  /\ Forget(r)
  /\ Requeue(r, "soon")
  /\ UNCHANGED <<eksVars, active, cache, queued, clockVars, edits>>

\* It fails: the object has a newer version, or is gone, or the API server is down.
WriteError(r) ==
  /\ pc[r] = "write"
  /\ \/ ~current[r] /\ UNCHANGED faults
     \/ Fail("api")
  /\ Return(r, "soon")
  /\ UNCHANGED edits

\* The best-effort update with the schedule stamps; its error is only logged.
Stamp(r) ==
  /\ pc[r] = "stamp"
  /\ current[r]
  /\ Publish([store EXCEPT !.status = obj[r].status], {})
  /\ Forget(r)
  /\ Requeue(r, "schedule")
  /\ UNCHANGED <<eksVars, active, cache, queued, clockVars, faults, edits>>

StampError(r) ==
  /\ pc[r] = "stamp"
  /\ \/ ~current[r] /\ UNCHANGED faults
     \/ Fail("api")
  /\ Return(r, "schedule")
  /\ UNCHANGED edits

Reconcile(r) ==
  \/ Start(r)
  \/ RemoveFinalizer(r) \/ AddFinalizer(r) \/ AddFinalizerUnanswered(r) \/ FinalizerError(r)
  \/ Paused(r) \/ MalformedStartAfter(r) \/ Skip(r) \/ NotDue(r) \/ Proceed(r) \/ ClientsError(r)
  \/ DescribeNodegroup(r) \/ DescribeNodegroupError(r)
  \/ DescribeCluster(r) \/ DescribeClusterError(r)
  \/ ResolveLatest(r) \/ ResolveUnsupported(r) \/ ResolveError(r)
  \/ Poll(r) \/ PollError(r) \/ Assess(r)
  \/ Initiate(r) \/ InitiateUnanswered(r) \/ InitiateRefused(r)
  \/ WriteStatus(r) \/ WriteUnanswered(r) \/ WriteError(r)
  \/ Stamp(r) \/ StampError(r)

------------------------------------------------------------------------------
\* Everything around the workers.

Informer(r) == Deliver(r) /\ UNCHANGED <<eksVars, procVars, clockVars, faults, edits>>

Timer(r) == Fire(r) /\ UNCHANGED <<eksVars, procVars, clockVars, faults, edits>>

BootReplica(r) == Boot(r) /\ UNCHANGED <<eksVars, procVars, clockVars, faults, edits>>

Crash(r) ==
  /\ Halt(r)
  /\ Fail("crash")
  /\ Forget(r)
  /\ UNCHANGED <<eksVars, clockVars, edits>>

\* Six hours pass since the last attempt: every copy of the status has aged.
AgedPolicy(p) == IF p = NoPolicy THEN p ELSE [p EXCEPT !.status = Aged(@)]

CooldownElapses ==
  /\ attempts > 0
  /\ attempts' = 0
  /\ store' = AgedPolicy(store)
  /\ cache' = [r \in Replica |-> AgedPolicy(cache[r])]
  /\ watch' = [r \in Replica |-> [i \in DOMAIN watch[r] |-> AgedPolicy(watch[r][i])]]
  /\ obj' = [r \in Replica |-> AgedPolicy(obj[r])]
  /\ UNCHANGED <<eksVars, active, queued, wait, current, pc, ngSeen, minorSeen,
                 latestSeen, started, faults, edits>>

StartAfterPasses ==
  /\ ~started
  /\ started' = TRUE
  /\ UNCHANGED <<eksVars, planeVars, procVars, attempts, faults, edits>>

UpdateEnds(id) ==
  /\ \E outcome \in Outcome : CompleteUpdate(id, outcome)
  /\ UNCHANGED <<planeVars, procVars, clockVars, faults, edits>>

AWSMoves ==
  /\ NewRelease \/ UpgradeCluster
  /\ UNCHANGED <<planeVars, procVars, clockVars, faults, edits>>

\* Somebody edits or deletes the policy, or updates the nodegroup from the console.
SomebodyActs ==
  /\ edits < MaxEdits
  /\ edits' = edits + 1
  /\ \/ Delete /\ UNCHANGED eksVars
     \/ \E spec \in Specs : Apply(spec) /\ UNCHANGED eksVars
     \/ \E id \in UpdateId : StartUpdate(id, latest, "other") /\ UNCHANGED planeVars
  /\ UNCHANGED <<procVars, clockVars, faults>>

Next ==
  \/ \E r \in Replica :
       Reconcile(r) \/ Informer(r) \/ Timer(r) \/ BootReplica(r) \/ Crash(r)
  \/ CooldownElapses
  \/ StartAfterPasses
  \/ \E id \in UpdateId : UpdateEnds(id)
  \/ AWSMoves
  \/ SomebodyActs

Spec == Init /\ [][Next]_vars

\* The code's scheduling: a started worker goes on, informers and delaying
\* queues deliver, a stopped replica is restarted by its Deployment; EKS ends
\* every update, and time passes.  Faults, edits and new releases owe nothing.
Fairness ==
  /\ \A r \in Replica :
       /\ WF_vars(Reconcile(r))
       /\ WF_vars(Informer(r))
       /\ WF_vars(Timer(r))
       /\ WF_vars(BootReplica(r))
  /\ \A id \in UpdateId : WF_vars(UpdateEnds(id))
  /\ WF_vars(CooldownElapses)
  /\ WF_vars(StartAfterPasses)

FairSpec == Spec /\ Fairness

------------------------------------------------------------------------------
(* Properties *)

\* An event that will put the key in r's queue is on its way to r's informer.
EventPending(r) ==
  \E i \in 1..Len(watch[r]) :
    Accepts(IF i = 1 THEN cache[r] ELSE watch[r][i - 1], watch[r][i])

\* There is work to come back to: a finalizer to remove, or an unpaused policy.
NeedsWork(p) == p # NoPolicy /\ (p.deleting \/ ~p.spec.paused)

\* The reconcile loop never goes to sleep on a policy: while the stored object
\* needs work, every running replica is working on it, has it queued or timed,
\* or is about to be told.  GenerationChangedPredicate drops status writes, so
\* a requeue that is not asked for (Paused, a deleted object) is never made up
\* for by the operator's own writes.
NoLostWakeup ==
  \A r \in Replica :
    active[r] /\ pc[r] = "idle" /\ NeedsWork(store) =>
      queued[r] \/ wait[r] # "none" \/ EventPending(r)

\* What the stored status says of the update it names is what EKS decided,
\* and the errors it shows beside an outcome are that update's own, however
\* stale the reads and however late the write.
ReportedOutcome ==
  store # NoPolicy /\ store.status.updateID # NoUpdate =>
    LET update == updates[store.status.updateID]
    IN  /\ update.status # "None"
        /\ update.owner = "operator"
        /\ store.status.updateStatus \in Outcome =>
             update.status = store.status.updateStatus
        /\ store.status.updateStatus \in {"Failed", "Cancelled"} =>
             store.status.updateErrors = store.status.updateID
        /\ store.status.updateStatus = "Successful" => store.status.updateErrors = NoUpdate
        /\ store.status.upgradeStatus = "Succeeded" /\ store.status.currentAmi # store.status.targetAmi =>
             update.status = "Successful"

\* While a worker is past the finalizer, the object it works on exists and
\* holds the finalizer: what a single replica writes or starts always belongs
\* to an object that is still there.
FinalizerHolds ==
  \A r \in Replica :
    pc[r] \notin {"idle", "removeFinalizer", "addFinalizer"} =>
      store # NoPolicy /\ store.finalizer

\* The stored status follows UpgradeLifecycle.
Phase ==
  IF store = NoPolicy THEN "absent"
  ELSE IF store.status.upgradeStatus = "" THEN "new"
  ELSE store.status.upgradeStatus

Lifecycle == INSTANCE UpgradeLifecycle WITH
  phase <- Phase,
  id <- IF store = NoPolicy THEN NoUpdate ELSE store.status.updateID,
  ups <- [u \in UpdateId |-> updates[u].status]

FollowsLifecycle == Lifecycle!Spec

\* As long as nothing fails, every update the operator started is tracked until
\* it ends: the stored policy names it and is in flight, or a worker is about to
\* store that.
NoOrphan ==
  faults = 0 =>
    \A id \in UpdateId :
      updates[id].status = "InProgress" /\ updates[id].owner = "operator" =>
        \/ store # NoPolicy /\ InFlight(store.status) /\ store.status.updateID = id
        \/ \E r \in Replica : pc[r] = "write" /\ obj[r].status.updateID = id

\* While an update is in flight and the policy is not paused, r when idle comes
\* back to it by the two minute poll or a rate-limited retry.
Polls(r) ==
  /\ active[r] /\ pc[r] = "idle" /\ ~queued[r] /\ ~EventPending(r)
  /\ store # NoPolicy /\ ~store.spec.paused /\ InFlight(store.status)
  => wait[r] \in {"soon", "poll"}

\* An update in flight is polled every two minutes.
PolledSoon == \A r \in Replica : Polls(r)

\* Of the one replica, three kinds of pass leave an update in flight to the
\* schedule, and nothing else does, however stale the cache and whatever fails:
\* one that ShouldSkip ends before the in-flight check, one that cannot resolve
\* the latest AMI (resolveLatestOrRequeue asks for the schedule, where the other
\* two AWS reads poll or retry), and one whose copy has no update in flight,
\* because the informer lags or AL2 is unsupported, and that ends without a write.
KeepsPolling ==
  [][\A r \in Replica :
       Polls(r) /\ ~Polls(r)' =>
         \/ pc[r] = "guards" /\ (WaitsForStart(obj[r].spec) \/ CoolingDown(obj[r]))
         \/ pc[r] = "resolve"
         \/ pc[r] \in {"nodegroup", "stamp"} /\ ~InFlight(obj[r].status)]_vars

\* As long as nothing fails, an interval schedule makes no two attempts within
\* six hours.
CooldownRespected ==
  faults = 0 /\ store # NoPolicy /\ ~store.spec.cron => attempts < 2

\* The UnsupportedAMI conditions never precede their cause: a stored policy has
\* them only once the cluster of an AL2 nodegroup is past the last minor with an
\* AL2 AMI, never for a failed lookup.  (That they outlive it, when the nodegroup
\* is created anew on another AMI type, is not modelled.)
ConditionsHold ==
  store # NoPolicy /\ store.status.conditions = "UnsupportedAMI" =>
    AL2Unsupported(AmiType, minor)

\* The operator leaves a nodegroup with a CUSTOM AMI alone.
CustomLeftAlone == AmiType = "CUSTOM" => attempts = 0

\* An update in flight is concluded, unless the policy is paused or goes.
Concludes ==
  (store # NoPolicy /\ InFlight(store.status))
    ~> (store = NoPolicy \/ store.spec.paused \/ ~InFlight(store.status))

\* A deleted policy goes.
DeletionCompletes ==
  (store # NoPolicy /\ store.deleting) ~> (store = NoPolicy \/ ~store.deleting)
=============================================================================
