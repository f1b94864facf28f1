---------------------------- MODULE MetricsProofs ----------------------------
(***************************************************************************)
(* Each step of Metrics is one of Reconciler with what it sets, so what is *)
(* proved of Reconciler holds of it (not the converse: a counter at its    *)
(* bound stops a step); and what a registry shows is proved here, for      *)
(* every set of replicas, every fault and every bound.                     *)
(***************************************************************************)
EXTENDS Metrics, LifecycleProofs

------------------------------------------------------------------------------
\* Metrics without its meters is Reconciler.

LEMMA MeteredStep ==
  ASSUME [MeteredNext]_meteredVars
  PROVE  [Next]_vars
<1>1. ASSUME NEW r \in Replica, LetsGo(r) \/ LetsGoInVain(r) \/ Unsupported(r) \/ Decide(r)
      PROVE  Reconcile(r)
  BY <1>1 DEF LetsGo, LetsGoInVain, Unsupported, Decide, Reconcile
<1>2. ASSUME NEW r \in Replica, Begin(r) PROVE UNCHANGED vars
  BY <1>2 DEF Begin
<1>3. ASSUME NEW r \in Replica, Dies(r) PROVE Crash(r)
  BY <1>3 DEF Dies
<1>4. ASSUME NEW r \in Replica, Unmetered(r) PROVE Reconcile(r)
  BY <1>4 DEF Unmetered, Reconcile
<1> QED
  BY <1>1, <1>2, <1>3, <1>4 DEF MeteredNext, Elsewhere, Next, meteredVars

\* What is proved of Spec holds of MeteredSpec.
LEMMA MeteredImplements == MeteredSpec => Spec
<1>1. MeteredInit => Init
  BY DEF MeteredInit
<1>2. [MeteredNext]_meteredVars => [Next]_vars
  BY MeteredStep
<1> QED
  BY <1>1, <1>2, PTL DEF MeteredSpec, Spec

------------------------------------------------------------------------------
(***************************************************************************)
(* The registries.  What a branch sets is a registry whenever its counters *)
(* are within the bound.                                                   *)
(***************************************************************************)

Counters(m) == {m.success, m.failed, m.skipped, m.deleted}

\* A registry again, if its counters are within the bound.
Sets(new) == Counters(new) \subseteq Count => new \in Registry

\* Lighting a label value leaves a registry.
LEMMA LitRegistry ==
  ASSUME NEW m \in Registry,
         NEW status \in {"idle", "in_progress", "successful", "failed", "cancelled"}
  PROVE  Lit(m, status) \in Registry
BY DEF Lit, Registry

\* What the branches set.
LEMMA BranchesSet ==
  ASSUME NEW m \in Registry
  PROVE  /\ Sets(BeginMetrics(m)) /\ Sets(RunningMetrics(m))
         /\ Sets(SuccessMetrics(m))
         /\ Sets(FailureMetrics(m, "failed")) /\ Sets(FailureMetrics(m, "cancelled"))
         /\ Sets(CompliantMetrics(m)) /\ Sets(SkippedMetrics(m))
         /\ Sets(InitiationFailedMetrics(m)) /\ Sets(InitiatedMetrics(m))
         /\ Sets(UnsupportedMetrics(m))
<1>1. ASSUME NEW lit \in Registry
      PROVE  /\ Sets([lit EXCEPT !.inflight = "zero"])
             /\ Sets([lit EXCEPT !.inflight = "positive"])
             /\ Sets([lit EXCEPT !.inflight = "zero", !.compliance = "compliant"])
  BY DEF Sets, Registry
<1>2. ASSUME NEW lit \in Registry
      PROVE  Sets([lit EXCEPT !.inflight = "zero", !.compliance = "not", !.failed = lit.failed + 1])
  BY DEF Sets, Counters, Registry
<1>3. ASSUME NEW lit \in Registry
      PROVE  Sets([lit EXCEPT !.inflight = "zero", !.compliance = "not", !.skipped = lit.skipped + 1])
  BY DEF Sets, Counters, Registry
<1>4. ASSUME NEW lit \in Registry
      PROVE  Sets([lit EXCEPT !.inflight = "zero", !.compliance = "not", !.success = lit.success + 1])
  BY DEF Sets, Counters, Registry
<1>5. Sets([m EXCEPT !.compliance = "not", !.skipped = m.skipped + 1])
  BY DEF Sets, Counters, Registry
<1> QED
  BY <1>1, <1>2, <1>3, <1>4, <1>5, LitRegistry
     DEF BeginMetrics, RunningMetrics, SuccessMetrics, FailureMetrics, CompliantMetrics,
         SkippedMetrics, InitiationFailedMetrics, InitiatedMetrics, UnsupportedMetrics

\* What trackInFlightUpdate sets, whatever EKS answers.
LEMMA TrackedSets ==
  ASSUME NEW m \in Registry, NEW reported
  PROVE  Sets(TrackedMetrics(m, reported))
BY BranchesSet DEF TrackedMetrics

\* Counting a deletion.
LEMMA DeletionSet ==
  ASSUME NEW m \in Registry
  PROVE  Sets([m EXCEPT !.deleted = @ + 1])
BY DEF Sets, Counters, Registry

\* A replica's registry is replaced.
LEMMA EmitTyped ==
  ASSUME MetricsTypeOK, NEW r \in Replica, NEW new, Emit(r, new), Sets(new)
  PROVE  metrics' \in [Replica -> Registry]
BY DEF Sets, Emit, Counters, MetricsTypeOK

------------------------------------------------------------------------------
\* Types.

\* ProcessUpgrade's branches set a registry.
LEMMA DecideSets ==
  ASSUME MetricsTypeOK, NEW r \in Replica, Decide(r)
  PROVE  \E new : Emit(r, new) /\ Sets(new)
<1>1. metrics[r] \in Registry
  BY DEF MetricsTypeOK
<1> QED
  BY <1>1, BranchesSet, TrackedSets DEF Decide

\* Every step keeps the registries typed.
LEMMA MetersNext ==
  ASSUME MetricsTypeOK, [MeteredNext]_meteredVars
  PROVE  MetricsTypeOK'
<1>1. \A r \in Replica : metrics[r] \in Registry
  BY DEF MetricsTypeOK
<1>2. ASSUME NEW r \in Replica, NEW new, Emit(r, new), Sets(new), begun' \in [Replica -> BOOLEAN]
      PROVE  MetricsTypeOK'
  BY <1>2, EmitTyped DEF MetricsTypeOK
<1>3. ASSUME NEW r \in Replica, LetsGo(r) \/ LetsGoInVain(r) PROVE MetricsTypeOK'
  BY <1>1, <1>2, <1>3, DeletionSet DEF LetsGo, LetsGoInVain, CountDeletion, MetricsTypeOK
<1>4. ASSUME NEW r \in Replica, Unsupported(r) PROVE MetricsTypeOK'
  BY <1>1, <1>2, <1>4, BranchesSet DEF Unsupported, MetricsTypeOK
<1>5. ASSUME NEW r \in Replica, Begin(r) PROVE MetricsTypeOK'
  BY <1>1, <1>2, <1>5, BranchesSet DEF Begin, MetricsTypeOK
<1>6. ASSUME NEW r \in Replica, Decide(r) PROVE MetricsTypeOK'
  <2>1. begun' \in [Replica -> BOOLEAN]
    BY <1>6 DEF Decide, MetricsTypeOK
  <2> QED BY <1>2, <1>6, <2>1, DecideSets
<1>7. ASSUME NEW r \in Replica, Dies(r) PROVE MetricsTypeOK'
  <2>1. NewRegistry \in Registry
    BY CountAssumption DEF NewRegistry, Registry, Count
  <2> QED BY <1>7, <2>1 DEF Dies, MetricsTypeOK
<1>8. CASE UNCHANGED meterVars
  BY <1>8 DEF meterVars, MetricsTypeOK
<1> QED
  BY <1>3, <1>4, <1>5, <1>6, <1>7, <1>8 DEF MeteredNext, meteredVars, meterVars

LEMMA MetersInit ==
  ASSUME MeteredInit
  PROVE  MetricsTypeOK
<1>1. NewRegistry \in Registry
  BY CountAssumption DEF NewRegistry, Registry, Count
<1> QED
  BY <1>1 DEF MeteredInit, MetricsTypeOK

\* Whatever is scraped, every label value and counter stays one the code
\* documents: trackInFlightUpdate and the branches of handleNotInFlight map
\* EKS's words to the five label values of update_status.
THEOREM MetricsTypeCorrect == MeteredSpec => []MetricsTypeOK
<1>1. MeteredInit => MetricsTypeOK
  BY MetersInit
<1>2. MetricsTypeOK /\ [MeteredNext]_meteredVars => MetricsTypeOK'
  BY MetersNext
<1> QED
  BY <1>1, <1>2, PTL DEF MeteredSpec

------------------------------------------------------------------------------
(***************************************************************************)
(* The compliance gauge.  It is set when a status is computed and shown    *)
(* beside the one that is stored, which other steps may replace meanwhile. *)
(* What makes the two agree in the end is again the optimistic lock: while *)
(* the copy is current, it differs in phase from the store only by what    *)
(* this pass decided, and the gauge was set by the same branch.            *)
(***************************************************************************)

\* The gauge of a replica says what its write, if it is accepted, will make true.
Shown(r) ==
  current[r] /\ pc[r] \in Writing /\ obj[r].status.upgradeStatus # store.status.upgradeStatus =>
    (metrics[r].compliance = "compliant" <=> obj[r].status.upgradeStatus = "Succeeded")

ShownInv == \A r \in Replica : Shown(r)

\* What a step owes: the invariant, and that it writes only what is shown.
Writes(r) ==
  /\ store # NoPolicy /\ store' # NoPolicy
  /\ store'.status.upgradeStatus # store.status.upgradeStatus
  /\ pc'[r] # pc[r]

Told(r) == metrics'[r].compliance = "compliant" <=> store'.status.upgradeStatus = "Succeeded"

Tells == ShownInv' /\ \A r \in Replica : Writes(r) => Told(r)

\* The store stays: the workers that stay do, with what their endpoints show.
LEMMA StoreStays ==
  ASSUME ShownInv, UNCHANGED store,
         \A r \in Replica : (Stays(r) /\ metrics'[r] = metrics[r]) \/ Shown(r)'
  PROVE  Tells
BY DEF Tells, ShownInv, Shown, Stays, Writes

\* A worker returns without having written.
LEMMA ReturnTells ==
  ASSUME IInv, ShownInv, NEW r \in Replica, NEW delay, Return(r, delay),
         \A s \in Replica : s # r => metrics'[s] = metrics[s]
  PROVE  Tells
<1>1. Goto(r, "idle") /\ LetGo(r) /\ obj' = [obj EXCEPT ![r] = NoPolicy] /\ UNCHANGED store
  BY DEF Return, Forget, LetGo
<1>2. pc'[r] = "idle" /\ \A s \in Replica : s # r => Stays(s)
  BY <1>1, OthersStay DEF Label
<1>3. Shown(r)'
  BY <1>2 DEF Shown, Writing
<1> QED
  BY <1>1, <1>2, <1>3, StoreStays

\* A worker goes on without a new status, or with one its endpoint tells.
LEMMA LocalTells ==
  ASSUME IInv, LifeInv, ShownInv, NEW r \in Replica, NEW label \in Label, Goto(r, label),
         UNCHANGED planeVars, \E copy : obj' = [obj EXCEPT ![r] = copy],
         \A s \in Replica : s # r => metrics'[s] = metrics[s],
         label \in Writing /\ current[r]
           /\ obj'[r].status.upgradeStatus # store.status.upgradeStatus =>
             (metrics'[r].compliance = "compliant" <=> obj'[r].status.upgradeStatus = "Succeeded")
  PROVE  Tells
<1>1. UNCHANGED <<store, current>>
  BY DEF planeVars
<1>2. pc'[r] = label /\ \A s \in Replica : s # r => Stays(s)
  BY <1>1, OthersStay
<1>3. Shown(r)'
  BY <1>1, <1>2 DEF Shown
<1> QED
  BY <1>1, <1>2, <1>3, StoreStays

\* The object is stored anew, and no worker that is about to write holds it.
LEMMA PublishTells ==
  ASSUME IInv, NEW new, NEW holders, Publish(new, holders),
         \A r \in holders : r \in Replica /\ pc'[r] \in Writing =>
           obj'[r].status.upgradeStatus = new.status.upgradeStatus,
         \A r \in Replica : Writes(r) => Told(r)
  PROVE  Tells
<1>1. store' = new /\ \A r \in Replica : current'[r] => r \in holders
  BY DEF Publish
<1>2. ShownInv'
  BY <1>1 DEF ShownInv, Shown
<1> QED
  BY <1>2 DEF Tells

------------------------------------------------------------------------------
\* What ProcessUpgrade decides: the branch that sets a phase sets the gauge.

\* The gauge after each branch.
LEMMA BranchGauges ==
  ASSUME NEW m \in Registry
  PROVE  /\ SuccessMetrics(m).compliance = "compliant"
         /\ CompliantMetrics(m).compliance = "compliant"
         /\ FailureMetrics(m, "failed").compliance = "not"
         /\ FailureMetrics(m, "cancelled").compliance = "not"
         /\ SkippedMetrics(m).compliance = "not"
         /\ InitiationFailedMetrics(m).compliance = "not"
         /\ InitiatedMetrics(m).compliance = "not"
         /\ UnsupportedMetrics(m).compliance = "not"
<1>1. \A status : Lit(m, status) = [m EXCEPT !.updateStatus = m.updateStatus \cup {status}]
  BY DEF Lit
<1>2. ASSUME NEW status PROVE DOMAIN Lit(m, status) = DOMAIN m /\ "compliance" \in DOMAIN m
  BY <1>1 DEF Registry
<1> QED
  BY <1>2 DEF SuccessMetrics, CompliantMetrics, FailureMetrics, SkippedMetrics,
              InitiationFailedMetrics, InitiatedMetrics, UnsupportedMetrics, Registry

\* The phase after each branch.
LEMMA BranchPhases ==
  ASSUME NEW status \in Status, NEW id
  PROVE  /\ Compliant(status).upgradeStatus = "Succeeded"
         /\ SkipUpgrade(status).upgradeStatus = "Skipped"
         /\ InitiationFailed(status).upgradeStatus = "Failed"
         /\ Initiated(status, id).upgradeStatus = "InProgress"
         /\ UnsupportedAMI(status).upgradeStatus = "Skipped"
BY DEF Compliant, SkipUpgrade, InitiationFailed, Initiated, UnsupportedAMI, Status

\* trackInFlightUpdate.
LEMMA TrackedTells ==
  ASSUME NEW m \in Registry, NEW status \in Status, NEW reported
  PROVE  LET tracked == TrackInFlightUpdate(status, reported)
         IN  tracked.upgradeStatus # status.upgradeStatus =>
               (TrackedMetrics(m, reported).compliance = "compliant"
                  <=> tracked.upgradeStatus = "Succeeded")
<1> DEFINE tracked == TrackInFlightUpdate(status, reported)
<1>1. tracked.upgradeStatus = CASE reported = "Successful" -> "Succeeded"
                                [] reported \in {"Failed", "Cancelled"} -> "Failed"
                                [] OTHER -> status.upgradeStatus
  BY DEF TrackInFlightUpdate, Status
<1>2. CASE reported = "Successful"
  BY <1>1, <1>2, BranchGauges DEF TrackedMetrics
<1>3. CASE reported \in {"Failed", "Cancelled"}
  BY <1>1, <1>3, BranchGauges DEF TrackedMetrics
<1>4. CASE reported \notin {"Successful", "Failed", "Cancelled"}
  BY <1>1, <1>4
<1> QED
  BY <1>2, <1>3, <1>4

LEMMA DecideTells ==
  ASSUME IInv, LifeInv, MetricsTypeOK, ShownInv, NEW r \in Replica, Decide(r)
  PROVE  Tells
<1>1. pc[r] = "process"
  BY DEF Decide, Poll, PollError, Assess, Initiate, InitiateUnanswered, InitiateRefused, Upgrades
<1>2. obj[r] \in Policy /\ obj[r].status \in Status /\ metrics[r] \in Registry
  BY <1>1, WorkersCopy DEF MetricsTypeOK
<1>3. Begun(r) \in Status /\ Begun(r).upgradeStatus = obj[r].status.upgradeStatus
  <2>1. ngSeen[r] \in Release \cup {NoRelease} /\ latestSeen[r] \in Release \cup {NoRelease}
    BY DEF IInv, ProcInv
  <2> QED BY <1>2, <2>1 DEF Begun, BeginProcess, Status
<1>4. current[r] => obj[r].status = store.status
  BY <1>1 DEF LifeInv, BasedOnStore, Reading
<1>5. ASSUME NEW status, Settle(r, status), NEW m, Emit(r, m),
             status.upgradeStatus # obj[r].status.upgradeStatus =>
               (m.compliance = "compliant" <=> status.upgradeStatus = "Succeeded")
      PROVE  Tells
  <2>1. obj' = [obj EXCEPT ![r] = [obj[r] EXCEPT !.status = status]]
    BY <1>5 DEF Settle
  <2>2. obj'[r].status = status
    BY <1>2, <2>1 DEF IInv, ProcInv, Policy
  <2>3. metrics'[r] = m /\ \A s \in Replica : s # r => metrics'[s] = metrics[s]
    BY <1>5 DEF Emit, MetricsTypeOK
  <2>4. Goto(r, "write") /\ UNCHANGED planeVars /\ "write" \in Label
    BY <1>5 DEF Settle, Label
  <2> QED BY <1>4, <1>5, <2>1, <2>2, <2>3, <2>4, LocalTells
<1>6. CASE Poll(r) /\ Emit(r, TrackedMetrics(metrics[r], updates[obj[r].status.updateID].status))
  BY <1>2, <1>3, <1>5, <1>6, TrackedTells DEF Poll
<1>7. CASE PollError(r) /\ Emit(r, RunningMetrics(metrics[r]))
  BY <1>3, <1>5, <1>7 DEF PollError
<1>8. CASE Assess(r)
             /\ Emit(r, IF Outdated(r) THEN SkippedMetrics(metrics[r]) ELSE CompliantMetrics(metrics[r]))
  BY <1>2, <1>3, <1>5, <1>8, BranchGauges, BranchPhases DEF Assess
<1>9. CASE Initiate(r) /\ Emit(r, InitiatedMetrics(metrics[r]))
  BY <1>2, <1>3, <1>5, <1>9, BranchGauges, BranchPhases DEF Initiate
<1>10. CASE (InitiateUnanswered(r) \/ InitiateRefused(r)) /\ Emit(r, InitiationFailedMetrics(metrics[r]))
  BY <1>2, <1>3, <1>5, <1>10, BranchGauges, BranchPhases DEF InitiateUnanswered, InitiateRefused
<1> QED
  BY <1>6, <1>7, <1>8, <1>9, <1>10 DEF Decide

\* The branch that ends before ProcessUpgrade.
LEMMA UnsupportedTells ==
  ASSUME IInv, LifeInv, MetricsTypeOK, ShownInv, NEW r \in Replica, Unsupported(r)
  PROVE  Tells
<1>1. /\ pc[r] = "resolve" /\ Goto(r, "stamp") /\ UNCHANGED planeVars
      /\ obj' = [obj EXCEPT ![r] = [obj[r] EXCEPT !.status = UnsupportedAMI(obj[r].status)]]
      /\ Emit(r, UnsupportedMetrics(metrics[r]))
  BY DEF Unsupported, ResolveUnsupported
<1>2. obj[r] \in Policy /\ obj[r].status \in Status /\ metrics[r] \in Registry
  BY <1>1, WorkersCopy DEF MetricsTypeOK
<1>3. obj'[r].status.upgradeStatus = "Skipped"
  BY <1>1, <1>2, BranchPhases DEF IInv, ProcInv, Policy
<1>4. metrics'[r].compliance = "not" /\ \A s \in Replica : s # r => metrics'[s] = metrics[s]
  BY <1>1, <1>2, BranchGauges DEF Emit, MetricsTypeOK
<1> QED
  BY <1>1, <1>3, <1>4, LocalTells DEF Label

------------------------------------------------------------------------------
\* The steps that set no gauge.

\* The two status writes make true what the endpoint shows.
LEMMA WriteTells ==
  ASSUME IInv, ShownInv, UNCHANGED metrics, NEW r \in Replica,
         WriteStatus(r) \/ WriteUnanswered(r) \/ Stamp(r)
  PROVE  Tells
<1> DEFINE new == [store EXCEPT !.status = obj[r].status]
<1>1. current[r] /\ pc[r] \in Writing
  BY DEF WriteStatus, WriteUnanswered, Stamp, Writing
<1>2. store \in Policy /\ new.status = obj[r].status
  BY <1>1, StoredStatus DEF IInv, Existing, Policy
<1>3. \A s \in Replica : s # r => pc'[s] = pc[s]
  BY DEF WriteStatus, WriteUnanswered, Stamp, Forget, Goto, IInv, ProcInv
<1>4. ASSUME NEW holders, Publish(new, holders),
             \A s \in holders : s = r /\ UNCHANGED obj
      PROVE  Tells
  <2>1. store' = new
    BY <1>4 DEF Publish
  <2>2. Writes(r) => Told(r)
    BY <1>1, <1>2, <2>1 DEF Writes, Told, ShownInv, Shown
  <2>3. \A s \in Replica : Writes(s) => Told(s)
    BY <1>3, <2>2 DEF Writes
  <2> QED BY <1>2, <1>4, <2>3, PublishTells
<1>5. \/ Publish(new, {})
      \/ Publish(new, {r}) /\ UNCHANGED obj
  BY DEF WriteStatus, WriteUnanswered, Stamp
<1> QED
  BY <1>4, <1>5

\* The finalizer changes no phase.
LEMMA FinalizerTells ==
  ASSUME IInv, ShownInv, NEW r \in Replica,
         RemoveFinalizer(r) \/ AddFinalizer(r) \/ AddFinalizerUnanswered(r)
  PROVE  Tells
<1> DEFINE held == [store EXCEPT !.finalizer = TRUE]
<1>1. CASE RemoveFinalizer(r)
  <2>1. Publish(NoPolicy, {}) /\ store' = NoPolicy
    BY <1>1 DEF RemoveFinalizer, Publish
  <2> QED BY <2>1, PublishTells DEF Writes
<1>2. CASE AddFinalizer(r) \/ AddFinalizerUnanswered(r)
  <2>1. current[r] /\ ((Publish(held, {r}) /\ Goto(r, "guards")) \/ Publish(held, {}))
    BY <1>2 DEF AddFinalizer, AddFinalizerUnanswered
  <2>2. store' = held /\ store \in Policy
    BY <2>1, StoredStatus DEF Publish, IInv, Existing
  <2>3. store'.status = store.status
    BY <2>2 DEF Policy
  <2>4. Goto(r, "guards") => pc'[r] \notin Writing
    BY DEF Goto, IInv, ProcInv, Writing
  <2> QED BY <2>1, <2>3, <2>4, PublishTells DEF Writes
<1> QED
  BY <1>1, <1>2

\* From the cache read to ResolveLatestAMI, and the failed writes.
LEMMA ReadingTells ==
  ASSUME IInv, LifeInv, ShownInv, UNCHANGED metrics, NEW r \in Replica,
         \/ Start(r) \/ FinalizerError(r)
         \/ Paused(r) \/ MalformedStartAfter(r) \/ Skip(r) \/ NotDue(r) \/ Proceed(r) \/ ClientsError(r)
         \/ DescribeNodegroup(r) \/ DescribeNodegroupError(r)
         \/ DescribeCluster(r) \/ DescribeClusterError(r)
         \/ ResolveLatest(r) \/ ResolveError(r)
         \/ WriteError(r) \/ StampError(r)
  PROVE  Tells
<1>1. CASE \/ Paused(r) \/ MalformedStartAfter(r) \/ Skip(r) \/ ClientsError(r)
           \/ DescribeNodegroupError(r) \/ DescribeClusterError(r) \/ ResolveError(r)
           \/ FinalizerError(r) \/ WriteError(r) \/ StampError(r)
  <2>1. \E delay : Return(r, delay)
    BY <1>1 DEF Paused, MalformedStartAfter, Skip, ClientsError, DescribeNodegroupError,
                DescribeClusterError, ResolveError, FinalizerError, WriteError, StampError
  <2> QED BY <2>1, ReturnTells
<1>2. CASE \/ NotDue(r) \/ Proceed(r) \/ DescribeNodegroup(r) \/ DescribeCluster(r)
           \/ ResolveLatest(r)
  <2>1. /\ UNCHANGED planeVars /\ UNCHANGED obj /\ pc[r] \in Reading
        /\ \E label \in Label : Goto(r, label)
    BY <1>2 DEF NotDue, Proceed, DescribeNodegroup, DescribeCluster, ResolveLatest, Label, Reading
  <2>2. obj = [obj EXCEPT ![r] = obj[r]]
    BY DEF IInv, ProcInv
  <2>3. current[r] => obj[r].status = store.status
    BY <2>1 DEF LifeInv, BasedOnStore
  <2> QED BY <2>1, <2>2, <2>3, LocalTells
<1>3. CASE Start(r)
  <2>1. pc[r] = "idle" /\ UNCHANGED store
    BY <1>3 DEF Start
  <2>2. CASE UNCHANGED <<pc, obj, current>>
    BY <2>1, <2>2, StoreStays DEF Stays
  <2>3. CASE ~(cache[r] = NoPolicy \/ AfterGet(cache[r]) = "idle")
    <3>1. /\ obj' = [obj EXCEPT ![r] = cache[r]]
          /\ current' = [current EXCEPT ![r] = watch[r] = <<>>]
          /\ Goto(r, AfterGet(cache[r]))
      BY <1>3, <2>3 DEF Start
    <3>2. pc'[r] \notin Writing
      BY <3>1 DEF Goto, AfterGet, Writing, IInv, ProcInv
    <3>3. Shown(r)'
      BY <3>2 DEF Shown
    <3>4. \A s \in Replica : s # r => Stays(s)
      BY <3>1 DEF Stays, Goto, IInv, ProcInv, PlaneInv
    <3> QED BY <2>1, <3>3, <3>4, StoreStays
  <2> QED BY <1>3, <2>2, <2>3 DEF Start
<1> QED
  BY <1>1, <1>2, <1>3

\* Everything around the workers: nothing is written for them.
LEMMA ElsewhereTells ==
  ASSUME IInv, ShownInv, UNCHANGED metrics,
         \/ \E r \in Replica : Informer(r) \/ Timer(r) \/ BootReplica(r)
         \/ CooldownElapses \/ StartAfterPasses \/ AWSMoves
         \/ \E id \in UpdateId : UpdateEnds(id)
         \/ SomebodyActs \/ UNCHANGED vars
  PROVE  Tells
<1>1. ASSUME UNCHANGED <<store, current, pc, obj>> PROVE Tells
  BY <1>1, StoreStays DEF Stays
<1>2. CASE \/ \E r \in Replica : Informer(r) \/ Timer(r) \/ BootReplica(r)
           \/ StartAfterPasses \/ AWSMoves \/ \E id \in UpdateId : UpdateEnds(id)
           \/ UNCHANGED vars
  BY <1>1, <1>2 DEF Informer, Deliver, Timer, Fire, BootReplica, Boot, StartAfterPasses, AWSMoves,
                    UpdateEnds, planeVars, procVars, vars
<1>3. CASE CooldownElapses
  <2>1. \A p \in Policy : AgedPolicy(p).status.upgradeStatus = p.status.upgradeStatus
    <3>1. \A p \in Policy : AgedPolicy(p) = [p EXCEPT !.status = Aged(p.status)]
      BY NoPolicyAssumption DEF AgedPolicy
    <3>2. \A status \in Status : Aged(status).upgradeStatus = status.upgradeStatus
      BY DEF Aged, Status
    <3> QED BY <3>1, <3>2 DEF Policy
  <2>2. store # NoPolicy => store'.status.upgradeStatus = store.status.upgradeStatus
    BY <1>3, <2>1, StoredStatus DEF CooldownElapses
  <2>3. ASSUME NEW r \in Replica, pc[r] # "idle"
        PROVE  obj'[r].status.upgradeStatus = obj[r].status.upgradeStatus
    <3>1. obj'[r] = AgedPolicy(obj[r])
      BY <1>3 DEF CooldownElapses
    <3> QED BY <2>1, <2>3, <3>1, WorkersCopy
  <2>4. UNCHANGED <<pc, current>>
    BY <1>3 DEF CooldownElapses
  <2>5. \A r \in Replica : current[r] => store # NoPolicy
    BY DEF IInv, Existing
  <2>6. ShownInv'
    BY <2>2, <2>3, <2>4, <2>5 DEF ShownInv, Shown, Writing
  <2>7. \A r \in Replica : ~Writes(r)
    BY <2>4 DEF Writes
  <2> QED BY <2>6, <2>7 DEF Tells
<1>4. CASE SomebodyActs
  <2>1. UNCHANGED procVars
    BY <1>4 DEF SomebodyActs
  <2>2. \A r \in Replica : ~Writes(r)
    BY <2>1 DEF Writes, procVars
  <2>3. UNCHANGED planeVars \/ \E new : Publish(new, {})
    BY <1>4 DEF SomebodyActs, Delete, Apply
  <2>4. ASSUME UNCHANGED planeVars PROVE Tells
    BY <1>1, <2>1, <2>4 DEF planeVars, procVars
  <2>5. ASSUME NEW new, Publish(new, {}) PROVE Tells
    BY <2>2, <2>5, PublishTells
  <2> QED BY <2>3, <2>4, <2>5
<1> QED
  BY <1>2, <1>3, <1>4

\* Every step makes true only what is shown.
LEMMA NextTells ==
  ASSUME IInv, LifeInv, MetricsTypeOK, ShownInv, [MeteredNext]_meteredVars
  PROVE  Tells
<1>1. ASSUME NEW r \in Replica, LetsGo(r) PROVE Tells
  BY <1>1, FinalizerTells DEF LetsGo
<1>2. ASSUME NEW r \in Replica, LetsGoInVain(r) PROVE Tells
  <2>1. Return(r, "soon") /\ \A s \in Replica : s # r => metrics'[s] = metrics[s]
    BY <1>2 DEF LetsGoInVain, FinalizerError, CountDeletion, Emit, MetricsTypeOK
  <2> QED BY <2>1, ReturnTells
<1>3. ASSUME NEW r \in Replica, Begin(r) PROVE Tells
  <2>1. /\ pc[r] = "process" /\ UNCHANGED <<store, current, pc, obj>>
        /\ \A s \in Replica : s # r => metrics'[s] = metrics[s]
    BY <1>3 DEF Begin, Emit, MetricsTypeOK, vars, planeVars, procVars
  <2>2. Shown(r)'
    BY <2>1 DEF Shown, Writing
  <2> QED BY <2>1, <2>2, StoreStays DEF Stays
<1>4. ASSUME NEW r \in Replica, Dies(r) PROVE Tells
  <2>1. /\ current' = [current EXCEPT ![r] = FALSE] /\ pc' = [pc EXCEPT ![r] = "idle"]
        /\ obj' = [obj EXCEPT ![r] = NoPolicy] /\ UNCHANGED store
        /\ \A s \in Replica : s # r => metrics'[s] = metrics[s]
    BY <1>4 DEF Dies, Crash, Halt, Forget, Goto, MetricsTypeOK
  <2>2. Shown(r)' /\ \A s \in Replica : s # r => Stays(s)
    BY <2>1 DEF Shown, Stays, Writing, IInv, PlaneInv, ProcInv
  <2> QED BY <2>1, <2>2, StoreStays
<1>5. ASSUME NEW r \in Replica, Unmetered(r), UNCHANGED metrics PROVE Tells
  BY <1>5, ReadingTells, FinalizerTells, WriteTells DEF Unmetered
<1>6. ASSUME Elsewhere, UNCHANGED meterVars PROVE Tells
  BY <1>5, <1>6, ElsewhereTells DEF Elsewhere, meterVars
<1>7. CASE UNCHANGED meteredVars
  BY <1>7, ElsewhereTells DEF meteredVars, meterVars
<1> QED
  BY <1>1, <1>2, <1>3, <1>4, <1>6, <1>7, DecideTells, UnsupportedTells DEF MeteredNext

\* Whatever is lost, and whoever else reconciles or edits meanwhile: a status
\* write that changes the phase makes the stored phase what the writer's
\* compliance gauge already shows (upgrade.go:117-251).
THEOREM GaugeForetells == MeteredSpec => ComplianceShown
<1>1. MeteredInit => MetricsTypeOK /\ ShownInv /\ (IInv => LifeInv)
  BY MetersInit, InitLife DEF MeteredInit, Init, PlaneInit, ShownInv, Shown
<1>2. IInv /\ IInv' /\ LifeInv /\ [MeteredNext]_meteredVars => LifeInv'
  BY MeteredStep, NextLife DEF Implements
<1>3. MetricsTypeOK /\ [MeteredNext]_meteredVars => MetricsTypeOK'
  BY MetersNext
<1>4. IInv /\ LifeInv /\ MetricsTypeOK /\ ShownInv /\ [MeteredNext]_meteredVars =>
        /\ ShownInv'
        /\ \A r \in Replica : Writes(r) => Told(r)
  BY NextTells DEF Tells
<1>5. (\A r \in Replica : Writes(r) => Told(r)) =>
        \A r \in Replica :
          /\ store # NoPolicy /\ store' # NoPolicy
          /\ store'.status.upgradeStatus # store.status.upgradeStatus
          /\ pc'[r] # pc[r]
          => (metrics'[r].compliance = "compliant" <=> store'.status.upgradeStatus = "Succeeded")
  BY DEF Writes, Told
<1> QED
  BY <1>1, <1>2, <1>3, <1>4, <1>5, MeteredImplements, Invariant, PTL DEF MeteredSpec, ComplianceShown
=============================================================================
