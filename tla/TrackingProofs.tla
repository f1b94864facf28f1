--------------------------- MODULE TrackingProofs ---------------------------
(***************************************************************************)
(* What a single replica keeps track of.  The update it started and its    *)
(* cooldown, when nobody interferes: a conflict drops what a pass has      *)
(* done, whatever it was, so these hold as long as edits = 0, for every    *)
(* bound, every spec and every lag of the informer that ends before the    *)
(* two minute poll.  And, with no such restriction, which passes leave an  *)
(* update in flight unpolled.                                              *)
(***************************************************************************)
EXTENDS FinalizerProofs, LifecycleProofs

------------------------------------------------------------------------------
(***************************************************************************)
(* The policy is left alone: every copy has the spec it was created with,  *)
(* nothing is deleted, and the key is at one place at a time, in the queue *)
(* or in the delaying queue or with the worker.                            *)
(***************************************************************************)

Lasting(spec) == {p \in Policy : p.spec = spec /\ ~p.deleting}

OnePlace(r) ==
  /\ pc[r] # "idle" \/ queued[r] \/ ~active[r] => wait[r] = "none"
  /\ pc[r] # "idle" => ~queued[r]
  /\ pc[r] # "removeFinalizer"

PastGuards == {"nodegroup", "cluster", "resolve", "process", "write", "stamp"}

\* Whoever is past the guards has passed them.
Passed(r, spec) ==
  pc[r] \in PastGuards =>
    spec.startAfter # "malformed" /\ (spec.startAfter = "set" => started)

LeftAlone(spec) ==
  /\ Carried(Lasting(spec))
  /\ \A r \in Replica : OnePlace(r) /\ Passed(r, spec)

Undisturbed == edits = 0 => \E spec \in PolicySpec : LeftAlone(spec)

\* The operator never changes the spec of a copy, nor deletes one.
LEMMA LastingClosed ==
  ASSUME NEW spec
  PROVE  Closed(Lasting(spec))
<1>1. ASSUME NEW p \in Lasting(spec), NEW status \in Status
      PROVE  [p EXCEPT !.status = status] \in Lasting(spec)
  BY <1>1 DEF Lasting, Policy
<1>2. ASSUME NEW p \in Lasting(spec)
      PROVE  /\ p.status \in Status /\ Aged(p.status) \in Status
             /\ [p EXCEPT !.finalizer = TRUE] \in Lasting(spec)
  BY <1>2 DEF Lasting, Policy, Aged, Status
<1> QED
  BY <1>1, <1>2 DEF Closed

\* A status computed by a worker goes into a copy with the same spec.
LEMMA ComputesLasting ==
  ASSUME IInv, IInv', NEW spec, Carried(Lasting(spec)), NEW r \in Replica, Computes(r)
  PROVE  obj'[r] \in Lasting(spec)
<1>1. \E status : obj' = [obj EXCEPT ![r] = [obj[r] EXCEPT !.status = status]]
  BY DEF Computes, ResolveUnsupported, Poll, PollError, Assess, Initiate,
         InitiateUnanswered, InitiateRefused, Settle
<1>2. pc[r] # "idle" /\ \E label \in Label \ {"idle"} : Goto(r, label)
  BY DEF Computes, ResolveUnsupported, Poll, PollError, Assess, Initiate, InitiateUnanswered,
         InitiateRefused, Upgrades, Settle, Label
<1>3. obj[r] \in Lasting(spec)
  BY <1>2 DEF Carried
<1>4. obj'[r].spec = spec /\ ~obj'[r].deleting
  BY <1>1, <1>3 DEF Lasting, Policy, IInv, ProcInv
<1>5. pc'[r] # "idle"
  BY <1>2 DEF Goto, IInv, ProcInv
<1>6. obj'[r] \in Policy
  BY <1>5 DEF IInv, ProcInv, Working, TruthfulCopy, MaybePolicy
<1> QED
  BY <1>4, <1>6 DEF Lasting

\* A worker that returns leaves the key to the delaying queue.
LEMMA ReturnsToOnePlace ==
  ASSUME IInv, NEW r \in Replica, pc[r] # "idle", NEW delay, Forget(r), Requeue(r, delay),
         UNCHANGED <<active, queued>>, \A s \in Replica : OnePlace(s)
  PROVE  \A s \in Replica : OnePlace(s)' /\ (s # r => pc'[s] = pc[s]) /\ pc'[r] = "idle"
BY DEF IInv, ProcInv, PlaneInv, Working, OnePlace, Forget, Goto, Requeue

\* A worker that goes on keeps it.
LEMMA GoesOnInOnePlace ==
  ASSUME IInv, NEW r \in Replica, pc[r] # "idle", NEW label, Goto(r, label),
         label \notin {"idle", "removeFinalizer"},
         UNCHANGED <<active, queued, wait>>, \A s \in Replica : OnePlace(s)
  PROVE  \A s \in Replica : OnePlace(s)' /\ (s # r => pc'[s] = pc[s]) /\ pc'[r] = label
BY DEF IInv, ProcInv, OnePlace, Goto

\* The worker's steps leave the key at one place, past the guards only if they
\* were passed.
LEMMA WorkerLeavesAlone ==
  ASSUME IInv, NEW spec, LeftAlone(spec), NEW r \in Replica, Reconcile(r)
  PROVE  \A s \in Replica : OnePlace(s)' /\ Passed(s, spec)'
<1>1. \A s \in Replica : OnePlace(s) /\ Passed(s, spec)
  BY DEF LeftAlone
<1>2. CASE Start(r)
  <2>1. /\ queued[r] /\ active[r] /\ UNCHANGED <<active, wait, started>>
        /\ queued' = [queued EXCEPT ![r] = FALSE] /\ pc[r] = "idle"
        /\ pc' = pc \/ pc' = [pc EXCEPT ![r] = AfterGet(cache[r])]
    BY <1>2 DEF Start, Goto, clockVars, IInv, InSync
  <2>2. cache[r] \in Lasting(spec)
    BY <2>1 DEF LeftAlone, Carried
  <2>3. AfterGet(cache[r]) \in {"guards", "addFinalizer"}
    BY <2>2 DEF Lasting, AfterGet
  <2> QED BY <1>1, <2>1, <2>3 DEF OnePlace, Passed, PastGuards, IInv, ProcInv, PlaneInv
<1>3. CASE \/ Paused(r) \/ MalformedStartAfter(r) \/ Skip(r) \/ ClientsError(r)
           \/ DescribeNodegroupError(r) \/ DescribeClusterError(r) \/ ResolveError(r)
           \/ FinalizerError(r) \/ WriteError(r) \/ StampError(r)
           \/ RemoveFinalizer(r) \/ AddFinalizerUnanswered(r) \/ WriteUnanswered(r) \/ Stamp(r)
           \/ WriteStatus(r) /\ InFlight(obj[r].status)
  <2>1. /\ pc[r] # "idle" /\ Forget(r) /\ \E delay : Requeue(r, delay)
        /\ UNCHANGED <<active, queued, started>>
    BY <1>3 DEF Paused, MalformedStartAfter, Skip, ClientsError, DescribeNodegroupError,
                DescribeClusterError, ResolveError, FinalizerError, WriteError, StampError, Return,
                RemoveFinalizer, AddFinalizerUnanswered, WriteUnanswered, Stamp, WriteStatus, clockVars
  <2> QED BY <1>1, <2>1, ReturnsToOnePlace DEF Passed, PastGuards
<1>4. CASE NotDue(r) \/ Proceed(r)
  <2>1. /\ pc[r] = "guards" /\ PassesGuards(obj[r]) /\ UNCHANGED <<active, queued, wait, started>>
        /\ Goto(r, "stamp") \/ Goto(r, "nodegroup")
    BY <1>4 DEF NotDue, Proceed, planeVars, clockVars
  <2>2. obj[r].spec = spec
    BY <2>1 DEF LeftAlone, Carried, Lasting
  <2>3. spec.startAfter # "malformed" /\ (spec.startAfter = "set" => started)
    BY <2>1, <2>2 DEF PassesGuards, WaitsForStart
  <2> QED BY <1>1, <2>1, <2>3, GoesOnInOnePlace DEF Passed
<1>5. CASE AddFinalizer(r)
  <2>1. pc[r] # "idle" /\ UNCHANGED <<active, queued, wait, started>> /\ Goto(r, "guards")
    BY <1>5 DEF AddFinalizer, clockVars
  <2> QED BY <1>1, <2>1, GoesOnInOnePlace DEF Passed, PastGuards
<1>6. CASE \/ DescribeNodegroup(r) \/ DescribeCluster(r) \/ ResolveLatest(r) \/ Computes(r)
           \/ WriteStatus(r) /\ ~InFlight(obj[r].status)
  <2>1. /\ pc[r] \in PastGuards /\ UNCHANGED <<active, queued, wait, started>>
        /\ \E label \in PastGuards : Goto(r, label)
    BY <1>6 DEF DescribeNodegroup, DescribeCluster, ResolveLatest, Computes, ResolveUnsupported,
                Poll, PollError, Assess, Initiate, InitiateUnanswered, InitiateRefused, Upgrades,
                Settle, WriteStatus, PastGuards, planeVars, clockVars
  <2> QED BY <1>1, <2>1, GoesOnInOnePlace DEF Passed, PastGuards
<1> QED
  BY <1>2, <1>3, <1>4, <1>5, <1>6 DEF Reconcile, Computes

\* So does everything around it: no event is one that the predicate accepts.
LEMMA SurroundingsLeaveAlone ==
  ASSUME IInv, NEW spec, LeftAlone(spec),
         \/ \E r \in Replica : Informer(r) \/ Timer(r) \/ BootReplica(r) \/ Crash(r)
         \/ CooldownElapses \/ StartAfterPasses \/ AWSMoves
         \/ \E id \in UpdateId : UpdateEnds(id)
  PROVE  \A s \in Replica : OnePlace(s)' /\ Passed(s, spec)'
<1>1. \A s \in Replica : OnePlace(s) /\ Passed(s, spec)
  BY DEF LeftAlone
<1>2. ASSUME NEW r \in Replica, Informer(r)
      PROVE  \A s \in Replica : OnePlace(s)' /\ Passed(s, spec)'
  <2>1. /\ active[r] /\ watch[r] # <<>> /\ UNCHANGED <<active, wait, pc, started>>
        /\ queued' = [queued EXCEPT ![r] = queued[r] \/ Accepts(cache[r], Head(watch[r]))]
    BY <1>2 DEF Informer, Deliver, procVars, clockVars
  <2>2. Head(watch[r]) \in Lasting(spec) /\ cache[r] \in Lasting(spec)
    BY <2>1, TailSeq DEF LeftAlone, Carried
  <2>3. ~Accepts(cache[r], Head(watch[r]))
    BY <2>2, NoPolicyAssumption DEF Lasting, Accepts, Policy
  <2>4. queued' = queued
    BY <2>1, <2>3 DEF IInv, PlaneInv
  <2> QED BY <1>1, <2>1, <2>4 DEF OnePlace, Passed
<1>3. ASSUME NEW r \in Replica, Timer(r) \/ BootReplica(r) \/ Crash(r)
      PROVE  \A s \in Replica : OnePlace(s)' /\ Passed(s, spec)'
  <2>1. CASE Timer(r)
    BY <1>1, <2>1 DEF Timer, Fire, procVars, clockVars, OnePlace, Passed, IInv, PlaneInv
  <2>2. CASE BootReplica(r)
    BY <1>1, <2>2 DEF BootReplica, Boot, procVars, clockVars, OnePlace, Passed, IInv, PlaneInv, Working
  <2>3. CASE Crash(r)
    BY <1>1, <2>3 DEF Crash, Halt, Forget, Goto, clockVars, OnePlace, Passed, PastGuards,
                      IInv, PlaneInv, ProcInv
  <2> QED BY <1>3, <2>1, <2>2, <2>3
<1>4. CASE CooldownElapses \/ AWSMoves \/ \E id \in UpdateId : UpdateEnds(id)
  BY <1>1, <1>4 DEF CooldownElapses, AWSMoves, UpdateEnds, planeVars, procVars, clockVars,
                    OnePlace, Passed
<1>5. CASE StartAfterPasses
  BY <1>1, <1>5 DEF StartAfterPasses, planeVars, procVars, OnePlace, Passed
<1> QED
  BY <1>2, <1>3, <1>4, <1>5

\* A step of anybody but the user leaves the policy alone.
LEMMA LeftAloneNext ==
  ASSUME IInv, NEW spec, LeftAlone(spec), [Next]_vars, ~SomebodyActs
  PROVE  LeftAlone(spec)'
<1>1. IInv'
  BY NextInv
<1>2. CASE UNCHANGED vars
  BY <1>2 DEF vars, planeVars, procVars, clockVars, LeftAlone, Carried, OnePlace, Passed
<1>3. ASSUME NEW r \in Replica, Reconcile(r) PROVE LeftAlone(spec)'
  <2>1. ~RemoveFinalizer(r)
    BY DEF RemoveFinalizer, LeftAlone, OnePlace
  <2>2. Carried(Lasting(spec))'
    BY <1>1, <1>3, <2>1, WorkerCarries, LastingClosed, ComputesLasting DEF LeftAlone
  <2> QED BY <1>3, <2>2, WorkerLeavesAlone DEF LeftAlone
<1>4. ASSUME \/ \E r \in Replica : Informer(r) \/ Timer(r) \/ BootReplica(r) \/ Crash(r)
             \/ CooldownElapses \/ StartAfterPasses \/ AWSMoves
             \/ \E id \in UpdateId : UpdateEnds(id)
      PROVE  LeftAlone(spec)'
  <2>1. Carried(Lasting(spec))'
    BY <1>4, SurroundingsCarry, LastingClosed DEF LeftAlone
  <2> QED BY <1>4, <2>1, SurroundingsLeaveAlone DEF LeftAlone
<1> QED
  BY <1>2, <1>3, <1>4 DEF Next

\* Once somebody has acted, it is not forgotten.
LEMMA EditsCount ==
  ASSUME IInv, [Next]_vars, edits' = 0
  PROVE  edits = 0 /\ ~SomebodyActs
<1>1. edits \in Nat /\ edits' \in Nat
  BY NextInv, EditAssumption DEF IInv, BudgetInv
<1>2. edits' = edits \/ edits' = edits + 1
  BY DEF Next, vars, SomebodyActs, Reconcile, Start, RemoveFinalizer, AddFinalizer,
     AddFinalizerUnanswered, FinalizerError, Paused, MalformedStartAfter, Skip, NotDue, Proceed,
     ClientsError, DescribeNodegroup, DescribeNodegroupError, DescribeCluster, DescribeClusterError,
     ResolveLatest, ResolveUnsupported, ResolveError, Poll, PollError, Assess, Initiate,
     InitiateUnanswered, InitiateRefused, Settle, WriteStatus, WriteUnanswered, WriteError, Stamp,
     StampError, Informer, Timer, BootReplica, Crash, CooldownElapses, StartAfterPasses,
     UpdateEnds, AWSMoves
<1>3. SomebodyActs => edits' = edits + 1
  BY DEF SomebodyActs
<1> QED
  BY <1>1, <1>2, <1>3

LEMMA InitLeftAlone ==
  ASSUME IInv, Init
  PROVE  \E spec \in PolicySpec : LeftAlone(spec)
<1>1. PICK spec \in Specs : store = Fresh(spec)
  BY DEF Init, PlaneInit
<1>2. spec \in PolicySpec /\ store \in Lasting(spec)
  BY <1>1, SpecsAssumption, FreshCopy DEF Lasting, Fresh, TruthfulCopy, MaybePolicy
<1>3. <<>> \in Seq(Lasting(spec))
  BY EmptySeq
<1>4. LeftAlone(spec)
  BY <1>2, <1>3 DEF Init, PlaneInit, LeftAlone, Carried, OnePlace, Passed, PastGuards
<1> QED
  BY <1>2, <1>4

LEMMA UndisturbedNext ==
  ASSUME IInv, Undisturbed, [Next]_vars
  PROVE  Undisturbed'
BY EditsCount, LeftAloneNext DEF Undisturbed

------------------------------------------------------------------------------
(***************************************************************************)
(* Nothing fails.  Then every pass works on the stored version: it starts  *)
(* when the informer has seen all, and nobody else writes.  (A spec whose  *)
(* startAfter is malformed is retried at once, informer or not, but never  *)
(* passes the guards.)                                                     *)
(***************************************************************************)

InStep(r) ==
  store.spec.startAfter # "malformed" =>
    /\ pc[r] # "idle" => current[r]
    /\ queued[r] => watch[r] = <<>>
    /\ wait[r] # "soon"

\* A failure is counted.
LEMMA NoFailure ==
  ASSUME IInv, faults' = faults
  PROVE  \A kind : ~Fail(kind)
<1>1. faults \in Nat
  BY FaultAssumption DEF IInv, BudgetInv
<1> QED
  BY <1>1 DEF Fail

\* The steps of a worker that nothing fails.
LEMMA CalmSteps ==
  ASSUME IInv, NEW spec, LeftAlone(spec), NEW r \in Replica, Reconcile(r), faults' = faults
  PROVE  \/ Start(r) \/ AddFinalizer(r) \/ Paused(r) \/ MalformedStartAfter(r) \/ Skip(r)
         \/ NotDue(r) \/ Proceed(r) \/ DescribeNodegroup(r) \/ DescribeCluster(r)
         \/ ResolveLatest(r) \/ ResolveUnsupported(r) \/ Poll(r) \/ Assess(r) \/ Initiate(r)
         \/ InitiateRefused(r) \/ WriteStatus(r) \/ Stamp(r)
         \/ ~current[r] /\ (FinalizerError(r) \/ WriteError(r) \/ StampError(r))
<1>1. \A kind : ~Fail(kind)
  BY NoFailure
<1>2. pc[r] # "removeFinalizer"
  BY DEF LeftAlone, OnePlace
<1> QED
  BY <1>1, <1>2
     DEF Reconcile, RemoveFinalizer, AddFinalizerUnanswered, ClientsError, DescribeNodegroupError,
         DescribeClusterError, ResolveError, PollError, InitiateUnanswered, WriteUnanswered,
         FinalizerError, WriteError, StampError

\* The spec that every copy has.
LEMMA StoredSpec ==
  ASSUME NEW spec, LeftAlone(spec)
  PROVE  /\ store \in Policy /\ store # NoPolicy /\ store.spec = spec
         /\ \A r \in Replica : pc[r] # "idle" => obj[r] \in Policy /\ obj[r].spec = spec
BY NoPolicyAssumption DEF LeftAlone, Carried, Lasting

\* A worker past the guards works on the stored version, with its status.
LEMMA OnStored ==
  ASSUME LifeInv, NEW spec, LeftAlone(spec), NEW r \in Replica, InStep(r),
         pc[r] \in PastGuards \/ (pc[r] = "guards" /\ PassesGuards(obj[r]))
  PROVE  /\ current[r]
         /\ pc[r] \in Reading => obj[r].status = store.status
<1>1. spec.startAfter # "malformed"
  BY StoredSpec DEF PassesGuards, LeftAlone, Passed
<1>2. current[r]
  BY <1>1, StoredSpec DEF InStep, PastGuards
<1> QED
  BY <1>2 DEF LifeInv, BasedOnStore

\* A worker returns.
LEMMA ReturnInStep ==
  ASSUME IInv, NEW spec, LeftAlone(spec), NEW r \in Replica, pc[r] # "idle", Forget(r),
         NEW delay \in {"none", "poll", "schedule"}, Requeue(r, delay), UNCHANGED queued
  PROVE  InStep(r)'
<1>1. wait[r] = "none" /\ ~queued[r]
  BY DEF LeftAlone, OnePlace
<1>2. wait'[r] = delay
  BY <1>1 DEF Requeue, Earliest, Due, IInv, PlaneInv
<1>3. pc'[r] = "idle" /\ ~queued'[r]
  BY <1>1 DEF Forget, Goto, IInv, ProcInv
<1> QED
  BY <1>2, <1>3 DEF InStep

\* A worker goes on with the stored version.
LEMMA GoesOnInStep ==
  ASSUME NEW spec, LeftAlone(spec), LeftAlone(spec)', NEW r \in Replica, InStep(r), pc[r] # "idle",
         UNCHANGED <<queued, wait>>, current[r] => current'[r]
  PROVE  InStep(r)'
<1>1. ~queued[r]
  BY DEF LeftAlone, OnePlace
<1>2. store.spec = spec /\ store'.spec = spec
  BY DEF LeftAlone, Carried, Lasting
<1> QED
  BY <1>1, <1>2 DEF InStep

LEMMA WorkerInStep ==
  ASSUME IInv, NEW spec, LeftAlone(spec), LeftAlone(spec)', NEW r \in Replica, InStep(r),
         Reconcile(r), faults' = faults
  PROVE  InStep(r)'
<1>1. store.spec = spec /\ store'.spec = spec /\ (pc[r] # "idle" => obj[r].spec = spec)
  BY DEF LeftAlone, Carried, Lasting
<1>2. CASE Start(r)
  <2>1. /\ queued[r] /\ UNCHANGED <<wait, watch>> /\ pc[r] = "idle"
        /\ queued' = [queued EXCEPT ![r] = FALSE]
        /\ \/ UNCHANGED <<pc, current>>
           \/ current' = [current EXCEPT ![r] = watch[r] = <<>>]
    BY <1>2 DEF Start
  <2> QED BY <1>1, <2>1 DEF InStep, IInv, PlaneInv
<1>3. CASE AddFinalizer(r)
  <2>1. pc[r] # "idle" /\ UNCHANGED <<queued, wait>> /\ current'[r]
    BY <1>3 DEF AddFinalizer, Publish
  <2> QED BY <2>1, GoesOnInStep
<1>4. CASE Paused(r) \/ Skip(r)
  <2>1. pc[r] # "idle" /\ \E delay \in {"none", "schedule"} : Return(r, delay)
    BY <1>4 DEF Paused, Skip
  <2> QED BY <2>1, ReturnInStep DEF Return
<1>5. CASE MalformedStartAfter(r)
  BY <1>1, <1>5 DEF MalformedStartAfter, InStep
<1>6. CASE \/ NotDue(r) \/ Proceed(r) \/ DescribeNodegroup(r) \/ DescribeCluster(r)
           \/ ResolveLatest(r) \/ ResolveUnsupported(r) \/ Poll(r) \/ Assess(r) \/ Initiate(r)
           \/ InitiateRefused(r)
  <2>1. pc[r] # "idle" /\ UNCHANGED <<queued, wait, current>>
    BY <1>6 DEF NotDue, Proceed, DescribeNodegroup, DescribeCluster, ResolveLatest,
                ResolveUnsupported, Poll, Assess, Initiate, InitiateRefused, Upgrades, Settle, planeVars
  <2> QED BY <2>1, GoesOnInStep
<1>7. CASE WriteStatus(r)
  <2>1. CASE InFlight(obj[r].status)
    <3>1. pc[r] # "idle" /\ Forget(r) /\ Requeue(r, "poll") /\ UNCHANGED queued
      BY <1>7, <2>1 DEF WriteStatus
    <3> QED BY <3>1, ReturnInStep
  <2>2. CASE ~InFlight(obj[r].status)
    <3>1. pc[r] # "idle" /\ UNCHANGED <<queued, wait>> /\ current'[r]
      BY <1>7, <2>2 DEF WriteStatus, Publish
    <3> QED BY <3>1, GoesOnInStep
  <2> QED BY <2>1, <2>2
<1>8. CASE Stamp(r)
  <2>1. pc[r] # "idle" /\ Forget(r) /\ Requeue(r, "schedule") /\ UNCHANGED queued
    BY <1>8 DEF Stamp
  <2> QED BY <2>1, ReturnInStep
<1>9. CASE ~current[r] /\ (FinalizerError(r) \/ WriteError(r) \/ StampError(r))
  <2>1. pc[r] # "idle"
    BY <1>9 DEF FinalizerError, WriteError, StampError
  <2> QED BY <1>1, <1>9, <2>1 DEF InStep
<1> QED
  BY <1>2, <1>3, <1>4, <1>5, <1>6, <1>7, <1>8, <1>9, CalmSteps

\* Everything around the worker keeps it in step: the poll and the schedule
\* come when the informer has seen all.
LEMMA SurroundingsInStep ==
  ASSUME PromptInformer, IInv, NEW spec, LeftAlone(spec), LeftAlone(spec)',
         NEW r \in Replica, InStep(r),
         \/ Informer(r) \/ Timer(r) \/ BootReplica(r)
         \/ CooldownElapses \/ StartAfterPasses \/ AWSMoves
         \/ (\E id \in UpdateId : UpdateEnds(id)) \/ UNCHANGED vars
  PROVE  InStep(r)'
<1>1. store.spec = spec /\ store'.spec = spec
  BY DEF LeftAlone, Carried, Lasting
<1>2. CASE Informer(r)
  <2>1. /\ active[r] /\ watch[r] # <<>> /\ UNCHANGED <<wait, pc, current>>
        /\ queued' = [queued EXCEPT ![r] = queued[r] \/ Accepts(cache[r], Head(watch[r]))]
    BY <1>2 DEF Informer, Deliver, procVars
  <2>2. Head(watch[r]) \in Lasting(spec) /\ cache[r] \in Lasting(spec)
    BY <2>1, TailSeq DEF LeftAlone, Carried
  <2>3. ~Accepts(cache[r], Head(watch[r]))
    BY <2>2, NoPolicyAssumption DEF Lasting, Accepts, Policy
  <2> QED BY <1>1, <2>1, <2>3 DEF InStep, IInv, PlaneInv
<1>3. CASE Timer(r)
  BY <1>1, <1>3 DEF Timer, Fire, procVars, InStep, IInv, PlaneInv
<1>4. CASE BootReplica(r)
  <2>1. ~active[r] /\ pc[r] = "idle" /\ watch[r] = <<>> /\ UNCHANGED <<pc, watch, wait>>
    BY <1>4 DEF BootReplica, Boot, procVars, IInv, Working, InSync
  <2> QED BY <1>1, <2>1 DEF InStep
<1>5. CASE CooldownElapses
  <2>1. UNCHANGED <<pc, current, queued, wait>>
    BY <1>5 DEF CooldownElapses
  <2>2. watch[r] = <<>> => watch'[r] = <<>>
    <3>1. watch'[r] = [i \in DOMAIN watch[r] |-> AgedPolicy(watch[r][i])]
      BY <1>5 DEF CooldownElapses
    <3> QED BY <3>1, EmptySeq
  <2> QED BY <1>1, <2>1, <2>2 DEF InStep
<1>6. CASE StartAfterPasses \/ AWSMoves \/ (\E id \in UpdateId : UpdateEnds(id)) \/ UNCHANGED vars
  BY <1>1, <1>6 DEF StartAfterPasses, AWSMoves, UpdateEnds, vars, planeVars, procVars, InStep
<1> QED
  BY <1>2, <1>3, <1>4, <1>5, <1>6

------------------------------------------------------------------------------
(***************************************************************************)
(* The update that runs is remembered: in the stored status, or, from the  *)
(* call that started it to the write, in the worker's copy.                *)
(***************************************************************************)

Running(id) == updates[id].status = "InProgress" /\ updates[id].owner = "operator"

Memory(r) == IF pc[r] = "write" THEN obj[r].status ELSE store.status

Remembers(r) ==
  \A id \in UpdateId :
    Running(id) => pc[r] # "stamp" /\ InFlight(Memory(r)) /\ Memory(r).updateID = id

LEMMA KeepsRemembering ==
  ASSUME NEW r \in Replica, Remembers(r), \A id \in UpdateId : Running(id)' => Running(id),
         InFlight(Memory(r)) =>
           pc'[r] # "stamp" /\ InFlight(Memory(r))' /\ Memory(r)'.updateID = Memory(r).updateID
  PROVE  Remembers(r)'
BY DEF Remembers

\* Nothing runs that the worker would have to remember.
LEMMA NothingRuns ==
  ASSUME NEW r \in Replica, Remembers(r), ~InFlight(Memory(r)) \/ pc[r] = "stamp"
  PROVE  \A id \in UpdateId : ~Running(id)
BY DEF Remembers

\* DescribeUpdate of an update that still runs changes nothing of what is remembered.
LEMMA PollRemembers ==
  ASSUME IInv, NEW r \in Replica, Remembers(r), Poll(r), obj[r].status = store.status
  PROVE  Remembers(r)'
<1> DEFINE status == obj[r].status
<1>1. /\ pc[r] = "process" /\ InFlight(status) /\ UNCHANGED updates
      /\ Settle(r, TrackInFlightUpdate(Begun(r), updates[status.updateID].status))
  BY DEF Poll, eksVars
<1>2. obj[r] \in Policy /\ status \in Status
  BY <1>1, WorkersCopy
<1>3. /\ pc'[r] = "write"
      /\ obj'[r].status = TrackInFlightUpdate(Begun(r), updates[status.updateID].status)
  BY <1>1, <1>2 DEF Settle, Goto, IInv, ProcInv, Policy
<1>4. ASSUME NEW id \in UpdateId, Running(id)'
      PROVE  pc'[r] # "stamp" /\ InFlight(Memory(r))' /\ Memory(r)'.updateID = id
  <2>1. Running(id) /\ status.updateID = id
    BY <1>1, <1>4 DEF Running, Remembers, Memory
  <2>2. Memory(r)' = TrackInFlightUpdate(Begun(r), "InProgress")
    <3>1. updates[status.updateID].status = "InProgress"
      BY <2>1 DEF Running
    <3>2. Memory(r)' = obj'[r].status
      BY <1>3 DEF Memory
    <3> QED BY <1>3, <3>1, <3>2
  <2>3. Begun(r).upgradeStatus = "InProgress" /\ Begun(r).updateID = id /\ Begun(r) \in Status
    BY <1>1, <1>2, <2>1 DEF Begun, BeginProcess, InFlight, Status, IInv, ProcInv
  <2>4. id # NoUpdate
    BY UpdateAssumption DEF UpdateId, NoUpdate
  <2>5. Memory(r)'.upgradeStatus = "InProgress" /\ Memory(r)'.updateID = id
    BY <2>2, <2>3 DEF TrackInFlightUpdate, Status
  <2> QED BY <1>3, <2>4, <2>5 DEF InFlight
<1> QED
  BY <1>4 DEF Remembers

\* EKS runs one update at a time: the one just started is the only one.
LEMMA InitiateRemembers ==
  ASSUME IInv, NEW r \in Replica, Initiate(r)
  PROVE  Remembers(r)'
<1>1. PICK id \in UpdateId : /\ StartUpdate(id, latestSeen[r], "operator")
                             /\ Settle(r, Initiated(Begun(r), id))
  BY DEF Initiate
<1>2. pc[r] = "process"
  BY DEF Initiate, Upgrades
<1>3. obj[r] \in Policy /\ obj[r].status \in Status
  BY <1>2, WorkersCopy
<1>4. pc'[r] = "write" /\ obj'[r].status = Initiated(Begun(r), id)
  BY <1>1, <1>2, <1>3 DEF Settle, Goto, IInv, ProcInv, Policy
<1>5. InFlight(Initiated(Begun(r), id)) /\ Initiated(Begun(r), id).updateID = id
  <2>1. id # NoUpdate
    BY UpdateAssumption DEF UpdateId, NoUpdate
  <2>2. /\ Initiated(Begun(r), id).upgradeStatus = "InProgress"
        /\ Initiated(Begun(r), id).updateID = id
    BY <1>3 DEF Begun, BeginProcess, Initiated, Status
  <2> QED BY <2>1, <2>2 DEF InFlight
<1>6. \A other \in UpdateId : Running(other)' => other = id
  BY <1>1 DEF StartUpdate, Busy, Running, IInv, EKSInv, EKSTypeOK
<1> QED
  BY <1>4, <1>5, <1>6 DEF Remembers, Memory, InFlight

LEMMA WorkerRemembers ==
  ASSUME IInv, LifeInv, NEW spec, LeftAlone(spec), NEW r \in Replica, InStep(r), Remembers(r),
         Reconcile(r), faults' = faults, ~AL2Unsupported(AmiType, minorSeen[r])
  PROVE  Remembers(r)'
<1>1. CASE Start(r)
  <2>1. UNCHANGED <<store, updates>> /\ pc[r] # "write" /\ pc'[r] \notin {"write", "stamp"}
    BY <1>1 DEF Start, Goto, AfterGet, eksVars, IInv, ProcInv
  <2> QED BY <2>1, KeepsRemembering DEF Memory, Running
<1>2. CASE \/ Paused(r) \/ MalformedStartAfter(r) \/ Skip(r) \/ FinalizerError(r)
           \/ Proceed(r) \/ DescribeNodegroup(r) \/ DescribeCluster(r) \/ ResolveLatest(r)
  <2>1. UNCHANGED <<store, updates>> /\ pc[r] \notin {"write", "stamp"}
    BY <1>2 DEF Paused, MalformedStartAfter, Skip, FinalizerError, Return, LetGo, Proceed,
                DescribeNodegroup, DescribeCluster, ResolveLatest, planeVars, eksVars
  <2>2. pc'[r] \notin {"write", "stamp"}
    BY <1>2 DEF Paused, MalformedStartAfter, Skip, FinalizerError, Return, Forget, Goto, Proceed,
                DescribeNodegroup, DescribeCluster, ResolveLatest, IInv, ProcInv
  <2> QED BY <2>1, <2>2, KeepsRemembering DEF Memory, Running
<1>3. CASE AddFinalizer(r)
  <2>1. /\ UNCHANGED updates /\ pc[r] = "addFinalizer" /\ pc'[r] = "guards"
        /\ store' = [store EXCEPT !.finalizer = TRUE]
    BY <1>3 DEF AddFinalizer, Publish, Goto, eksVars, IInv, ProcInv
  <2>2. store'.status = store.status
    BY <2>1, StoredSpec DEF Policy
  <2> QED BY <2>1, <2>2, KeepsRemembering DEF Memory, Running
<1>4. CASE NotDue(r) \/ Assess(r) \/ InitiateRefused(r)
  <2>1. /\ UNCHANGED updates /\ ~InFlight(obj[r].status)
        /\ pc[r] = "process" \/ (pc[r] = "guards" /\ PassesGuards(obj[r]))
    BY <1>4 DEF NotDue, Assess, InitiateRefused, Upgrades, eksVars
  <2>2. Memory(r) = obj[r].status
    BY <2>1, OnStored DEF PastGuards, Reading, Memory
  <2>3. \A id \in UpdateId : ~Running(id)
    BY <2>1, <2>2, NothingRuns
  <2> QED BY <2>1, <2>3 DEF Remembers, Running
<1>5. CASE Poll(r)
  <2>1. pc[r] = "process"
    BY <1>5 DEF Poll
  <2>2. obj[r].status = store.status
    BY <2>1, OnStored DEF PastGuards, Reading
  <2> QED BY <1>5, <2>2, PollRemembers
<1>6. CASE Initiate(r)
  BY <1>6, InitiateRemembers
<1>7. CASE WriteStatus(r)
  <2>1. /\ pc[r] = "write" /\ UNCHANGED updates
        /\ store' = [store EXCEPT !.status = obj[r].status]
    BY <1>7 DEF WriteStatus, Publish, eksVars
  <2>2. Memory(r) = obj[r].status /\ store'.status = obj[r].status
    BY <2>1, StoredSpec DEF Memory, Policy
  <2>3. CASE InFlight(obj[r].status)
    <3>1. pc'[r] = "idle"
      BY <1>7, <2>3 DEF WriteStatus, Forget, Goto, IInv, ProcInv
    <3> QED BY <2>1, <2>2, <2>3, <3>1, KeepsRemembering DEF Memory, Running
  <2>4. CASE ~InFlight(obj[r].status)
    BY <2>1, <2>2, <2>4, NothingRuns DEF Remembers, Running
  <2> QED BY <2>3, <2>4
<1>8. CASE Stamp(r)
  <2>1. pc[r] = "stamp" /\ UNCHANGED updates
    BY <1>8 DEF Stamp, eksVars
  <2> QED BY <2>1, NothingRuns DEF Remembers, Running
<1>9. ~ResolveUnsupported(r)
  BY DEF ResolveUnsupported
<1>10. ~(~current[r] /\ (WriteError(r) \/ StampError(r)))
  BY OnStored DEF WriteError, StampError, PastGuards
<1> QED
  BY <1>1, <1>2, <1>3, <1>4, <1>5, <1>6, <1>7, <1>8, <1>9, <1>10, CalmSteps

\* A cooldown that ends changes neither the id nor what is in flight.
LEMMA AgedMemory ==
  ASSUME IInv, NEW spec, LeftAlone(spec), NEW r \in Replica, CooldownElapses
  PROVE  /\ UNCHANGED <<updates, pc>>
         /\ InFlight(Memory(r))' = InFlight(Memory(r))
         /\ Memory(r)'.updateID = Memory(r).updateID
<1>1. UNCHANGED <<updates, pc>> /\ store' = AgedPolicy(store) /\ obj'[r] = AgedPolicy(obj[r])
  BY DEF CooldownElapses, eksVars
<1>2. store \in Policy /\ store # NoPolicy
  BY StoredSpec
<1>3. store'.status = Aged(store.status) /\ store.status \in Status
  BY <1>1, <1>2, AgedStatus DEF MaybePolicy
<1>4. pc[r] # "idle" => obj'[r].status = Aged(obj[r].status) /\ obj[r].status \in Status
  BY <1>1, AgedStatus, WorkersCopy, NoPolicyAssumption DEF MaybePolicy
<1>5. \A status \in Status : Aged(status).upgradeStatus = status.upgradeStatus
                             /\ Aged(status).updateID = status.updateID
  BY DEF Aged, Status
<1> QED
  BY <1>1, <1>3, <1>4, <1>5 DEF Memory, InFlight

LEMMA SurroundingsRemember ==
  ASSUME IInv, NEW spec, LeftAlone(spec), NEW r \in Replica, Remembers(r),
         \/ Informer(r) \/ Timer(r) \/ BootReplica(r)
         \/ CooldownElapses \/ StartAfterPasses \/ AWSMoves
         \/ (\E id \in UpdateId : UpdateEnds(id)) \/ UNCHANGED vars
  PROVE  Remembers(r)'
<1>1. CASE CooldownElapses
  BY <1>1, AgedMemory, KeepsRemembering DEF Running, Remembers
<1>2. CASE \/ Informer(r) \/ Timer(r) \/ BootReplica(r) \/ StartAfterPasses \/ AWSMoves
           \/ UNCHANGED vars
  <2>1. UNCHANGED <<store, updates, pc, obj>>
    BY <1>2 DEF Informer, Deliver, Timer, Fire, BootReplica, Boot, StartAfterPasses, AWSMoves,
                NewRelease, UpgradeCluster, vars, planeVars, procVars, eksVars
  <2> QED BY <2>1 DEF Remembers, Memory, Running
<1>3. ASSUME NEW id \in UpdateId, UpdateEnds(id)
      PROVE  Remembers(r)'
  <2>1. UNCHANGED <<store, pc, obj>>
    BY <1>3 DEF UpdateEnds, planeVars, procVars
  <2>2. \A other \in UpdateId : Running(other)' => Running(other)
    BY <1>3 DEF UpdateEnds, CompleteUpdate, Outcome, Running, IInv, EKSInv, EKSTypeOK, Update
  <2> QED BY <2>1, <2>2 DEF Remembers, Memory
<1> QED
  BY <1>1, <1>2, <1>3

------------------------------------------------------------------------------
(***************************************************************************)
(* The last attempt is remembered as long as it is recent: a worker of an  *)
(* interval schedule passes the cooldown when there was none.              *)
(***************************************************************************)

Rested(r) ==
  /\ attempts <= 1
  /\ attempts = 1 =>
       /\ pc[r] \notin {"nodegroup", "cluster", "resolve", "process"}
       /\ Memory(r).lastUpgradeAttempt = "recent"
       /\ pc[r] = "stamp" => obj[r].status.lastUpgradeAttempt = "recent"

\* Whether EKS starts the update or refuses it, the attempt is remembered.
LEMMA UpgradesRested ==
  ASSUME IInv, NEW r \in Replica, Rested(r), Initiate(r) \/ InitiateRefused(r)
  PROVE  Rested(r)'
<1>1. /\ pc[r] = "process"
      /\ attempts' = IF attempts = 2 THEN 2 ELSE attempts + 1
      /\ \E status : /\ status.lastUpgradeAttempt = "recent"
                     /\ Settle(r, status)
  <2>1. pc[r] = "process" /\ attempts' = IF attempts = 2 THEN 2 ELSE attempts + 1
    BY DEF Initiate, InitiateRefused, Upgrades
  <2>2. obj[r].status \in Status
    BY <2>1, WorkersCopy
  <2>3. /\ InitiationFailed(Begun(r)).lastUpgradeAttempt = "recent"
        /\ \A id : Initiated(Begun(r), id).lastUpgradeAttempt = "recent"
    BY <2>2 DEF Begun, BeginProcess, InitiationFailed, Initiated, Status
  <2> QED BY <2>1, <2>3 DEF Initiate, InitiateRefused
<1>2. obj[r] \in Policy
  BY <1>1, WorkersCopy
<1>3. pc'[r] = "write" /\ obj'[r].status.lastUpgradeAttempt = "recent"
  BY <1>1, <1>2 DEF Settle, Goto, IInv, ProcInv, Policy
<1>4. attempts \in 0..2 /\ attempts' <= 1
  BY <1>1 DEF Rested, IInv, BudgetInv
<1> QED
  BY <1>3, <1>4 DEF Rested, Memory

LEMMA WorkerRested ==
  ASSUME IInv, LifeInv, NEW spec, LeftAlone(spec), ~spec.cron, NEW r \in Replica, InStep(r),
         Rested(r), Reconcile(r), faults' = faults
  PROVE  Rested(r)'
<1>1. CASE Start(r)
  <2>1. /\ UNCHANGED <<store, attempts>> /\ pc[r] # "write"
        /\ pc'[r] \in {"idle", "guards", "addFinalizer", "removeFinalizer"}
    BY <1>1 DEF Start, Goto, AfterGet, clockVars, IInv, ProcInv
  <2> QED BY <2>1 DEF Rested, Memory
<1>2. CASE Paused(r) \/ MalformedStartAfter(r) \/ Skip(r) \/ FinalizerError(r)
  <2>1. UNCHANGED <<store, attempts>> /\ pc[r] # "write" /\ pc'[r] = "idle"
    BY <1>2 DEF Paused, MalformedStartAfter, Skip, FinalizerError, Return, LetGo, Forget, Goto,
                clockVars, IInv, ProcInv
  <2> QED BY <2>1 DEF Rested, Memory
<1>3. CASE AddFinalizer(r)
  <2>1. /\ UNCHANGED attempts /\ pc[r] = "addFinalizer" /\ pc'[r] = "guards"
        /\ store' = [store EXCEPT !.finalizer = TRUE]
    BY <1>3 DEF AddFinalizer, Publish, Goto, clockVars, IInv, ProcInv
  <2>2. store'.status = store.status
    BY <2>1, StoredSpec DEF Policy
  <2> QED BY <2>1, <2>2 DEF Rested, Memory
<1>4. CASE NotDue(r) \/ Proceed(r)
  <2>1. UNCHANGED attempts /\ pc[r] = "guards" /\ PassesGuards(obj[r])
    BY <1>4 DEF NotDue, Proceed, clockVars
  <2>2. obj[r].status = store.status /\ obj[r].spec = spec
    BY <2>1, OnStored, StoredSpec DEF Reading
  <2>3. attempts # 1
    BY <2>1, <2>2 DEF PassesGuards, CoolingDown, Rested, Memory
  <2> QED BY <2>1, <2>3 DEF Rested
<1>5. CASE \/ DescribeNodegroup(r) \/ DescribeCluster(r) \/ ResolveLatest(r)
           \/ ResolveUnsupported(r) \/ Poll(r) \/ Assess(r)
  <2>1. UNCHANGED attempts /\ pc[r] \in {"nodegroup", "cluster", "resolve", "process"}
    BY <1>5 DEF DescribeNodegroup, DescribeCluster, ResolveLatest, ResolveUnsupported, Poll,
                Assess, clockVars
  <2> QED BY <2>1 DEF Rested
<1>6. CASE Initiate(r) \/ InitiateRefused(r)
  BY <1>6, UpgradesRested
<1>7. CASE WriteStatus(r) \/ Stamp(r)
  <2>1. /\ pc[r] \in {"write", "stamp"} /\ UNCHANGED attempts
        /\ store' = [store EXCEPT !.status = obj[r].status]
    BY <1>7 DEF WriteStatus, Stamp, Publish, clockVars
  <2>2. store'.status = obj[r].status
    BY <2>1, StoredSpec DEF Policy
  <2>3. pc'[r] = "idle" \/ (pc'[r] = "stamp" /\ UNCHANGED obj)
    BY <1>7 DEF WriteStatus, Stamp, Forget, Goto, IInv, ProcInv
  <2>4. pc[r] = "write" => Memory(r) = obj[r].status
    BY DEF Memory
  <2> QED BY <2>1, <2>2, <2>3, <2>4 DEF Rested, Memory
<1>8. ~(~current[r] /\ (WriteError(r) \/ StampError(r)))
  BY OnStored DEF WriteError, StampError, PastGuards
<1> QED
  BY <1>1, <1>2, <1>3, <1>4, <1>5, <1>6, <1>7, <1>8, CalmSteps

LEMMA SurroundingsRested ==
  ASSUME NEW r \in Replica, Rested(r),
         \/ Informer(r) \/ Timer(r) \/ BootReplica(r)
         \/ CooldownElapses \/ StartAfterPasses \/ AWSMoves
         \/ (\E id \in UpdateId : UpdateEnds(id)) \/ UNCHANGED vars
  PROVE  Rested(r)'
<1>1. CASE CooldownElapses
  BY <1>1 DEF CooldownElapses, Rested
<1>2. CASE ~CooldownElapses
  <2>1. UNCHANGED <<store, attempts, pc, obj>>
    BY <1>2 DEF Informer, Deliver, Timer, Fire, BootReplica, Boot, StartAfterPasses, AWSMoves,
                UpdateEnds, vars, planeVars, procVars, clockVars
  <2> QED BY <2>1 DEF Rested, Memory
<1> QED
  BY <1>1, <1>2

------------------------------------------------------------------------------
(***************************************************************************)
(* What one replica remembers while nothing fails and nobody interferes.   *)
(***************************************************************************)

TrackInv ==
  /\ Replica # {}
  /\ edits = 0 /\ faults = 0 =>
       \A r \in Replica :
         /\ InStep(r)
         /\ ~AL2Unsupported(AmiType, minor) => Remembers(r)
         /\ ~store.spec.cron => Rested(r)

\* Once something has failed, it is not forgotten.
LEMMA FaultsCount ==
  ASSUME IInv, [Next]_vars, faults' = 0
  PROVE  faults = 0 /\ \A kind : ~Fail(kind)
<1>1. faults \in Nat /\ faults' \in Nat
  BY NextInv, FaultAssumption DEF IInv, BudgetInv
<1>2. faults' = faults \/ faults' = faults + 1
  BY DEF Next, vars, SomebodyActs, Reconcile, Start, RemoveFinalizer, AddFinalizer,
     AddFinalizerUnanswered, FinalizerError, Paused, MalformedStartAfter, Skip, NotDue, Proceed,
     ClientsError, DescribeNodegroup, DescribeNodegroupError, DescribeCluster, DescribeClusterError,
     ResolveLatest, ResolveUnsupported, ResolveError, Poll, PollError, Assess, Initiate,
     InitiateUnanswered, InitiateRefused, Settle, WriteStatus, WriteUnanswered, WriteError, Stamp,
     StampError, Informer, Timer, BootReplica, Crash, CooldownElapses, StartAfterPasses,
     UpdateEnds, AWSMoves, Fail
<1> QED
  BY <1>1, <1>2 DEF Fail

\* A cluster whose minor has an AL2 AMI had one before, as the worker saw it.
LEMMA SupportedBefore ==
  ASSUME IInv, ConditionsInv, [Next]_vars, ~AL2Unsupported(AmiType, minor)'
  PROVE  /\ ~AL2Unsupported(AmiType, minor)
         /\ \A r \in Replica : ~AL2Unsupported(AmiType, minorSeen[r])
<1>1. (\A r \in Replica : minorSeen[r] <= minor) /\ minor <= minor'
  BY MinorSeenNext DEF ConditionsInv
<1>2. (\A r \in Replica : minorSeen[r] \in Int) /\ minor \in Int /\ minor' \in Int
  BY NextInv, MinorAssumption DEF IInv, ProcInv, EKSInv, EKSTypeOK, Minor
<1> QED
  BY <1>1, <1>2 DEF AL2Unsupported, AL2UnsupportedMinorCutoff

LEMMA InitTrack ==
  ASSUME IInv, Init
  PROVE  TrackInv
<1>1. \A r \in Replica : InStep(r)
  BY DEF Init, PlaneInit, InStep
<1>2. \A r \in Replica : Remembers(r)
  BY DEF Init, EKSInit, NotIssued, Running, Remembers
<1>3. \A r \in Replica : Rested(r)
  BY DEF Init, Rested
<1>4. Replica # {}
  BY DEF Init, PlaneInit
<1> QED
  BY <1>1, <1>2, <1>3, <1>4 DEF TrackInv

LEMMA NextTrack ==
  ASSUME OneReplica, PromptInformer, IInv, LifeInv, ConditionsInv, Undisturbed, TrackInv,
         [Next]_vars
  PROVE  TrackInv'
<1> SUFFICES ASSUME edits' = 0, faults' = 0, NEW r \in Replica
             PROVE  /\ InStep(r)'
                    /\ ~AL2Unsupported(AmiType, minor)' => Remembers(r)'
                    /\ ~store'.spec.cron => Rested(r)'
  BY DEF TrackInv
<1>1. edits = 0 /\ ~SomebodyActs /\ faults = 0 /\ \A kind : ~Fail(kind)
  BY EditsCount, FaultsCount
<1>2. PICK spec \in PolicySpec : LeftAlone(spec)
  BY <1>1 DEF Undisturbed
<1>3. LeftAlone(spec)'
  BY <1>1, <1>2, LeftAloneNext
<1>4. store.spec = spec /\ store'.spec = spec
  BY <1>2, <1>3 DEF LeftAlone, Carried, Lasting
<1>5. ~AL2Unsupported(AmiType, minor)' =>
        ~AL2Unsupported(AmiType, minor) /\ ~AL2Unsupported(AmiType, minorSeen[r])
  BY SupportedBefore
<1>6. CASE Reconcile(r)
  BY <1>1, <1>2, <1>3, <1>4, <1>5, <1>6, WorkerInStep, WorkerRemembers, WorkerRested DEF TrackInv
<1>7. CASE \/ Informer(r) \/ Timer(r) \/ BootReplica(r)
           \/ CooldownElapses \/ StartAfterPasses \/ AWSMoves
           \/ (\E id \in UpdateId : UpdateEnds(id)) \/ UNCHANGED vars
  BY <1>1, <1>2, <1>3, <1>4, <1>5, <1>7, SurroundingsInStep, SurroundingsRemember,
     SurroundingsRested DEF TrackInv
<1>8. ~Crash(r)
  BY <1>1 DEF Crash
<1> QED
  BY <1>1, <1>6, <1>7, <1>8 DEF Next, OneReplica

LEMMA Tracking ==
  ASSUME OneReplica, PromptInformer
  PROVE  Spec => [](IInv /\ Undisturbed /\ TrackInv)
<1>1. Spec => []IInv
  BY Invariant
<1>2. IInv /\ Init => LifeInv /\ ConditionsInv /\ Undisturbed /\ TrackInv
  BY InitLife, ConditionsInit, InitLeftAlone, InitTrack DEF Undisturbed
<1>3. IInv /\ IInv' /\ LifeInv /\ [Next]_vars => LifeInv'
  BY NextLife DEF Implements
<1>4. IInv /\ ConditionsInv /\ [Next]_vars => ConditionsInv'
  BY ConditionsNext
<1>5. IInv /\ Undisturbed /\ [Next]_vars => Undisturbed'
  BY UndisturbedNext
<1>6. IInv /\ LifeInv /\ ConditionsInv /\ Undisturbed /\ TrackInv /\ [Next]_vars => TrackInv'
  BY NextTrack
<1> QED
  BY <1>1, <1>2, <1>3, <1>4, <1>5, <1>6, PTL DEF Spec

\* As long as nothing fails and nobody interferes, the one replica loses no
\* update it has started: at every moment, from the answer of
\* UpdateNodegroupVersion to the end of the update, the id is in the stored
\* status or in the copy about to be written.  (On AL2, as long as the cluster
\* has not passed the last minor with an AL2 AMI: from there on the resolve
\* error overwrites InProgress, and the update is never looked at again.)
THEOREM UpdatesTracked ==
  ASSUME OneReplica, PromptInformer
  PROVE  Spec => [](edits = 0 /\ ~AL2Unsupported(AmiType, minor) => NoOrphan)
<1>1. Undisturbed /\ TrackInv =>
        (edits = 0 /\ ~AL2Unsupported(AmiType, minor) => NoOrphan)
  <2> SUFFICES ASSUME Undisturbed, TrackInv, edits = 0, faults = 0,
                      ~AL2Unsupported(AmiType, minor), NEW id \in UpdateId, Running(id)
               PROVE  \/ store # NoPolicy /\ InFlight(store.status) /\ store.status.updateID = id
                      \/ \E r \in Replica : pc[r] = "write" /\ obj[r].status.updateID = id
    BY DEF NoOrphan, Running
  <2>1. store # NoPolicy
    BY StoredSpec DEF Undisturbed
  <2>2. PICK r \in Replica : TRUE
    BY DEF TrackInv
  <2>3. Remembers(r)
    BY <2>2 DEF TrackInv
  <2> QED BY <2>1, <2>3 DEF Remembers, Memory
<1> QED
  BY <1>1, Tracking, PTL

\* As long as nothing fails and nobody interferes, the one replica calls
\* UpdateNodegroupVersion at most once in six hours for a policy with an
\* interval schedule, whether EKS starts the update or refuses it.
THEOREM CooldownKept ==
  ASSUME OneReplica, PromptInformer
  PROVE  Spec => [](edits = 0 => CooldownRespected)
<1>1. IInv /\ Undisturbed /\ TrackInv => (edits = 0 => CooldownRespected)
  <2> SUFFICES ASSUME IInv, TrackInv, edits = 0, faults = 0, ~store.spec.cron
               PROVE  attempts < 2
    BY DEF CooldownRespected
  <2>1. PICK r \in Replica : TRUE
    BY DEF TrackInv
  <2>2. attempts <= 1
    BY <2>1 DEF TrackInv, Rested
  <2> QED BY <2>2 DEF IInv, BudgetInv
<1> QED
  BY <1>1, Tracking, PTL

------------------------------------------------------------------------------
(***************************************************************************)
(* Which passes give up polling, whatever fails, whoever edits and however *)
(* far the informer lags.  With NoLostWakeup a lapse is a timer set by the *)
(* schedule; a copy of another generation than the store's cannot be the   *)
(* reason, since an event or the queue then brings the key back.           *)
(***************************************************************************)

\* Only a pass whose copy has no update in flight gets to the stamps.
StampsRest == \A r \in Replica : pc[r] = "stamp" => ~InFlight(obj[r].status)

\* One worker moves, to label, with its copy or with a status computed from it.
LEMMA StampsMove ==
  ASSUME IInv, StampsRest, NEW r \in Replica, NEW label \in Label, Goto(r, label),
         \E copy : obj' = [obj EXCEPT ![r] = copy],
         label = "stamp" => ~InFlight(obj'[r].status)
  PROVE  StampsRest'
<1>1. pc'[r] = label /\ \A s \in Replica : s # r => pc'[s] = pc[s] /\ obj'[s] = obj[s]
  BY Moves DEF IInv, ProcInv
<1> QED
  BY <1>1 DEF StampsRest

\* Time and the surroundings leave the copies in flight or not.
LEMMA StampsSurroundings ==
  ASSUME IInv, StampsRest,
         UNCHANGED procVars \/ CooldownElapses \/ (\E r \in Replica : Crash(r))
  PROVE  StampsRest'
<1>1. CASE UNCHANGED procVars
  BY <1>1 DEF procVars, StampsRest
<1>2. CASE CooldownElapses
  <2> SUFFICES ASSUME NEW r \in Replica, pc[r] = "stamp"
               PROVE  InFlight(obj'[r].status) <=> InFlight(obj[r].status)
    BY <1>2 DEF CooldownElapses, StampsRest
  <2>1. obj[r] \in MaybePolicy /\ obj[r] # NoPolicy /\ obj'[r] = AgedPolicy(obj[r])
    BY <1>2 DEF CooldownElapses, IInv, ProcInv, Working, TruthfulCopy
  <2> QED BY <2>1, AgedStatus DEF Keeps, InFlight
<1>3. ASSUME NEW r \in Replica, Crash(r) PROVE StampsRest'
  <2>1. Goto(r, "idle") /\ obj' = [obj EXCEPT ![r] = NoPolicy]
    BY <1>3 DEF Crash, Forget
  <2> QED BY <2>1, StampsMove DEF Label
<1> QED
  BY <1>1, <1>2, <1>3

LEMMA StampsWorker ==
  ASSUME IInv, StampsRest, NEW r \in Replica, Reconcile(r)
  PROVE  StampsRest'
<1>1. CASE Start(r)
  <2>1. CASE UNCHANGED <<pc, obj, current>>
    BY <2>1 DEF StampsRest
  <2>2. CASE Goto(r, AfterGet(cache[r])) /\ obj' = [obj EXCEPT ![r] = cache[r]]
    <3>1. AfterGet(cache[r]) \in Label \ {"stamp"}
      BY DEF AfterGet, Label
    <3> QED BY <2>2, <3>1, StampsMove
  <2> QED BY <1>1, <2>1, <2>2 DEF Start
<1>2. ASSUME Forget(r) PROVE StampsRest'
  <2>1. Goto(r, "idle") /\ obj' = [obj EXCEPT ![r] = NoPolicy]
    BY <1>2 DEF Forget
  <2> QED BY <2>1, StampsMove DEF Label
<1>3. CASE \/ RemoveFinalizer(r) \/ AddFinalizerUnanswered(r) \/ FinalizerError(r) \/ Paused(r)
           \/ MalformedStartAfter(r) \/ Skip(r) \/ ClientsError(r) \/ DescribeNodegroupError(r)
           \/ DescribeClusterError(r) \/ ResolveError(r) \/ WriteUnanswered(r) \/ WriteError(r)
           \/ Stamp(r) \/ StampError(r)
  BY <1>2, <1>3 DEF RemoveFinalizer, AddFinalizerUnanswered, FinalizerError, Paused,
     MalformedStartAfter, Skip, ClientsError, DescribeNodegroupError, DescribeClusterError,
     ResolveError, WriteUnanswered, WriteError, Stamp, StampError, Return
<1>4. ASSUME UNCHANGED obj, NEW label \in Label, Goto(r, label),
             label = "stamp" => ~InFlight(obj[r].status)
      PROVE  StampsRest'
  <2>1. obj' = [obj EXCEPT ![r] = obj[r]]
    BY <1>4 DEF IInv, ProcInv
  <2> QED BY <1>4, <2>1, StampsMove
<1>5. CASE NotDue(r)
  BY <1>4, <1>5 DEF NotDue, Label
<1>6. CASE Proceed(r) \/ DescribeNodegroup(r) \/ DescribeCluster(r) \/ ResolveLatest(r)
  BY <1>4, <1>6 DEF Proceed, DescribeNodegroup, DescribeCluster, ResolveLatest, Label
<1>7. CASE AddFinalizer(r)
  <2>1. Goto(r, "guards") /\ obj' = [obj EXCEPT ![r] = [obj[r] EXCEPT !.finalizer = TRUE]]
    BY <1>7 DEF AddFinalizer, IInv, ProcInv
  <2> QED BY <2>1, StampsMove DEF Label
<1>8. CASE ResolveUnsupported(r)
  <2>1. /\ pc[r] = "resolve" /\ Goto(r, "stamp")
        /\ obj' = [obj EXCEPT ![r] = [obj[r] EXCEPT !.status = UnsupportedAMI(obj[r].status)]]
    BY <1>8 DEF ResolveUnsupported, IInv, ProcInv
  <2>2. obj'[r].status = UnsupportedAMI(obj[r].status)
    BY <2>1, WorkersCopy DEF Policy, IInv, ProcInv
  <2>3. ~InFlight(UnsupportedAMI(obj[r].status))
    BY <2>1, WorkersCopy DEF UnsupportedAMI, Status, InFlight
  <2> QED BY <2>1, <2>2, <2>3, StampsMove DEF Label
<1>9. CASE \/ Poll(r) \/ PollError(r) \/ Assess(r) \/ Initiate(r) \/ InitiateUnanswered(r)
           \/ InitiateRefused(r)
  <2>1. \E status : Settle(r, status)
    BY <1>9 DEF Poll, PollError, Assess, Initiate, InitiateUnanswered, InitiateRefused
  <2>2. Goto(r, "write") /\ \E copy : obj' = [obj EXCEPT ![r] = copy]
    BY <2>1 DEF Settle
  <2> QED BY <2>2, StampsMove DEF Label
<1>10. CASE WriteStatus(r)
  BY <1>2, <1>4, <1>10 DEF WriteStatus, Label
<1> QED
  BY <1>1, <1>3, <1>5, <1>6, <1>7, <1>8, <1>9, <1>10 DEF Reconcile

LEMMA StampsNext == IInv /\ StampsRest /\ [Next]_vars => StampsRest'
<1> SUFFICES ASSUME IInv, StampsRest, [Next]_vars PROVE StampsRest'
  OBVIOUS
<1>1. CASE UNCHANGED vars
  BY <1>1, StampsSurroundings DEF vars
<1>2. ASSUME NEW r \in Replica, Informer(r) \/ Timer(r) \/ BootReplica(r) PROVE StampsRest'
  BY <1>2, StampsSurroundings DEF Informer, Timer, BootReplica
<1>3. CASE StartAfterPasses \/ AWSMoves \/ SomebodyActs \/ \E id \in UpdateId : UpdateEnds(id)
  BY <1>3, StampsSurroundings DEF StartAfterPasses, AWSMoves, SomebodyActs, UpdateEnds
<1> QED
  BY <1>1, <1>2, <1>3, StampsWorker, StampsSurroundings DEF Next

------------------------------------------------------------------------------
\* A lapse, and its reasons.

Lapses(r) ==
  /\ active'[r] /\ pc'[r] = "idle" /\ ~queued'[r] /\ ~EventPending(r)'
  /\ store' # NoPolicy /\ ~store'.spec.paused /\ InFlight(store'.status)
  /\ wait'[r] = "schedule"

Excused(r) ==
  \/ pc[r] = "guards" /\ (WaitsForStart(obj[r].spec) \/ CoolingDown(obj[r]))
  \/ pc[r] = "resolve"
  \/ pc[r] \in {"nodegroup", "stamp"} /\ ~InFlight(obj[r].status)

\* What the delaying queue keeps of two requests.
LEMMA RequeueEarlier ==
  ASSUME IInv, NEW r \in Replica, NEW delay \in {"soon", "poll"}, Requeue(r, delay)
  PROVE  wait'[r] # "schedule"
BY DEF Requeue, Earliest, Due, Wait, IInv, PlaneInv

LEMMA WorkerLapses ==
  ASSUME IInv, WakeInv, StampsRest, NEW r \in Replica, Reconcile(r), Lapses(r)
  PROVE  Excused(r)
<1>1. CASE Start(r)
  <2>1. UNCHANGED <<store, active, cache, watch>> /\ pc[r] = "idle"
    BY <1>1 DEF Start
  <2>2. UNCHANGED <<pc, obj, current>> /\ (cache[r] = NoPolicy \/ AfterGet(cache[r]) = "idle")
    BY <1>1 DEF Start, Goto, Lapses, IInv, ProcInv
  <2>3. ~EventPending(r) /\ active[r] /\ NeedsWork(store)
    BY <2>1 DEF Lapses, EventPending, NeedsWork
  <2>4. NeedsWork(cache[r])
    BY <2>3, UpToDate, Generations
  <2>5. cache[r] \in Sound
    BY DEF WakeInv, SoundInv
  <2> QED BY <2>2, <2>4, <2>5 DEF NeedsWork, AfterGet, Sound
<1>2. CASE RemoveFinalizer(r)
  BY <1>2 DEF RemoveFinalizer, Publish, Lapses
<1>3. CASE \/ AddFinalizerUnanswered(r) \/ FinalizerError(r) \/ MalformedStartAfter(r)
           \/ ClientsError(r) \/ DescribeClusterError(r) \/ WriteUnanswered(r) \/ WriteError(r)
  <2>1. \E delay \in {"soon", "poll"} : Requeue(r, delay)
    BY <1>3 DEF AddFinalizerUnanswered, FinalizerError, MalformedStartAfter, ClientsError,
                DescribeClusterError, WriteUnanswered, WriteError, Return
  <2> QED BY <2>1, RequeueEarlier DEF Lapses
<1>4. CASE Paused(r)
  <2>1. /\ pc[r] = "guards" /\ obj[r].spec.paused /\ active[r]
        /\ UNCHANGED <<store, cache, watch, queued>>
    BY <1>4 DEF Paused, Return, LetGo, IInv, Working
  <2>2. ~EventPending(r) /\ ~queued[r]
    BY <2>1 DEF Lapses, EventPending
  <2>3. ~Accepts(obj[r], store) /\ obj[r] # NoPolicy /\ store # NoPolicy
    BY <2>1, <2>2, UpToDate DEF Lapses, IInv, Working
  <2> QED BY <2>1, <2>3 DEF Accepts, Lapses
<1>5. CASE Skip(r) \/ ResolveError(r)
  BY <1>5 DEF Skip, ResolveError, Excused
<1>6. CASE DescribeNodegroupError(r)
  <2>1. pc[r] = "nodegroup" /\ (InFlight(obj[r].status) => Requeue(r, "poll"))
    BY <1>6 DEF DescribeNodegroupError, Return
  <2> QED BY <2>1, RequeueEarlier DEF Lapses, Excused
<1>7. CASE \/ AddFinalizer(r) \/ NotDue(r) \/ Proceed(r) \/ DescribeNodegroup(r)
           \/ DescribeCluster(r) \/ ResolveLatest(r) \/ ResolveUnsupported(r)
           \/ Poll(r) \/ PollError(r) \/ Assess(r) \/ Initiate(r) \/ InitiateUnanswered(r)
           \/ InitiateRefused(r)
  <2>1. \E label \in Label \ {"idle"} : Goto(r, label)
    BY <1>7 DEF AddFinalizer, NotDue, Proceed, DescribeNodegroup, DescribeCluster, ResolveLatest,
                ResolveUnsupported, Poll, PollError, Assess, Initiate, InitiateUnanswered,
                InitiateRefused, Settle, Label
  <2> QED BY <2>1, Moves DEF Lapses
<1>8. CASE WriteStatus(r)
  <2>1. Requeue(r, "poll") \/ Goto(r, "stamp")
    BY <1>8 DEF WriteStatus
  <2> QED BY <2>1, Moves, RequeueEarlier DEF Lapses, Label
<1>9. CASE Stamp(r) \/ StampError(r)
  BY <1>9 DEF Stamp, StampError, StampsRest, Excused
<1> QED
  BY <1>1, <1>2, <1>3, <1>4, <1>5, <1>6, <1>7, <1>8, <1>9 DEF Reconcile

\* Nothing around the worker makes a lapse.
LEMMA SurroundingsLapse ==
  ASSUME IInv, IInv', WakeInv, NEW r \in Replica, Polls(r), Lapses(r),
         \/ Informer(r) \/ Timer(r) \/ BootReplica(r) \/ Crash(r) \/ CooldownElapses
         \/ UNCHANGED <<planeVars, procVars>>
  PROVE  FALSE
<1>1. CASE Informer(r)
  <2>1. /\ active[r] /\ watch[r] # <<>>
        /\ cache'[r] = Head(watch[r]) /\ watch'[r] = Tail(watch[r])
        /\ queued[r] \/ Accepts(cache[r], Head(watch[r])) => queued'[r]
        /\ UNCHANGED <<store, wait, pc>>
    BY <1>1 DEF Informer, Deliver, procVars, IInv, PlaneInv
  <2>2. EventPending(r)
    BY <2>1 DEF Polls, Lapses
  <2>3. watch[r] \in Seq(Sound) /\ LeadsTo(cache[r], watch[r], store)
    BY <2>1 DEF WakeInv, SoundInv, Told
  <2>4. Pending(cache[r], watch[r])
    BY <2>2, <2>3, PendingEvent DEF EventPending
  <2>5. Pending(Head(watch[r]), Tail(watch[r]))
    BY <2>1, <2>3, <2>4, TailLeadsTo DEF Lapses
  <2>6. EventPending(r)' <=> Pending(cache'[r], watch'[r])
    <3>1. Len(watch'[r]) \in Nat
      BY DEF IInv, PlaneInv
    <3> QED BY <3>1, PendingEvent DEF EventPending
  <2> QED BY <2>1, <2>5, <2>6 DEF Lapses
<1>2. CASE Timer(r)
  BY <1>2 DEF Timer, Fire, Lapses, IInv, PlaneInv
<1>3. CASE BootReplica(r)
  BY <1>3 DEF BootReplica, Boot, Lapses, IInv, PlaneInv
<1>4. CASE Crash(r)
  BY <1>4 DEF Crash, Halt, Lapses, IInv, PlaneInv
<1>5. CASE CooldownElapses
  <2>1. EventPending(r)' <=> EventPending(r)
    BY <1>5, CooldownWake
  <2>2. store \in MaybePolicy /\ store' = AgedPolicy(store) /\ UNCHANGED <<active, queued, wait, pc>>
    BY <1>5 DEF CooldownElapses, IInv, PlaneInv, TruthfulCopy
  <2>3. store # NoPolicy /\ store'.spec = store.spec /\ (InFlight(store'.status) => InFlight(store.status))
    BY <2>2, AgedGeneration, AgedStatus DEF Lapses, Keeps, InFlight
  <2> QED BY <2>1, <2>2, <2>3 DEF Polls, Lapses
<1>6. CASE UNCHANGED <<planeVars, procVars>>
  BY <1>6 DEF planeVars, procVars, Polls, Lapses, EventPending
<1> QED
  BY <1>1, <1>2, <1>3, <1>4, <1>5, <1>6

\* Nor does kubectl, whose edits are events that will be accepted.
LEMMA SomebodyLapse ==
  ASSUME IInv, IInv', WakeInv, NEW r \in Replica, Polls(r), Lapses(r), SomebodyActs
  PROVE  FALSE
<1>1. procVars' = procVars
  BY DEF SomebodyActs
<1>2. CASE UNCHANGED planeVars
  BY <1>1, <1>2, SurroundingsLapse
<1>3. ASSUME Accepts(store, store'), Publish(store', {}), UNCHANGED <<active, cache, eksVars>>
      PROVE  FALSE
  <2>1. store' \in TruthfulCopy(updates) /\ PlaneInv' /\ active[r]
    BY <1>3 DEF IInv, PlaneInv, Lapses, eksVars
  <2> QED BY <1>3, <2>1, Announced DEF Lapses
<1>4. store # NoPolicy => store \in Policy
  BY DEF IInv, PlaneInv, TruthfulCopy, MaybePolicy
<1>5. CASE Delete /\ UNCHANGED eksVars
  <2>1. CASE store.finalizer
    <3>1. store' = [store EXCEPT !.deleting = TRUE] /\ ~store.deleting /\ store # NoPolicy
      BY <1>5, <2>1 DEF Delete, Publish
    <3>2. store'.deleting
      BY <1>4, <3>1 DEF Policy
    <3>3. Accepts(store, store')
      BY <3>1, <3>2 DEF Accepts
    <3> QED BY <1>3, <1>5, <2>1, <3>1, <3>3 DEF Delete
  <2>2. CASE ~store.finalizer
    BY <1>5, <2>2 DEF Delete, Publish, Lapses
  <2> QED BY <2>1, <2>2
<1>6. ASSUME NEW spec \in Specs, Apply(spec), UNCHANGED eksVars PROVE FALSE
  <2>1. Publish(store', {}) /\ UNCHANGED <<active, cache>>
    BY <1>6 DEF Apply, Publish
  <2>2. store # NoPolicy => store.spec # spec /\ store'.spec = spec
    BY <1>4, <1>6 DEF Apply, Publish, Policy
  <2>3. Accepts(store, store')
    BY <2>2 DEF Accepts, Lapses
  <2> QED BY <1>3, <1>6, <2>1, <2>3
<1> QED
  BY <1>2, <1>5, <1>6 DEF SomebodyActs

\* The one replica leaves an update in flight to the schedule only where
\* ShouldSkip holds it back, where resolveLatestOrRequeue fails, or where its
\* copy has no update in flight: for every AMI type, every fault, every edit and
\* every lag of the informer.
THEOREM PollingKept ==
  ASSUME OneReplica
  PROVE  Spec => KeepsPolling
<1>1. Init => StampsRest
  BY DEF Init, StampsRest
<1>2. ASSUME IInv, IInv', WakeInv, WakeInv', StampsRest, [Next]_vars,
             NEW r \in Replica, Polls(r), ~Polls(r)'
      PROVE  Excused(r)
  <2>1. Lapses(r)
    <3>1. /\ active'[r] /\ pc'[r] = "idle" /\ ~queued'[r] /\ ~EventPending(r)'
          /\ store' # NoPolicy /\ ~store'.spec.paused /\ InFlight(store'.status)
          /\ wait'[r] \notin {"soon", "poll"}
      BY <1>2 DEF Polls
    <3>2. wait'[r] # "none"
      BY <1>2, <3>1 DEF WakeInv, Woken, NeedsWork
    <3>3. wait'[r] \in Wait
      BY <1>2 DEF IInv, PlaneInv
    <3> QED BY <3>1, <3>2, <3>3 DEF Lapses, Wait
  <2>2. CASE Reconcile(r)
    BY <1>2, <2>1, <2>2, WorkerLapses
  <2>3. CASE \/ Informer(r) \/ Timer(r) \/ BootReplica(r) \/ Crash(r) \/ CooldownElapses
             \/ UNCHANGED <<planeVars, procVars>>
    BY <1>2, <2>1, <2>3, SurroundingsLapse
  <2>4. CASE SomebodyActs
    BY <1>2, <2>1, <2>4, SomebodyLapse
  <2> QED BY <1>2, <2>2, <2>3, <2>4
          DEF Next, OneReplica, StartAfterPasses, AWSMoves, UpdateEnds, vars
<1>3. IInv /\ IInv' /\ WakeInv /\ WakeInv' /\ StampsRest /\ [Next]_vars
        => [\A r \in Replica : Polls(r) /\ ~Polls(r)' => Excused(r)]_vars
  BY <1>2
<1>4. IInv /\ Init => WakeInv
  BY InitWake
<1>5. IInv /\ IInv' /\ WakeInv /\ [Next]_vars => WakeInv'
  BY NextWake
<1>6. Spec => [][\A r \in Replica : Polls(r) /\ ~Polls(r)' => Excused(r)]_vars
  BY <1>1, <1>3, <1>4, <1>5, StampsNext, Invariant, PTL DEF Spec
<1> QED
  BY <1>6 DEF KeepsPolling, Excused
=============================================================================
