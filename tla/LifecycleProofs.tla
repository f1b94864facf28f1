-------------------------- MODULE LifecycleProofs --------------------------
(***************************************************************************)
(* Reconciler implements UpgradeLifecycle, for every set of replicas,      *)
(* every lag, every bound and every kind of fault.                         *)
(***************************************************************************)
EXTENDS ReconcilerProofs

(***************************************************************************)
(* A write replaces the stored status by one that was computed some steps  *)
(* before, from a copy.  It is one step of the lifecycle because only a    *)
(* worker whose copy is still the stored version gets its write accepted:  *)
(* what it computed follows from the status it replaces, and what it was   *)
(* told of EKS's updates meanwhile is still so, since EKS never takes an   *)
(* answer back.  That the update taken up is newer than those before needs *)
(* the order in which EKS gives out ids.                                   *)
(***************************************************************************)

Resting == {"", "Succeeded", "Failed", "Skipped"}

\* What a reconcile may make of a status, when EKS's updates are `ups`.
Keeps(old, new) == new.updateID = old.updateID /\ new.upgradeStatus = old.upgradeStatus

TakesUp(old, new, ups) ==
  /\ old.upgradeStatus \in Resting /\ new.upgradeStatus = "InProgress"
  /\ new.updateID \in UpdateId /\ new.updateID > old.updateID
  /\ ups[new.updateID].status # "None"

Ends(old, new, ups) ==
  /\ new.updateID = old.updateID /\ old.upgradeStatus = "InProgress"
  /\ \/ new.upgradeStatus = "Skipped"
     \/ ups[old.updateID].status = "Successful" /\ new.upgradeStatus = "Succeeded"
     \/ ups[old.updateID].status \in {"Failed", "Cancelled"} /\ new.upgradeStatus = "Failed"

Assesses(old, new) ==
  /\ new.updateID = old.updateID /\ old.upgradeStatus \in Resting
  /\ new.upgradeStatus \in {"Succeeded", "Failed", "Skipped"}

Follows(old, new, ups) ==
  Keeps(old, new) \/ TakesUp(old, new, ups) \/ Ends(old, new, ups) \/ Assesses(old, new)

Reading == {"addFinalizer", "guards", "nodegroup", "cluster", "resolve", "process"}
Writing == {"write", "stamp"}

\* A copy of the stored version has its status until one is computed from it.
BasedOnStore(r) ==
  current[r] =>
    /\ pc[r] \in Reading => obj[r].status = store.status
    /\ pc[r] \in Writing => Follows(store.status, obj[r].status, updates)

\* EKS gives out ids in order.
InOrder ==
  \A u, w \in UpdateId : u < w /\ updates[w].status # "None" => updates[u].status # "None"

\* In progress is an update with a name.
Named ==
  store # NoPolicy /\ store.status.upgradeStatus = "InProgress" =>
    store.status.updateID # NoUpdate

LifeInv == InOrder /\ Named /\ \A r \in Replica : BasedOnStore(r)

\* What a step owes: the invariant, and a step of the lifecycle or none.
Implements == LifeInv' /\ [Lifecycle!Next]_(Lifecycle!vars)

StoreId == IF store = NoPolicy THEN NoUpdate ELSE store.status.updateID

Ups == [u \in UpdateId |-> updates[u].status]

UpdateStarts == \E id \in UpdateId : \E release : \E owner : StartUpdate(id, release, owner)

------------------------------------------------------------------------------
\* The lifecycle sees the stored status and the updates only.
LEMMA LifecycleVars ==
  /\ UNCHANGED <<store, updates>> => UNCHANGED Lifecycle!vars
  /\ Lifecycle!vars = <<Phase, StoreId, Ups>>
  /\ Lifecycle!vars' = <<Phase', StoreId', Ups'>>
BY DEF Lifecycle!vars, Phase, StoreId, Ups

\* The stored object, and what it says.
LEMMA StoredStatus ==
  ASSUME IInv, store # NoPolicy
  PROVE  /\ store \in Policy /\ store.status \in Status
         /\ store.status.updateID # NoUpdate =>
              updates[store.status.updateID].status # "None"
BY DEF IInv, PlaneInv, TruthfulCopy, Truthful, MaybePolicy, Policy

\* A worker's copy.
LEMMA WorkersCopy ==
  ASSUME IInv, NEW r \in Replica, pc[r] # "idle"
  PROVE  obj[r] \in Policy /\ obj[r].status \in Status
BY DEF IInv, ProcInv, Working, TruthfulCopy, MaybePolicy, Policy

\* What follows goes on following while EKS answers no question anew.
LEMMA FollowsLasts ==
  ASSUME NEW old \in Status, NEW new \in Status, NEW ups, NEW later, Follows(old, new, ups),
         old.upgradeStatus = "InProgress" => old.updateID # NoUpdate,
         \A id \in UpdateId :
           /\ ups[id].status # "None" => later[id].status # "None"
           /\ ups[id].status \in Outcome => later[id].status = ups[id].status
  PROVE  Follows(old, new, later)
<1>1. old.upgradeStatus = "InProgress" => old.updateID \in UpdateId
  BY DEF Status
<1>2. TakesUp(old, new, ups) => TakesUp(old, new, later)
  BY DEF TakesUp
<1>3. Ends(old, new, ups) => Ends(old, new, later)
  BY <1>1 DEF Ends, Outcome
<1> QED
  BY <1>2, <1>3 DEF Follows

------------------------------------------------------------------------------
\* Steps that leave the store and the updates alone.

\* A worker that does not move, or has lost its hold.
Stays(r) == current'[r] => current[r] /\ pc'[r] = pc[r] /\ obj'[r] = obj[r]

LEMMA QuietLife ==
  ASSUME LifeInv, UNCHANGED <<store, updates>>,
         \A r \in Replica : Stays(r) \/ BasedOnStore(r)'
  PROVE  Implements
<1>1. InOrder' /\ Named'
  BY DEF LifeInv, InOrder, Named
<1>2. \A r \in Replica : BasedOnStore(r)'
  BY DEF LifeInv, Stays, BasedOnStore
<1> QED
  BY <1>1, <1>2, LifecycleVars DEF Implements, LifeInv

\* One worker moves.
LEMMA OthersStay ==
  ASSUME IInv, NEW r \in Replica, NEW label \in Label, Goto(r, label),
         UNCHANGED current \/ LetGo(r),
         (\E copy : obj' = [obj EXCEPT ![r] = copy])
  PROVE  /\ pc'[r] = label
         /\ \A s \in Replica : s # r => Stays(s)
BY DEF Goto, LetGo, Stays, IInv, ProcInv, PlaneInv

LEMMA ReturnLife ==
  ASSUME IInv, LifeInv, NEW r \in Replica, NEW delay, Return(r, delay)
  PROVE  Implements
<1>1. Goto(r, "idle") /\ LetGo(r) /\ obj' = [obj EXCEPT ![r] = NoPolicy]
  BY DEF Return, Forget
<1>2. pc'[r] = "idle" /\ \A s \in Replica : s # r => Stays(s)
  BY <1>1, OthersStay DEF Label
<1>3. BasedOnStore(r)'
  BY <1>2 DEF BasedOnStore, Reading, Writing
<1>4. UNCHANGED <<store, updates>>
  BY DEF Return, LetGo, eksVars
<1> QED
  BY <1>2, <1>3, <1>4, QuietLife

\* A worker goes on, with its copy or with a status computed from it.
LEMMA LocalLife ==
  ASSUME IInv, LifeInv, NEW r \in Replica, pc[r] \in Reading,
         NEW label \in Reading \cup Writing, Goto(r, label), UNCHANGED planeVars,
         UNCHANGED updates,
         \/ UNCHANGED obj
         \/ /\ label \in Writing
            /\ \E status \in Status :
                 /\ obj' = [obj EXCEPT ![r].status = status]
                 /\ current[r] => Follows(store.status, status, updates)
  PROVE  Implements
<1>1. \E copy : obj' = [obj EXCEPT ![r] = copy]
  <2>1. CASE UNCHANGED obj
    <3>1. obj = [obj EXCEPT ![r] = obj[r]]
      BY DEF IInv, ProcInv
    <3> QED BY <2>1, <3>1
  <2>2. CASE \E status \in Status : obj' = [obj EXCEPT ![r].status = status]
    BY <2>2
  <2> QED BY <2>1, <2>2
<1>2. label \in Label
  BY DEF Reading, Writing, Label
<1>3. pc'[r] = label /\ \A s \in Replica : s # r => Stays(s)
  BY <1>1, <1>2, OthersStay DEF planeVars
<1>4. UNCHANGED <<store, current>>
  BY DEF planeVars
<1>5. pc[r] # "idle"
  BY DEF Reading
<1>6. obj[r] \in Policy
  BY <1>5, WorkersCopy
<1>7. BasedOnStore(r)'
  <2>1. current[r] => obj[r].status = store.status
    BY DEF LifeInv, BasedOnStore
  <2>2. CASE UNCHANGED obj
    BY <1>3, <1>4, <2>1, <2>2 DEF BasedOnStore, Follows, Keeps
  <2>3. ASSUME NEW status \in Status, obj' = [obj EXCEPT ![r].status = status],
               current[r] => Follows(store.status, status, updates), label \in Writing
        PROVE  BasedOnStore(r)'
    <3>1. obj'[r].status = status
      BY <1>6, <2>3 DEF IInv, ProcInv, Policy
    <3>2. label \notin Reading
      BY <2>3 DEF Reading, Writing
    <3> QED BY <1>3, <1>4, <2>3, <3>1, <3>2 DEF BasedOnStore
  <2> QED BY <2>2, <2>3
<1> QED
  BY <1>3, <1>4, <1>7, QuietLife

\* The copy is the cache's version, and current when nothing newer is on its way.
LEMMA StartLife ==
  ASSUME IInv, LifeInv, NEW r \in Replica, Start(r)
  PROVE  Implements
<1>1. /\ queued[r] /\ pc[r] = "idle" /\ UNCHANGED <<store, updates>>
  BY DEF Start, eksVars
<1>2. CASE UNCHANGED <<pc, obj, current>>
  BY <1>1, <1>2, QuietLife DEF Stays
<1>3. CASE ~(cache[r] = NoPolicy \/ AfterGet(cache[r]) = "idle")
  <2>1. /\ obj' = [obj EXCEPT ![r] = cache[r]]
        /\ current' = [current EXCEPT ![r] = watch[r] = <<>>]
        /\ Goto(r, AfterGet(cache[r]))
    BY <1>3 DEF Start
  <2>2. active[r]
    BY <1>1 DEF IInv, InSync
  <2>3. current'[r] => cache[r] = store
    BY <2>1, <2>2 DEF IInv, InSync, PlaneInv
  <2>4. pc'[r] = AfterGet(cache[r]) /\ obj'[r] = cache[r]
    BY <2>1 DEF Goto, IInv, ProcInv
  <2>5. AfterGet(cache[r]) \notin Writing
    BY DEF AfterGet, Writing
  <2>6. BasedOnStore(r)'
    BY <1>1, <2>3, <2>4, <2>5 DEF BasedOnStore
  <2>7. \A s \in Replica : s # r => Stays(s)
    BY <2>1 DEF Stays, Goto, IInv, ProcInv, PlaneInv
  <2> QED BY <1>1, <2>6, <2>7, QuietLife
<1> QED
  BY <1>2, <1>3 DEF Start

\* From the cache read to ResolveLatestAMI.
LEMMA ReadingLife ==
  ASSUME IInv, LifeInv, NEW r \in Replica,
         \/ Start(r) \/ Paused(r) \/ MalformedStartAfter(r) \/ Skip(r)
         \/ NotDue(r) \/ Proceed(r) \/ ClientsError(r)
         \/ DescribeNodegroup(r) \/ DescribeNodegroupError(r)
         \/ DescribeCluster(r) \/ DescribeClusterError(r)
         \/ ResolveLatest(r) \/ ResolveUnsupported(r) \/ ResolveError(r)
  PROVE  Implements
<1>1. CASE Paused(r) \/ MalformedStartAfter(r) \/ Skip(r) \/ ClientsError(r)
  BY <1>1, ReturnLife DEF Paused, MalformedStartAfter, Skip, ClientsError
<1>2. CASE DescribeNodegroupError(r) \/ DescribeClusterError(r) \/ ResolveError(r)
  BY <1>2, ReturnLife DEF DescribeNodegroupError, DescribeClusterError, ResolveError
<1>3. CASE NotDue(r) \/ Proceed(r)
  BY <1>3, LocalLife DEF NotDue, Proceed, Reading, Writing, eksVars
<1>4. CASE DescribeNodegroup(r) \/ DescribeCluster(r) \/ ResolveLatest(r)
  BY <1>4, LocalLife DEF DescribeNodegroup, DescribeCluster, ResolveLatest, Reading, Writing, eksVars
<1>5. CASE ResolveUnsupported(r)
  <2> DEFINE status == UnsupportedAMI(obj[r].status)
  <2>1. pc[r] = "resolve" /\ Goto(r, "stamp") /\ UNCHANGED <<planeVars, updates>>
    BY <1>5 DEF ResolveUnsupported, eksVars
  <2>2. obj[r].status \in Status
    BY <2>1, WorkersCopy
  <2>3. /\ status \in Status /\ status.updateID = obj[r].status.updateID
        /\ status.upgradeStatus = "Skipped"
    BY <2>2 DEF UnsupportedAMI, Status
  <2>4. obj' = [obj EXCEPT ![r].status = status]
    BY <1>5 DEF ResolveUnsupported
  <2>5. current[r] => obj[r].status = store.status
    BY <2>1 DEF LifeInv, BasedOnStore, Reading
  <2>6. Follows(obj[r].status, status, updates)
    BY <2>2, <2>3 DEF Follows, Ends, Assesses, Resting, Status
  <2> HIDE DEF status
  <2> QED BY <2>1, <2>3, <2>4, <2>5, <2>6, LocalLife DEF Reading, Writing
<1> QED
  BY <1>1, <1>2, <1>3, <1>4, <1>5, StartLife

------------------------------------------------------------------------------
\* Steps of EKS.

\* Updates start and end; the store stays.
LEMMA Updated ==
  ASSUME IInv, LifeInv, UNCHANGED store,
         UpdateStarts
           \/ (\E id \in UpdateId, outcome \in Outcome : CompleteUpdate(id, outcome))
  PROVE  /\ InOrder' /\ Named' /\ [Lifecycle!Next]_(Lifecycle!vars)
         /\ \A id \in UpdateId :
              /\ updates[id].status # "None" => updates'[id].status # "None"
              /\ updates[id].status \in Outcome => updates'[id].status = updates[id].status
<1>1. Phase' = Phase /\ StoreId' = StoreId /\ Named'
  BY DEF Phase, StoreId, LifeInv, Named
<1>2. updates \in [UpdateId -> Update]
  BY DEF IInv, EKSInv, EKSTypeOK
<1>3. ASSUME NEW u \in UpdateId, NEW release, NEW owner, StartUpdate(u, release, owner)
      PROVE  /\ InOrder' /\ Lifecycle!Next
             /\ \A id \in UpdateId :
                  /\ updates[id].status # "None" => updates'[id].status # "None"
                  /\ updates[id].status \in Outcome => updates'[id].status = updates[id].status
  <2>1. /\ updates[u].status = "None" /\ updates'[u].status = "InProgress"
        /\ \A id \in UpdateId : id # u => updates'[id] = updates[id]
        /\ \A id \in UpdateId : id < u => updates[id].status # "None"
    BY <1>2, <1>3 DEF StartUpdate, NextId
  <2>2. InOrder'
    BY <2>1 DEF LifeInv, InOrder, UpdateId
  <2>3. Ups[u] = "None" /\ Ups' = [Ups EXCEPT ![u] = "InProgress"]
    BY <2>1 DEF Ups
  <2>4. Lifecycle!Issue(u)
    BY <1>1, <2>3 DEF Lifecycle!Issue, Ups, StoreId
  <2>5. Lifecycle!Next
    BY <2>4 DEF Lifecycle!Next
  <2> QED BY <2>1, <2>2, <2>5 DEF Outcome
<1>4. ASSUME NEW u \in UpdateId, NEW outcome \in Outcome, CompleteUpdate(u, outcome)
      PROVE  /\ InOrder' /\ Lifecycle!Next
             /\ \A id \in UpdateId :
                  /\ updates[id].status # "None" => updates'[id].status # "None"
                  /\ updates[id].status \in Outcome => updates'[id].status = updates[id].status
  <2>1. /\ updates[u].status = "InProgress" /\ updates'[u].status = outcome
        /\ \A id \in UpdateId : id # u => updates'[id] = updates[id]
    BY <1>2, <1>4 DEF CompleteUpdate, Update
  <2>2. InOrder'
    BY <2>1 DEF LifeInv, InOrder, Outcome
  <2>3. Ups[u] = "InProgress" /\ Ups' = [Ups EXCEPT ![u] = outcome]
    BY <2>1 DEF Ups
  <2>4. Lifecycle!Settle(u)
    BY <1>1, <2>3 DEF Lifecycle!Settle, Ups, StoreId
  <2>5. Lifecycle!Next
    BY <2>4 DEF Lifecycle!Next
  <2> QED BY <2>1, <2>2, <2>5 DEF Outcome
<1> QED
  BY <1>1, <1>3, <1>4 DEF UpdateStarts

\* What a worker holds goes on following.
LEMMA HoldsOn ==
  ASSUME IInv, LifeInv, NEW r \in Replica, Stays(r), UNCHANGED store,
         \A id \in UpdateId :
           /\ updates[id].status # "None" => updates'[id].status # "None"
           /\ updates[id].status \in Outcome => updates'[id].status = updates[id].status
  PROVE  BasedOnStore(r)'
<1> SUFFICES ASSUME current'[r] PROVE BasedOnStore(r)'
  BY DEF BasedOnStore
<1>1. current[r] /\ pc'[r] = pc[r] /\ obj'[r] = obj[r] /\ store # NoPolicy
  BY DEF Stays, IInv, Existing
<1>2. CASE pc[r] \in Writing
  <2>1. store.status \in Status /\ obj[r].status \in Status
    BY <1>1, <1>2, StoredStatus, WorkersCopy DEF Writing
  <2>2. Follows(store.status, obj[r].status, updates)
    BY <1>1, <1>2 DEF LifeInv, BasedOnStore
  <2>3. store.status.upgradeStatus = "InProgress" => store.status.updateID # NoUpdate
    BY <1>1 DEF LifeInv, Named
  <2>4. Follows(store.status, obj[r].status, updates')
    BY <2>1, <2>2, <2>3, FollowsLasts
  <2> QED BY <1>1, <1>2, <2>4 DEF BasedOnStore, Reading, Writing
<1>3. CASE pc[r] \notin Writing
  BY <1>1, <1>3 DEF LifeInv, BasedOnStore
<1> QED
  BY <1>2, <1>3

\* An update starts or ends while the workers stay where they are.
LEMMA EKSLife ==
  ASSUME IInv, LifeInv, UNCHANGED <<store, current, pc, obj>>,
         UpdateStarts
           \/ (\E id \in UpdateId, outcome \in Outcome : CompleteUpdate(id, outcome))
  PROVE  Implements
BY Updated, HoldsOn DEF Stays, Implements, LifeInv

\* ProcessUpgrade settles on a status that follows from the one it was given.
LEMMA SettleLife ==
  ASSUME IInv, LifeInv, NEW r \in Replica, pc[r] = "process", NEW status \in Status,
         Settle(r, status), current[r] => Follows(store.status, status, updates'),
         UNCHANGED updates
           \/ UpdateStarts
  PROVE  Implements
<1>1. /\ Goto(r, "write") /\ obj' = [obj EXCEPT ![r].status = status]
      /\ UNCHANGED <<planeVars, store, current>>
  BY DEF Settle, planeVars
<1>2. CASE UNCHANGED updates
  BY <1>1, <1>2, LocalLife DEF Reading, Writing
<1>3. CASE UpdateStarts
  <2>1. obj' = [obj EXCEPT ![r] = [obj[r] EXCEPT !.status = status]]
    BY <1>1
  <2>2. pc'[r] = "write" /\ \A s \in Replica : s # r => Stays(s)
    BY <1>1, <2>1, OthersStay DEF Label
  <2>3. \A s \in Replica : s # r => BasedOnStore(s)'
    BY <1>1, <1>3, <2>2, Updated, HoldsOn
  <2>4. obj'[r].status = status
    BY <1>1, WorkersCopy DEF IInv, ProcInv, Policy
  <2>5. BasedOnStore(r)'
    BY <1>1, <2>2, <2>4 DEF BasedOnStore, Reading, Writing
  <2> QED BY <1>1, <1>3, <2>3, <2>5, Updated DEF Implements, LifeInv
<1> QED
  BY <1>2, <1>3

\* Every branch of ProcessUpgrade makes of a status what may follow it.
LEMMA Branches ==
  ASSUME NEW status \in Status, NEW ups \in [UpdateId -> Update],
         NEW cur \in Release \cup {NoRelease}, NEW lat \in Release \cup {NoRelease},
         status.upgradeStatus = "InProgress" => status.updateID # NoUpdate
  PROVE  LET begun == BeginProcess(status, cur, lat)
         IN  /\ Keeps(status, begun)
             /\ InFlight(status) =>
                  Follows(status, TrackInFlightUpdate(begun, ups[status.updateID].status), ups)
             /\ ~InFlight(status) =>
                  /\ Follows(status, Compliant(begun), ups)
                  /\ Follows(status, SkipUpgrade(begun), ups)
                  /\ Follows(status, InitiationFailed(begun), ups)
                  /\ \A id \in UpdateId :
                       id > status.updateID /\ ups[id].status # "None" =>
                         Follows(status, Initiated(begun, id), ups)
<1> DEFINE begun == BeginProcess(status, cur, lat)
<1>1. begun \in Status /\ Keeps(status, begun)
  BY DEF BeginProcess, Keeps, Status
<1> HIDE DEF begun
<1>2. ASSUME InFlight(status)
      PROVE  Follows(status, TrackInFlightUpdate(begun, ups[status.updateID].status), ups)
  <2> DEFINE reported == ups[status.updateID].status
             tracked == TrackInFlightUpdate(begun, reported)
  <2>1. status.upgradeStatus = "InProgress"
    BY <1>2 DEF InFlight
  <2>2. /\ tracked.updateID = status.updateID
        /\ tracked.upgradeStatus = CASE reported = "Successful" -> "Succeeded"
                                     [] reported \in {"Failed", "Cancelled"} -> "Failed"
                                     [] OTHER -> begun.upgradeStatus
    BY <1>1 DEF TrackInFlightUpdate, Keeps, Status
  <2>3. CASE reported = "Successful"
    <3>1. tracked.upgradeStatus = "Succeeded"
      BY <2>2, <2>3
    <3> QED BY <2>1, <2>2, <2>3, <3>1 DEF Follows, Ends
  <2>4. CASE reported \in {"Failed", "Cancelled"}
    <3>1. tracked.upgradeStatus = "Failed"
      BY <2>2, <2>4
    <3> QED BY <2>1, <2>2, <2>4, <3>1 DEF Follows, Ends
  <2>5. CASE reported \notin {"Successful", "Failed", "Cancelled"}
    <3>1. tracked.upgradeStatus = begun.upgradeStatus
      BY <2>2, <2>5
    <3> QED BY <1>1, <2>2, <3>1 DEF Follows, Keeps
  <2>6. Follows(status, tracked, ups)
    BY <2>3, <2>4, <2>5
  <2> QED BY <2>6
<1>3. ASSUME ~InFlight(status)
      PROVE  /\ Follows(status, Compliant(begun), ups)
             /\ Follows(status, SkipUpgrade(begun), ups)
             /\ Follows(status, InitiationFailed(begun), ups)
             /\ \A id \in UpdateId :
                  id > status.updateID /\ ups[id].status # "None" =>
                    Follows(status, Initiated(begun, id), ups)
  <2>1. status.upgradeStatus \in Resting
    BY <1>3 DEF InFlight, Resting, Status
  <2>2. /\ Compliant(begun).updateID = status.updateID
        /\ SkipUpgrade(begun).updateID = status.updateID
        /\ InitiationFailed(begun).updateID = status.updateID
        /\ Compliant(begun).upgradeStatus = "Succeeded"
        /\ SkipUpgrade(begun).upgradeStatus = "Skipped"
        /\ InitiationFailed(begun).upgradeStatus = "Failed"
    BY <1>1 DEF Compliant, SkipUpgrade, InitiationFailed, Keeps, Status
  <2>3. ASSUME NEW id \in UpdateId, id > status.updateID, ups[id].status # "None"
        PROVE  Follows(status, Initiated(begun, id), ups)
    <3>1. Initiated(begun, id).updateID = id /\ Initiated(begun, id).upgradeStatus = "InProgress"
      BY <1>1 DEF Initiated, Status
    <3> QED BY <2>1, <2>3, <3>1 DEF Follows, TakesUp
  <2> QED BY <2>1, <2>2, <2>3 DEF Follows, Assesses
<1> QED
  BY <1>1, <1>2, <1>3 DEF begun

LEMMA ProcessLife ==
  ASSUME IInv, IInv', LifeInv, NEW r \in Replica,
         \/ Poll(r) \/ PollError(r) \/ Assess(r)
         \/ Initiate(r) \/ InitiateUnanswered(r) \/ InitiateRefused(r)
  PROVE  Implements
<1>1. pc[r] = "process"
  BY DEF Poll, PollError, Assess, Initiate, InitiateUnanswered, InitiateRefused, Upgrades
<1>2. /\ ngSeen[r] \in Release \cup {NoRelease} /\ latestSeen[r] \in Release \cup {NoRelease}
      /\ obj[r].status \in Status /\ obj[r] \in Policy
      /\ updates \in [UpdateId -> Update] /\ updates' \in [UpdateId -> Update]
  BY <1>1, WorkersCopy DEF IInv, ProcInv, EKSInv, EKSTypeOK
<1>3. current[r] => /\ obj[r].status = store.status /\ store # NoPolicy
                    /\ obj[r].status.upgradeStatus = "InProgress" => obj[r].status.updateID # NoUpdate
  BY <1>1 DEF LifeInv, BasedOnStore, Named, Reading, IInv, Existing
\* The status settled on is well typed, because it is in the next state.
<1>4. ASSUME NEW status, Settle(r, status) PROVE status \in Status
  <2>1. obj'[r] = [obj[r] EXCEPT !.status = status] /\ pc'[r] = "write"
    BY <1>4 DEF Settle, Goto, IInv, ProcInv
  <2>2. obj'[r] # NoPolicy
    BY <2>1 DEF IInv, Working
  <2>3. obj'[r] \in Policy
    BY <2>2 DEF IInv, ProcInv, TruthfulCopy, MaybePolicy
  <2>4. obj'[r].status = status
    BY <1>2, <2>1 DEF Policy
  <2> QED BY <2>3, <2>4 DEF Policy
<1>5. UNCHANGED eksVars => UNCHANGED updates
  BY DEF eksVars
<1>6. current[r] => Follows(store.status, Begun(r), updates)
  BY <1>2, <1>3, Branches DEF Begun, Follows
<1>7. CASE Poll(r)
  <2> DEFINE status == TrackInFlightUpdate(Begun(r), updates[obj[r].status.updateID].status)
  <2>1. InFlight(obj[r].status) /\ Settle(r, status) /\ UNCHANGED updates
    BY <1>5, <1>7 DEF Poll
  <2>2. current[r] => Follows(store.status, status, updates)
    BY <1>2, <1>3, <2>1, Branches DEF Begun
  <2> HIDE DEF status
  <2> QED BY <1>1, <1>4, <2>1, <2>2, SettleLife
<1>8. CASE PollError(r)
  <2>1. Settle(r, Begun(r)) /\ UNCHANGED updates
    BY <1>5, <1>8 DEF PollError
  <2> QED BY <1>1, <1>4, <1>6, <2>1, SettleLife
<1>9. CASE Assess(r)
  <2>1. PICK status \in {Compliant(Begun(r)), SkipUpgrade(Begun(r))} : Settle(r, status)
    BY <1>9 DEF Assess
  <2>2. ~InFlight(obj[r].status) /\ UNCHANGED updates
    BY <1>5, <1>9 DEF Assess
  <2>3. current[r] => Follows(store.status, status, updates)
    BY <1>2, <1>3, <2>1, <2>2, Branches DEF Begun
  <2> QED BY <1>1, <1>4, <2>1, <2>2, <2>3, SettleLife
<1>10. CASE Initiate(r)
  <2>1. PICK id \in UpdateId :
          StartUpdate(id, latestSeen[r], "operator") /\ Settle(r, Initiated(Begun(r), id))
    BY <1>10 DEF Initiate
  <2>2. ~InFlight(obj[r].status)
    BY <1>10 DEF Initiate, Upgrades
  <2>3. updates[id].status = "None" /\ updates'[id].status # "None"
    BY <1>2, <2>1 DEF StartUpdate, NextId
  <2>4. current[r] => id > obj[r].status.updateID
    <3> SUFFICES ASSUME current[r] PROVE id > obj[r].status.updateID
      OBVIOUS
    <3> DEFINE old == obj[r].status.updateID
    <3>1. old \in UpdateId \cup {NoUpdate}
      BY <1>2 DEF Status
    <3>2. old # NoUpdate => updates[old].status # "None"
      BY <1>3, StoredStatus
    <3>3. old # NoUpdate => ~(id < old) /\ id # old
      BY <2>3, <3>1, <3>2 DEF LifeInv, InOrder
    <3> HIDE DEF old
    <3>4. id > old
      BY <3>1, <3>3, UpdateAssumption DEF UpdateId, NoUpdate
    <3> QED BY <3>4 DEF old
  <2>5. current[r] => Follows(store.status, Initiated(Begun(r), id), updates')
    BY <1>2, <1>3, <2>2, <2>3, <2>4, Branches DEF Begun
  <2> QED BY <1>1, <1>4, <2>1, <2>5, SettleLife DEF UpdateStarts
<1>11. CASE InitiateUnanswered(r) \/ InitiateRefused(r)
  <2>1. ~InFlight(obj[r].status) /\ Settle(r, InitiationFailed(Begun(r)))
    BY <1>11 DEF InitiateUnanswered, InitiateRefused, Upgrades
  <2>2. UNCHANGED updates \/ UpdateStarts
    BY <1>5, <1>11 DEF InitiateUnanswered, InitiateRefused, UpdateStarts
  <2>3. current[r] => Follows(store.status, InitiationFailed(Begun(r)), updates')
    BY <1>2, <1>3, <2>1, Branches DEF Begun
  <2> QED BY <1>1, <1>4, <2>1, <2>2, <2>3, SettleLife
<1> QED
  BY <1>7, <1>8, <1>9, <1>10, <1>11

------------------------------------------------------------------------------
\* Steps that store a version.

\* Only a holder's copy has to match.
LEMMA Holders ==
  ASSUME NEW new, NEW holders, Publish(new, holders),
         \A r \in Replica : r \in holders => BasedOnStore(r)'
  PROVE  store' = new /\ \A r \in Replica : BasedOnStore(r)'
BY DEF Publish, BasedOnStore

\* The stored status is replaced by one that follows from it.
LEMMA WriteLife ==
  ASSUME IInv, LifeInv, UNCHANGED updates, store # NoPolicy, store' # NoPolicy,
         store'.status \in Status, Follows(store.status, store'.status, updates),
         \A r \in Replica : BasedOnStore(r)'
  PROVE  Implements
<1> DEFINE old == store.status
           new == store'.status
<1>1. old \in Status /\ new \in Status
  BY StoredStatus
<1>2. old.upgradeStatus = "InProgress" => old.updateID \in UpdateId
  BY <1>1 DEF LifeInv, Named, Status
<1>3. /\ Phase = (IF old.upgradeStatus = "" THEN "new" ELSE old.upgradeStatus)
      /\ Phase' = (IF new.upgradeStatus = "" THEN "new" ELSE new.upgradeStatus)
      /\ StoreId = old.updateID /\ StoreId' = new.updateID /\ Ups' = Ups
  BY DEF Phase, StoreId, Ups
<1>4. Named' /\ InOrder'
  <2>1. new.upgradeStatus = "InProgress" => new.updateID # NoUpdate
    BY <1>1, <1>2, UpdateAssumption
       DEF Follows, Keeps, TakesUp, Ends, Assesses, UpdateId, NoUpdate
  <2> QED BY <2>1 DEF Named, LifeInv, InOrder
<1> HIDE DEF old, new
<1>5. CASE Keeps(old, new)
  <2>1. UNCHANGED Lifecycle!vars
    BY <1>3, <1>5, LifecycleVars DEF Keeps
  <2> QED BY <1>4, <2>1 DEF Implements, LifeInv
<1>6. CASE TakesUp(old, new, updates)
  <2>1. Phase \in Lifecycle!Settled /\ Phase' = "InProgress"
    BY <1>3, <1>6 DEF TakesUp, Resting, Lifecycle!Settled
  <2>2. Lifecycle!Track(new.updateID)
    BY <1>3, <1>6, <2>1 DEF TakesUp, Lifecycle!Track, StoreId, Ups
  <2>3. Lifecycle!Next
    BY <1>6, <2>2 DEF TakesUp, Lifecycle!Next
  <2> QED BY <1>4, <2>3 DEF Implements, LifeInv
<1>7. CASE Ends(old, new, updates)
  <2>1. Phase = "InProgress" /\ Ups[StoreId] = updates[old.updateID].status
    BY <1>2, <1>3, <1>7 DEF Ends, Ups
  <2>2. Phase' = new.upgradeStatus /\ StoreId' = StoreId /\ Ups' = Ups
    BY <1>3, <1>7 DEF Ends
  <2>3. Lifecycle!Abandon \/ Lifecycle!Conclude
    BY <1>7, <2>1, <2>2 DEF Ends, Lifecycle!Abandon, Lifecycle!Conclude, StoreId, Ups, Outcome
  <2>4. Lifecycle!Next
    BY <2>3 DEF Lifecycle!Next
  <2> QED BY <1>4, <2>4 DEF Implements, LifeInv
<1>8. CASE Assesses(old, new)
  <2>1. Phase \in Lifecycle!Settled /\ Phase' \in {"Succeeded", "Failed", "Skipped"}
    BY <1>3, <1>8 DEF Assesses, Resting, Lifecycle!Settled
  <2>2. Lifecycle!Assess
    BY <1>3, <1>8, <2>1 DEF Assesses, Lifecycle!Assess, StoreId, Ups
  <2>3. Lifecycle!Next
    BY <2>2 DEF Lifecycle!Next
  <2> QED BY <1>4, <2>3 DEF Implements, LifeInv
<1> QED
  BY <1>5, <1>6, <1>7, <1>8 DEF Follows, old, new

\* The object goes, with all it said.
LEMMA RemoveLife ==
  ASSUME IInv, LifeInv, UNCHANGED updates, store # NoPolicy, store' = NoPolicy,
         \A r \in Replica : BasedOnStore(r)'
  PROVE  Implements
<1>1. Phase # "absent" /\ Phase' = "absent" /\ StoreId' = NoUpdate /\ Ups' = Ups
  <2>1. store.status.upgradeStatus # "absent"
    BY StoredStatus DEF Status
  <2> QED BY <2>1 DEF Phase, StoreId, Ups
<1>2. Lifecycle!Remove
  BY <1>1 DEF Lifecycle!Remove, StoreId, Ups
<1>3. Lifecycle!Next
  BY <1>2 DEF Lifecycle!Next
<1> QED
  BY <1>3 DEF Implements, LifeInv, InOrder, Named

\* A new object says nothing.
LEMMA CreateLife ==
  ASSUME IInv, LifeInv, UNCHANGED updates, store = NoPolicy,
         NEW spec, store' = Fresh(spec), store' # NoPolicy,
         \A r \in Replica : BasedOnStore(r)'
  PROVE  Implements
<1>1. Phase = "absent" /\ Phase' = "new" /\ StoreId = NoUpdate /\ StoreId' = NoUpdate /\ Ups' = Ups
  BY DEF Phase, StoreId, Ups, Fresh, EmptyStatus
<1>2. Lifecycle!Create
  BY <1>1 DEF Lifecycle!Create, StoreId, Ups
<1>3. Lifecycle!Next
  BY <1>2 DEF Lifecycle!Next
<1> QED
  BY <1>3 DEF Implements, LifeInv, InOrder, Named, Fresh, EmptyStatus

\* The worker's two status writes.
LEMMA WritingLife ==
  ASSUME IInv, LifeInv, NEW r \in Replica,
         \/ WriteStatus(r) \/ WriteUnanswered(r) \/ WriteError(r)
         \/ Stamp(r) \/ StampError(r)
  PROVE  Implements
<1> DEFINE new == [store EXCEPT !.status = obj[r].status]
<1>1. pc[r] \in Writing
  BY DEF WriteStatus, WriteUnanswered, WriteError, Stamp, StampError, Writing
<1>2. obj[r].status \in Status
  BY <1>1, WorkersCopy DEF Writing
<1>3. ASSUME current[r], store' = new, UNCHANGED updates, \A s \in Replica : BasedOnStore(s)'
      PROVE  Implements
  <2>1. store # NoPolicy /\ store \in Policy
    BY <1>3, StoredStatus DEF IInv, Existing
  <2>2. new \in Policy /\ new.status = obj[r].status
    BY <1>2, <2>1 DEF Policy
  <2>3. new # NoPolicy
    BY <2>2, NoPolicyAssumption
  <2>4. Follows(store.status, new.status, updates)
    BY <1>1, <1>3, <2>2 DEF LifeInv, BasedOnStore
  <2> QED BY <1>2, <1>3, <2>1, <2>2, <2>3, <2>4, WriteLife
<1>4. ASSUME current[r], Publish(new, {}), UNCHANGED updates
      PROVE  Implements
  BY <1>3, <1>4, Holders
<1>5. CASE WriteStatus(r)
  <2>1. current[r] /\ UNCHANGED updates
    BY <1>5 DEF WriteStatus, eksVars
  <2>2. CASE InFlight(obj[r].status)
    BY <1>4, <1>5, <2>1, <2>2 DEF WriteStatus
  <2>3. CASE ~InFlight(obj[r].status)
    <3>1. Publish(new, {r}) /\ Goto(r, "stamp") /\ UNCHANGED obj
      BY <1>5, <2>3 DEF WriteStatus
    <3>2. store \in Policy /\ new.status = obj[r].status
      BY <2>1, StoredStatus DEF IInv, Existing, Policy
    <3>3. BasedOnStore(r)'
      <4>1. store' = new /\ pc'[r] = "stamp" /\ obj'[r].status = store'.status
        BY <3>1, <3>2 DEF Publish, Goto, IInv, ProcInv
      <4> QED BY <4>1 DEF BasedOnStore, Reading, Follows, Keeps
    <3>4. store' = new /\ \A s \in Replica : BasedOnStore(s)'
      BY <3>1, <3>3, Holders
    <3> QED BY <1>3, <2>1, <3>4
  <2> QED BY <2>2, <2>3
<1>6. CASE WriteUnanswered(r) \/ Stamp(r)
  BY <1>4, <1>6 DEF WriteUnanswered, Stamp, eksVars
<1>7. CASE WriteError(r) \/ StampError(r)
  BY <1>7, ReturnLife DEF WriteError, StampError
<1> QED
  BY <1>5, <1>6, <1>7

\* HandleFinalizer stores another version of the same status, or none.
LEMMA FinalizerLife ==
  ASSUME IInv, LifeInv, NEW r \in Replica,
         \/ RemoveFinalizer(r) \/ AddFinalizer(r)
         \/ AddFinalizerUnanswered(r) \/ FinalizerError(r)
  PROVE  Implements
<1> DEFINE new == [store EXCEPT !.finalizer = TRUE]
<1>1. CASE RemoveFinalizer(r)
  <2>1. store # NoPolicy /\ UNCHANGED updates /\ Publish(NoPolicy, {})
    BY <1>1 DEF RemoveFinalizer, IInv, Existing, eksVars
  <2> QED BY <2>1, Holders, RemoveLife
<1>2. ASSUME current[r], store' = new, UNCHANGED updates, \A s \in Replica : BasedOnStore(s)'
      PROVE  Implements
  <2>1. store # NoPolicy /\ store \in Policy /\ store.status \in Status
    BY <1>2, StoredStatus DEF IInv, Existing
  <2>2. new \in Policy /\ new.status = store.status
    BY <2>1 DEF Policy
  <2>3. new # NoPolicy
    BY <2>2, NoPolicyAssumption
  <2> QED BY <1>2, <2>1, <2>2, <2>3, WriteLife DEF Follows, Keeps
<1>3. CASE AddFinalizer(r)
  <2>1. /\ current[r] /\ pc[r] = "addFinalizer" /\ Publish(new, {r}) /\ UNCHANGED updates
        /\ Goto(r, "guards") /\ obj' = [obj EXCEPT ![r].finalizer = TRUE]
    BY <1>3 DEF AddFinalizer, eksVars
  <2>2. store \in Policy /\ obj[r] \in Policy /\ obj[r].status = store.status
    BY <2>1, StoredStatus, WorkersCopy DEF IInv, Existing, LifeInv, BasedOnStore, Reading
  <2>3. pc'[r] = "guards" /\ obj'[r].status = obj[r].status /\ new.status = store.status
    BY <2>1, <2>2 DEF Goto, IInv, ProcInv, Policy
  <2>4. BasedOnStore(r)'
    BY <2>1, <2>2, <2>3 DEF BasedOnStore, Publish, Writing
  <2>5. store' = new /\ \A s \in Replica : BasedOnStore(s)'
    BY <2>1, <2>4, Holders
  <2> QED BY <1>2, <2>1, <2>5
<1>4. CASE AddFinalizerUnanswered(r)
  <2>1. current[r] /\ Publish(new, {}) /\ UNCHANGED updates
    BY <1>4 DEF AddFinalizerUnanswered, eksVars
  <2> QED BY <1>2, <2>1, Holders
<1>5. CASE FinalizerError(r)
  BY <1>5, ReturnLife DEF FinalizerError
<1> QED
  BY <1>1, <1>3, <1>4, <1>5

\* kubectl and the AWS console.
LEMMA SomebodyLife ==
  ASSUME IInv, IInv', LifeInv, SomebodyActs
  PROVE  Implements
<1>1. store # NoPolicy => store \in Policy /\ store.status \in Status
  BY StoredStatus
<1>2. store' \in MaybePolicy
  BY DEF IInv, PlaneInv, TruthfulCopy
<1>3. ASSUME NEW new, Publish(new, {}), UNCHANGED eksVars,
             store # NoPolicy, new # NoPolicy, new.status = store.status
      PROVE  Implements
  <2>1. store' = new /\ UNCHANGED updates /\ \A r \in Replica : BasedOnStore(r)'
    BY <1>3, Holders DEF eksVars
  <2> QED BY <1>1, <1>3, <2>1, WriteLife DEF Follows, Keeps
<1>4. CASE Delete /\ UNCHANGED eksVars
  <2>1. CASE store.finalizer
    <3> DEFINE new == [store EXCEPT !.deleting = TRUE]
    <3>1. store # NoPolicy /\ Publish(new, {})
      BY <1>4, <2>1 DEF Delete
    <3>2. new \in Policy /\ new.status = store.status
      BY <1>1, <3>1 DEF Policy
    <3> QED BY <1>3, <1>4, <3>1, <3>2, NoPolicyAssumption
  <2>2. CASE ~store.finalizer
    <3>1. store # NoPolicy /\ Publish(NoPolicy, {}) /\ UNCHANGED updates
      BY <1>4, <2>2 DEF Delete, eksVars
    <3> QED BY <3>1, Holders, RemoveLife
  <2> QED BY <2>1, <2>2
<1>5. ASSUME NEW spec \in Specs, Apply(spec), UNCHANGED eksVars PROVE Implements
  <2>1. spec \in PolicySpec
    BY SpecsAssumption
  <2>2. CASE store = NoPolicy
    <3>1. Publish(Fresh(spec), {}) /\ UNCHANGED updates
      BY <1>5, <2>2 DEF Apply, eksVars
    <3>2. Fresh(spec) \in TruthfulCopy(updates) \ {NoPolicy}
      BY <2>1, FreshCopy
    <3> QED BY <2>2, <3>1, <3>2, Holders, CreateLife
  <2>3. CASE store # NoPolicy
    <3> DEFINE new == [store EXCEPT !.spec = spec]
    <3>1. Publish(new, {})
      BY <1>5, <2>3 DEF Apply
    <3>2. new \in Policy /\ new.status = store.status
      BY <1>1, <2>1, <2>3 DEF Policy
    <3> QED BY <1>3, <1>5, <2>3, <3>1, <3>2, NoPolicyAssumption
  <2> QED BY <2>2, <2>3
<1>6. ASSUME NEW id \in UpdateId, StartUpdate(id, latest, "other"), UNCHANGED planeVars
      PROVE  Implements
  BY <1>6, EKSLife DEF SomebodyActs, UpdateStarts, planeVars, procVars
<1> QED
  BY <1>4, <1>5, <1>6 DEF SomebodyActs

------------------------------------------------------------------------------
\* Time ages statuses; what the lifecycle sees of them stays.
LEMMA AgedStatus ==
  ASSUME NEW p \in MaybePolicy
  PROVE  /\ AgedPolicy(p) = NoPolicy <=> p = NoPolicy
         /\ p # NoPolicy => /\ p.status \in Status /\ AgedPolicy(p).status = Aged(p.status)
                            /\ Aged(p.status) \in Status
                            /\ Keeps(p.status, Aged(p.status))
<1>1. CASE p = NoPolicy
  BY <1>1 DEF AgedPolicy
<1>2. CASE p # NoPolicy
  <2>1. p \in Policy /\ p.status \in Status
    BY <1>2 DEF MaybePolicy, Policy
  <2>2. Aged(p.status) \in Status /\ Keeps(p.status, Aged(p.status))
    BY <2>1 DEF Aged, Keeps, Status
  <2>3. AgedPolicy(p) = [p EXCEPT !.status = Aged(p.status)]
    BY <1>2 DEF AgedPolicy
  <2>4. AgedPolicy(p) \in Policy /\ AgedPolicy(p).status = Aged(p.status)
    BY <2>1, <2>2, <2>3 DEF Policy
  <2> QED BY <1>2, <2>1, <2>2, <2>4, NoPolicyAssumption
<1> QED
  BY <1>1, <1>2

LEMMA CooldownLife ==
  ASSUME IInv, LifeInv, CooldownElapses
  PROVE  Implements
<1>1. /\ store' = AgedPolicy(store) /\ obj' = [r \in Replica |-> AgedPolicy(obj[r])]
      /\ UNCHANGED <<current, pc, updates>>
  BY DEF CooldownElapses, eksVars
<1>2. store \in MaybePolicy /\ \A r \in Replica : obj[r] \in MaybePolicy
  BY DEF IInv, PlaneInv, ProcInv, TruthfulCopy
<1>3. ASSUME NEW r \in Replica PROVE BasedOnStore(r)'
  <2> SUFFICES ASSUME current[r], pc[r] \in Reading \cup Writing PROVE BasedOnStore(r)'
    BY <1>1 DEF BasedOnStore
  <2>1. store # NoPolicy /\ obj[r] # NoPolicy
    BY DEF IInv, Existing, Working, Reading, Writing
  <2>2. /\ store'.status = Aged(store.status) /\ obj'[r].status = Aged(obj[r].status)
        /\ Keeps(store.status, Aged(store.status)) /\ Keeps(obj[r].status, Aged(obj[r].status))
    BY <1>1, <1>2, <2>1, AgedStatus
  <2>3. Follows(store.status, obj[r].status, updates) =>
          Follows(store'.status, obj'[r].status, updates)
    BY <2>2 DEF Follows, Keeps, TakesUp, Ends, Assesses
  <2> QED BY <1>1, <2>2, <2>3 DEF LifeInv, BasedOnStore
<1>4. CASE store = NoPolicy
  <2>1. UNCHANGED <<store, updates>>
    BY <1>1, <1>4 DEF AgedPolicy
  <2> QED BY <1>3, <2>1, QuietLife
<1>5. CASE store # NoPolicy
  <2>1. store' # NoPolicy /\ store'.status \in Status /\ Keeps(store.status, store'.status)
    BY <1>1, <1>2, <1>5, AgedStatus
  <2> QED BY <1>1, <1>3, <1>5, <2>1, WriteLife DEF Follows
<1> QED
  BY <1>4, <1>5

\* The informer, the queue's timer, replicas that start and stop, and AWS.
LEMMA ElsewhereLife ==
  ASSUME IInv, LifeInv,
         \/ UNCHANGED vars \/ StartAfterPasses \/ AWSMoves
         \/ \E r \in Replica : Informer(r) \/ Timer(r) \/ BootReplica(r)
  PROVE  Implements
<1>1. UNCHANGED <<store, updates, current, pc, obj>>
  BY DEF vars, StartAfterPasses, AWSMoves, NewRelease, UpgradeCluster, Informer, Deliver,
         Timer, Fire, BootReplica, Boot, eksVars, planeVars, procVars
<1> QED
  BY <1>1, QuietLife DEF Stays

LEMMA CrashLife ==
  ASSUME IInv, LifeInv, NEW r \in Replica, Crash(r)
  PROVE  Implements
<1>1. /\ current' = [current EXCEPT ![r] = FALSE] /\ pc' = [pc EXCEPT ![r] = "idle"]
      /\ obj' = [obj EXCEPT ![r] = NoPolicy] /\ UNCHANGED <<store, updates>>
  BY DEF Crash, Halt, Forget, Goto, eksVars
<1>2. \A s \in Replica : Stays(s)
  BY <1>1 DEF Stays, IInv, PlaneInv, ProcInv
<1> QED
  BY <1>1, <1>2, QuietLife

------------------------------------------------------------------------------
LEMMA InitLife ==
  ASSUME IInv, Init
  PROVE  LifeInv /\ Lifecycle!Init
<1>1. PICK spec \in Specs : store = Fresh(spec)
  BY DEF Init, PlaneInit
<1>2. store # NoPolicy
  BY <1>1, SpecsAssumption, FreshCopy
<1>3. store.status.upgradeStatus = "" /\ store.status.updateID = NoUpdate
  BY <1>1 DEF Fresh, EmptyStatus
<1>4. updates = [id \in UpdateId |-> NotIssued]
  BY DEF Init, EKSInit
<1>5. \A id \in UpdateId : updates[id].status = "None"
  BY <1>4 DEF NotIssued
<1>6. LifeInv
  <2>1. InOrder
    BY <1>5 DEF InOrder
  <2>2. Named
    BY <1>3 DEF Named
  <2>3. \A r \in Replica : BasedOnStore(r)
    BY DEF BasedOnStore, Init, PlaneInit
  <2> QED BY <2>1, <2>2, <2>3 DEF LifeInv
<1>7. Phase = "new" /\ StoreId = NoUpdate
  BY <1>2, <1>3 DEF Phase, StoreId
<1>8. Ups = [u \in UpdateId |-> "None"]
  BY <1>5 DEF Ups
<1> QED
  BY <1>6, <1>7, <1>8 DEF Lifecycle!Init, StoreId, Ups

LEMMA NextLife ==
  ASSUME IInv, IInv', LifeInv, [Next]_vars
  PROVE  Implements
<1>1. ASSUME NEW r \in Replica, Reconcile(r) PROVE Implements
  BY <1>1, ReadingLife, FinalizerLife, ProcessLife, WritingLife DEF Reconcile
<1>2. ASSUME NEW id \in UpdateId, UpdateEnds(id) PROVE Implements
  BY <1>2, EKSLife DEF UpdateEnds, planeVars, procVars
<1> QED
  BY <1>1, <1>2, ElsewhereLife, CrashLife, CooldownLife, SomebodyLife DEF Next

\* The operator keeps the promise of UpgradeLifecycle whoever reconciles and
\* whatever is lost: a policy takes up each update once and in order, and lets
\* go of it with the outcome EKS gave it (ProcessUpgrade and the optimistic
\* lock of its Status().Update).
THEOREM ImplementsLifecycle == Spec => FollowsLifecycle
<1>1. Init => IInv
  BY InitInv
<1>2. IInv /\ Init => LifeInv /\ Lifecycle!Init
  BY InitLife
<1>3. IInv /\ IInv' /\ LifeInv /\ [Next]_vars => LifeInv' /\ [Lifecycle!Next]_(Lifecycle!vars)
  BY NextLife DEF Implements
<1> QED
  BY <1>1, <1>2, <1>3, Invariant, PTL DEF Spec, FollowsLifecycle, Lifecycle!Spec
=============================================================================
