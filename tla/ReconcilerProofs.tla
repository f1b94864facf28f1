-------------------------- MODULE ReconcilerProofs --------------------------
(***************************************************************************)
(* Theorems about Reconciler for every set of replicas, every bound and    *)
(* every kind of fault.                                                    *)
(***************************************************************************)
EXTENDS Reconciler, SequenceTheorems, TLAPS

(***************************************************************************)
(* The inductive invariant.  ReportedOutcome speaks of the stored object,  *)
(* but a status travels: the informer carries it to a cache, Start takes   *)
(* it into a working copy, and a write brings it back.  So the invariant   *)
(* says of every copy, wherever it is, that it is truthful, and what ties  *)
(* the copies together: a cache with nothing left to see is the store.     *)
(***************************************************************************)

\* What a status may say of its update when EKS's updates are `ups`.
Truthful(status, ups) ==
  status.updateID # NoUpdate =>
    /\ ups[status.updateID].status # "None"
    /\ ups[status.updateID].owner = "operator"
    /\ status.updateStatus \in Outcome =>
         ups[status.updateID].status = status.updateStatus
    /\ status.updateStatus \in {"Failed", "Cancelled"} => status.updateErrors = status.updateID
    /\ status.updateStatus = "Successful" => status.updateErrors = NoUpdate
    /\ status.upgradeStatus = "Succeeded" /\ status.currentAmi # status.targetAmi =>
         ups[status.updateID].status = "Successful"

TruthfulStatus(ups) == {status \in Status : Truthful(status, ups)}

TruthfulCopy(ups) == {p \in MaybePolicy : p # NoPolicy => Truthful(p.status, ups)}

\* EKS only ever runs updates to releases of the family.
EKSInv ==
  /\ EKSTypeOK
  /\ \A id \in UpdateId : updates[id].status # "None" => updates[id].target \in Release

PlaneInv ==
  /\ store \in TruthfulCopy(updates)
  /\ active \in [Replica -> BOOLEAN]
  /\ cache \in [Replica -> TruthfulCopy(updates)]
  /\ watch \in [Replica -> Seq(TruthfulCopy(updates))]
  /\ queued \in [Replica -> BOOLEAN]
  /\ wait \in [Replica -> Wait]
  /\ current \in [Replica -> BOOLEAN]

\* The informer of a running replica has yet to see nothing but what leads to
\* the store; a stopped replica has nothing.
InSync ==
  \A r \in Replica :
    /\ active[r] => IF watch[r] = <<>> THEN cache[r] = store
                                       ELSE watch[r][Len(watch[r])] = store
    /\ ~active[r] => watch[r] = <<>> /\ ~queued[r]

ProcInv ==
  /\ pc \in [Replica -> Label]
  /\ obj \in [Replica -> TruthfulCopy(updates)]
  /\ ngSeen \in [Replica -> Release \cup {NoRelease}]
  /\ minorSeen \in [Replica -> Minor]
  /\ latestSeen \in [Replica -> Release \cup {NoRelease}]

\* A worker at work has a copy of the object.
Working ==
  \A r \in Replica : pc[r] # "idle" => active[r] /\ obj[r] # NoPolicy

\* A current copy is a copy of an object that exists.
Existing == \A r \in Replica : current[r] => store # NoPolicy

BudgetInv ==
  /\ started \in BOOLEAN
  /\ attempts \in 0..2
  /\ faults \in 0..MaxFaults
  /\ edits \in 0..MaxEdits

IInv == EKSInv /\ PlaneInv /\ InSync /\ ProcInv /\ Working /\ Existing /\ BudgetInv

------------------------------------------------------------------------------
\* Sequences of copies.

\* An appended element is the last one.
LEMMA AppendSeq ==
  ASSUME NEW S, NEW s \in Seq(S), NEW e \in S
  PROVE  /\ Append(s, e) \in Seq(S)
         /\ Append(s, e) # <<>>
         /\ Append(s, e)[Len(Append(s, e))] = e
OBVIOUS

\* Taking the first element leaves the last one, unless it was the last.
LEMMA TailSeq ==
  ASSUME NEW S, NEW s \in Seq(S), s # <<>>
  PROVE  /\ Head(s) \in S
         /\ Tail(s) \in Seq(S)
         /\ Tail(s) = <<>> => Head(s) = s[Len(s)]
         /\ Tail(s) # <<>> => Tail(s)[Len(Tail(s))] = s[Len(s)]
<1>1. /\ Head(s) \in S
      /\ Tail(s) \in Seq(S)
      /\ Len(Tail(s)) = Len(s) - 1
      /\ \A i \in 1..Len(Tail(s)) : Tail(s)[i] = s[i + 1]
  BY HeadTailProperties
<1>2. Len(s) \in Nat \ {0}
  BY EmptySeq
<1>3. ASSUME Tail(s) = <<>> PROVE Len(s) = 1
  <2>1. Len(Tail(s)) = 0
    BY <1>3, EmptySeq
  <2>2. Len(s) - 1 = 0
    BY <1>1, <2>1
  <2> QED
    BY <1>2, <2>2
<1>4. Head(s) = s[1]
  OBVIOUS
<1>5. Tail(s) # <<>> => Len(Tail(s)) \in 1..Len(Tail(s))
  BY <1>1, EmptySeq
<1> QED
  BY <1>1, <1>2, <1>3, <1>4, <1>5

\* A function on a sequence's domain is a sequence as long.
LEMMA MapSeq ==
  ASSUME NEW S, NEW T, NEW s \in Seq(S), NEW t \in [DOMAIN s -> T]
  PROVE  /\ t \in Seq(T)
         /\ Len(t) = Len(s)
         /\ t = <<>> <=> s = <<>>
OBVIOUS

------------------------------------------------------------------------------
\* Copies and what the code does to them.

\* A copy that is not NoPolicy is a policy with a truthful status.
LEMMA CopyOfPolicy ==
  ASSUME NEW ups, NEW p \in TruthfulCopy(ups), p # NoPolicy
  PROVE  p \in Policy /\ p.status \in TruthfulStatus(ups)
BY DEF TruthfulCopy, TruthfulStatus, MaybePolicy, Policy

\* A copy with another truthful status is a copy.
LEMMA CopyWithStatus ==
  ASSUME NEW ups, NEW p \in TruthfulCopy(ups), p # NoPolicy,
         NEW status \in TruthfulStatus(ups)
  PROVE  /\ [p EXCEPT !.status = status] \in TruthfulCopy(ups)
         /\ [p EXCEPT !.status = status] # NoPolicy
BY NoPolicyAssumption, CopyOfPolicy DEF TruthfulCopy, TruthfulStatus, MaybePolicy, Policy

\* A finalizer, a deletion or an edit leaves a copy truthful.
LEMMA CopyWithMeta ==
  ASSUME NEW ups, NEW p \in TruthfulCopy(ups), p # NoPolicy, NEW spec \in PolicySpec
  PROVE  /\ [p EXCEPT !.finalizer = TRUE] \in TruthfulCopy(ups) \ {NoPolicy}
         /\ [p EXCEPT !.deleting = TRUE] \in TruthfulCopy(ups) \ {NoPolicy}
         /\ [p EXCEPT !.spec = spec] \in TruthfulCopy(ups) \ {NoPolicy}
<1> DEFINE f == [p EXCEPT !.finalizer = TRUE]
           d == [p EXCEPT !.deleting = TRUE]
           e == [p EXCEPT !.spec = spec]
<1>1. p \in Policy
  BY CopyOfPolicy
<1>2. f \in Policy /\ d \in Policy /\ e \in Policy
  BY <1>1 DEF Policy
<1>3. f.status = p.status /\ d.status = p.status /\ e.status = p.status
  BY <1>1 DEF Policy
<1> QED
  BY <1>2, <1>3, NoPolicyAssumption DEF TruthfulCopy, MaybePolicy

\* A created object names no update.
LEMMA FreshCopy ==
  ASSUME NEW ups, NEW spec \in PolicySpec
  PROVE  Fresh(spec) \in TruthfulCopy(ups) \ {NoPolicy}
<1>1. EmptyStatus \in Status
  BY DEF EmptyStatus, Status
<1>2. Fresh(spec) \in Policy
  BY <1>1 DEF Fresh, Policy
<1>3. Truthful(Fresh(spec).status, ups)
  BY DEF Fresh, EmptyStatus, Truthful
<1> QED
  BY <1>2, <1>3, NoPolicyAssumption DEF TruthfulCopy, MaybePolicy

\* Six hours passing leaves a copy truthful.
LEMMA AgedCopy ==
  ASSUME NEW ups, NEW p \in TruthfulCopy(ups)
  PROVE  /\ AgedPolicy(p) \in TruthfulCopy(ups)
         /\ AgedPolicy(p) = NoPolicy <=> p = NoPolicy
<1>1. CASE p = NoPolicy
  BY <1>1 DEF AgedPolicy
<1>2. CASE p # NoPolicy
  <2>1. p.status \in TruthfulStatus(ups)
    BY <1>2, CopyOfPolicy
  <2>2. Aged(p.status) \in TruthfulStatus(ups)
    <3>1. p.status \in Status /\ Truthful(p.status, ups)
      BY <2>1 DEF TruthfulStatus
    <3>2. Aged(p.status) \in Status
      BY <3>1 DEF Aged, Status
    <3>3. /\ Aged(p.status).updateID = p.status.updateID
          /\ Aged(p.status).updateStatus = p.status.updateStatus
          /\ Aged(p.status).updateErrors = p.status.updateErrors
          /\ Aged(p.status).upgradeStatus = p.status.upgradeStatus
          /\ Aged(p.status).currentAmi = p.status.currentAmi
          /\ Aged(p.status).targetAmi = p.status.targetAmi
      BY <3>1 DEF Aged, Status
    <3>4. Truthful(Aged(p.status), ups)
      BY <3>1, <3>3 DEF Truthful
    <3> QED BY <3>2, <3>4 DEF TruthfulStatus
  <2>3. AgedPolicy(p) = [p EXCEPT !.status = Aged(p.status)]
    BY <1>2 DEF AgedPolicy
  <2> QED
    BY <1>2, <2>2, <2>3, CopyWithStatus
<1> QED
  BY <1>1, <1>2

\* ProcessUpgrade up to its write: every branch keeps a status truthful.
LEMMA TrackTruthful ==
  ASSUME NEW ups \in [UpdateId -> Update], NEW status \in TruthfulStatus(ups),
         InFlight(status),
         NEW cur \in Release \cup {NoRelease}, NEW lat \in Release \cup {NoRelease}
  PROVE  /\ TrackInFlightUpdate(BeginProcess(status, cur, lat), ups[status.updateID].status)
              \in TruthfulStatus(ups)
         /\ BeginProcess(status, cur, lat) \in TruthfulStatus(ups)
<1> DEFINE begun == BeginProcess(status, cur, lat)
           reported == ups[status.updateID].status
           tracked == TrackInFlightUpdate(begun, reported)
<1>1. status.updateID \in UpdateId
  BY DEF InFlight, TruthfulStatus, Status
<1>2. reported \in {"InProgress"} \cup Outcome
  BY <1>1 DEF InFlight, TruthfulStatus, Truthful, Update
<1>3. begun \in TruthfulStatus(ups)
  <2>1. status \in Status /\ Truthful(status, ups)
    BY DEF TruthfulStatus
  <2>2. begun \in Status
    BY <2>1 DEF BeginProcess, Status
  <2>3. /\ begun.updateID = status.updateID
        /\ begun.updateStatus = status.updateStatus
        /\ begun.updateErrors = status.updateErrors
        /\ begun.upgradeStatus = status.upgradeStatus
    BY <2>1 DEF BeginProcess, Status
  <2>4. begun.upgradeStatus # "Succeeded"
    BY <2>3 DEF InFlight
  <2>5. Truthful(begun, ups)
    BY <2>1, <2>3, <2>4 DEF Truthful
  <2> QED BY <2>2, <2>5 DEF TruthfulStatus
<1>4. tracked \in Status
  <2>1. begun \in Status
    BY <1>3 DEF TruthfulStatus
  <2> DEFINE phase == CASE reported = "Successful" -> "Succeeded"
                        [] reported \in {"Failed", "Cancelled"} -> "Failed"
                        [] OTHER -> begun.upgradeStatus
             errors == CASE reported = "Successful" -> NoUpdate
                         [] reported \in {"Failed", "Cancelled"} -> begun.updateID
                         [] OTHER -> begun.updateErrors
  <2>2. tracked = [begun EXCEPT !.updateStatus = reported, !.upgradeStatus = phase,
                                !.updateErrors = errors]
    BY DEF TrackInFlightUpdate
  <2>3. /\ phase \in {"Succeeded", "Failed", begun.upgradeStatus}
        /\ errors \in {NoUpdate, begun.updateID, begun.updateErrors}
    OBVIOUS
  <2> HIDE DEF tracked, begun, reported, phase, errors
  <2> QED BY <1>2, <2>1, <2>2, <2>3 DEF Status, Outcome
<1>5. /\ tracked.updateID = status.updateID
      /\ tracked.updateStatus = reported
      /\ reported \in {"Failed", "Cancelled"} => tracked.updateErrors = status.updateID
      /\ reported = "Successful" => tracked.updateErrors = NoUpdate
      /\ tracked.upgradeStatus = "Succeeded" => reported = "Successful"
  BY <1>3 DEF TrackInFlightUpdate, BeginProcess, TruthfulStatus, Status, InFlight
<1>6. Truthful(tracked, ups)
  BY <1>5 DEF Truthful, TruthfulStatus, InFlight
<1> QED
  BY <1>3, <1>4, <1>6 DEF TruthfulStatus

\* The branches of handleNotInFlight that start no update, and the unsupported
\* AL2 branch of resolveLatestOrRequeue, keep a status truthful.
LEMMA AssessTruthful ==
  ASSUME NEW ups, NEW status \in TruthfulStatus(ups),
         NEW cur \in Release \cup {NoRelease}, NEW lat \in Release \cup {NoRelease}
  PROVE  /\ cur = lat => Compliant(BeginProcess(status, cur, lat)) \in TruthfulStatus(ups)
         /\ SkipUpgrade(BeginProcess(status, cur, lat)) \in TruthfulStatus(ups)
         /\ InitiationFailed(BeginProcess(status, cur, lat)) \in TruthfulStatus(ups)
         /\ UnsupportedAMI(status) \in TruthfulStatus(ups)
<1>1. cur = lat => Compliant(BeginProcess(status, cur, lat)) \in TruthfulStatus(ups)
  BY DEF Compliant, BeginProcess, TruthfulStatus, Truthful, Status
<1>2. SkipUpgrade(BeginProcess(status, cur, lat)) \in TruthfulStatus(ups)
  BY DEF SkipUpgrade, BeginProcess, TruthfulStatus, Truthful, Status
<1>3. InitiationFailed(BeginProcess(status, cur, lat)) \in TruthfulStatus(ups)
  BY DEF InitiationFailed, BeginProcess, TruthfulStatus, Truthful, Status
<1>4. UnsupportedAMI(status) \in TruthfulStatus(ups)
  BY DEF UnsupportedAMI, TruthfulStatus, Truthful, Status
<1> QED
  BY <1>1, <1>2, <1>3, <1>4

\* The record of an update just started is truthful: it claims no outcome yet.
LEMMA InitiatedTruthful ==
  ASSUME NEW ups, NEW status \in TruthfulStatus(ups), NEW id \in UpdateId,
         ups[id].status = "InProgress", ups[id].owner = "operator",
         NEW cur \in Release \cup {NoRelease}, NEW lat \in Release \cup {NoRelease}
  PROVE  Initiated(BeginProcess(status, cur, lat), id) \in TruthfulStatus(ups)
BY DEF Initiated, BeginProcess, TruthfulStatus, Truthful, Status, Outcome

\* EKS never takes back what it has said of an update.
LEMMA TruthLasts ==
  ASSUME NEW ups, NEW later,
         \A id \in UpdateId :
           ups[id].status # "None" =>
             /\ later[id].status # "None"
             /\ later[id].owner = ups[id].owner
             /\ ups[id].status \in Outcome => later[id].status = ups[id].status
  PROVE  /\ TruthfulStatus(ups) \subseteq TruthfulStatus(later)
         /\ TruthfulCopy(ups) \subseteq TruthfulCopy(later)
<1>1. ASSUME NEW status \in Status, Truthful(status, ups)
      PROVE  Truthful(status, later)
  BY <1>1 DEF Truthful, Status, Outcome
<1> QED
  BY <1>1 DEF TruthfulStatus, TruthfulCopy, MaybePolicy, Policy

\* An update starting takes back nothing that was said of others.
LEMMA StartUpdateLasts ==
  ASSUME EKSInv, NEW id \in UpdateId, NEW release,
         NEW owner \in {"operator", "other"}, StartUpdate(id, release, owner)
  PROVE  /\ EKSInv'
         /\ updates'[id].status = "InProgress"
         /\ updates'[id].owner = owner
         /\ TruthfulStatus(updates) \subseteq TruthfulStatus(updates')
         /\ TruthfulCopy(updates) \subseteq TruthfulCopy(updates')
<1>1. EKSInv' /\ updates'[id].status = "InProgress" /\ updates'[id].owner = owner
  BY DEF EKSInv, EKSTypeOK, StartUpdate, Update
<1>2. \A other \in UpdateId : updates[other].status # "None" => updates'[other] = updates[other]
  BY DEF EKSInv, EKSTypeOK, StartUpdate, NextId
<1>3. \A other \in UpdateId :
        updates[other].status # "None" =>
          /\ updates'[other].status # "None"
          /\ updates'[other].owner = updates[other].owner
          /\ updates[other].status \in Outcome => updates'[other].status = updates[other].status
  BY <1>2
<1> QED
  BY <1>1, <1>3, TruthLasts

\* An update ending takes back nothing: it had no outcome.
LEMMA CompleteUpdateLasts ==
  ASSUME EKSInv, NEW id \in UpdateId, NEW outcome \in Outcome,
         CompleteUpdate(id, outcome)
  PROVE  /\ EKSInv'
         /\ TruthfulCopy(updates) \subseteq TruthfulCopy(updates')
<1>1. EKSInv'
  <2>1. updates[id].target \in Release
    BY DEF EKSInv, CompleteUpdate
  <2>2. updates' \in [UpdateId -> Update]
    BY DEF EKSInv, EKSTypeOK, CompleteUpdate, Update
  <2>3. ngRelease' \in Release /\ latest' \in Release /\ minor' \in Minor
    BY <2>1 DEF EKSInv, EKSTypeOK, CompleteUpdate
  <2>4. \A other \in UpdateId :
          updates'[other].status # "None" => updates'[other].target \in Release
    BY DEF EKSInv, EKSTypeOK, CompleteUpdate, Update
  <2> QED
    BY <2>2, <2>3, <2>4 DEF EKSInv, EKSTypeOK
<1>2. \A other \in UpdateId :
        updates[other].status # "None" =>
          /\ updates'[other].status # "None"
          /\ updates'[other].owner = updates[other].owner
          /\ updates[other].status \in Outcome => updates'[other].status = updates[other].status
  BY DEF EKSInv, EKSTypeOK, CompleteUpdate, Update, Outcome
<1> QED
  BY <1>1, <1>2, TruthLasts

------------------------------------------------------------------------------
\* What the pieces that handlers share preserve.

\* Having no copy claims nothing.
LEMMA NoPolicyIsTruthful ==
  ASSUME NEW ups
  PROVE  NoPolicy \in TruthfulCopy(ups)
BY DEF TruthfulCopy, MaybePolicy

\* The delaying queue's choice is one of the two delays.
LEMMA EarliestWait ==
  ASSUME NEW a \in Wait, NEW b \in Wait
  PROVE  Earliest(a, b) \in Wait
BY DEF Earliest

\* Asking to be called again keeps the timers well typed.
LEMMA RequeueWait ==
  ASSUME PlaneInv, NEW r \in Replica, NEW delay \in Wait, Requeue(r, delay)
  PROVE  wait' \in [Replica -> Wait]
BY EarliestWait DEF PlaneInv, Requeue

\* Storing a truthful object and telling the informers keeps the plane in order.
LEMMA PublishInv ==
  ASSUME PlaneInv, InSync, NEW new \in TruthfulCopy(updates), NEW holders,
         Publish(new, holders), holders = {} \/ new # NoPolicy,
         UNCHANGED <<updates, active, cache, queued>>,
         wait' \in [Replica -> Wait]
  PROVE  PlaneInv' /\ InSync' /\ Existing'
<1>1. store' = new /\ store' \in TruthfulCopy(updates)
  BY DEF Publish
<1>2. current' \in [Replica -> BOOLEAN]
  BY DEF Publish
<1>3. \A r \in Replica : watch[r] \in Seq(TruthfulCopy(updates))
  BY DEF PlaneInv
<1>4. \A r \in Replica : Append(watch[r], new) \in Seq(TruthfulCopy(updates))
  BY <1>3, AppendSeq
<1>5. watch' \in [Replica -> Seq(TruthfulCopy(updates))]
  BY <1>4 DEF Publish
<1>6. PlaneInv'
  BY <1>1, <1>2, <1>5 DEF PlaneInv
<1>7. InSync'
  <2> SUFFICES ASSUME NEW r \in Replica
               PROVE  /\ active[r] => IF watch'[r] = <<>> THEN cache[r] = new
                                        ELSE watch'[r][Len(watch'[r])] = new
                      /\ ~active[r] => watch'[r] = <<>> /\ ~queued[r]
    BY <1>1 DEF InSync
  <2>1. CASE active[r]
    <3>1. watch'[r] = Append(watch[r], new)
      BY <2>1 DEF Publish
    <3>2. watch'[r] # <<>> /\ watch'[r][Len(watch'[r])] = new
      BY <3>1, <1>3, AppendSeq
    <3> QED
      BY <2>1, <3>2
  <2>2. CASE ~active[r]
    BY <2>2 DEF Publish, InSync
  <2> QED
    BY <2>1, <2>2
<1>8. Existing'
  BY <1>1 DEF Existing, Publish
<1> QED
  BY <1>6, <1>7, <1>8

\* A worker that has returned holds nothing.
LEMMA ForgetInv ==
  ASSUME ProcInv, Working, MinMinor \in Minor, NEW r \in Replica, Forget(r),
         UNCHANGED <<updates, active>>
  PROVE  ProcInv' /\ Working'
<1>1. ProcInv'
  BY NoPolicyIsTruthful DEF ProcInv, Forget, Goto, Label
<1>2. Working'
  BY DEF ProcInv, Working, Forget, Goto
<1> QED
  BY <1>1, <1>2

\* A worker that lets its resourceVersion go disturbs nothing.
LEMMA LetGoInv ==
  ASSUME PlaneInv, InSync, Existing, NEW r \in Replica, LetGo(r),
         UNCHANGED <<updates, active, cache, queued>>,
         wait' \in [Replica -> Wait]
  PROVE  PlaneInv' /\ InSync' /\ Existing'
BY DEF PlaneInv, InSync, Existing, LetGo

\* The plane stays in order while only EKS moves.
LEMMA PlaneSame ==
  ASSUME PlaneInv, InSync, Existing, UNCHANGED planeVars,
         TruthfulCopy(updates) \subseteq TruthfulCopy(updates')
  PROVE  PlaneInv' /\ InSync' /\ Existing'
<1>1. Seq(TruthfulCopy(updates)) \subseteq Seq(TruthfulCopy(updates'))
  BY SeqMonotonic
<1>2. PlaneInv'
  BY <1>1 DEF PlaneInv, planeVars
<1>3. InSync' /\ Existing'
  BY DEF InSync, Existing, planeVars
<1> QED
  BY <1>2, <1>3

\* So do the workers.
LEMMA ProcSame ==
  ASSUME ProcInv, Working, UNCHANGED <<procVars, active>>,
         TruthfulCopy(updates) \subseteq TruthfulCopy(updates')
  PROVE  ProcInv' /\ Working'
BY DEF ProcInv, Working, procVars

\* EKS stays as it is.
LEMMA EKSSame ==
  ASSUME EKSInv, UNCHANGED eksVars
  PROVE  EKSInv'
BY DEF EKSInv, EKSTypeOK, eksVars

\* A failure stays within the budget.
LEMMA FailBudget ==
  ASSUME BudgetInv, UNCHANGED <<clockVars, edits>>,
         (\E kind \in FaultKinds : Fail(kind)) \/ UNCHANGED faults
  PROVE  BudgetInv'
BY FaultAssumption DEF BudgetInv, Fail, clockVars

\* A return before the first write keeps the invariant.
LEMMA ReturnInv ==
  ASSUME IInv, NEW r \in Replica, NEW delay \in Wait, Return(r, delay), UNCHANGED edits,
         (\E kind \in FaultKinds : Fail(kind)) \/ UNCHANGED faults
  PROVE  IInv'
<1>1. EKSInv' /\ UNCHANGED updates
  BY EKSSame DEF IInv, Return, eksVars
<1>2. wait' \in [Replica -> Wait]
  BY RequeueWait DEF IInv, Return
<1>3. PlaneInv' /\ InSync' /\ Existing'
  BY <1>1, <1>2, LetGoInv DEF IInv, Return
<1>4. ProcInv' /\ Working'
  BY <1>1, ForgetInv, MinorAssumption DEF IInv, Return, Minor
<1>5. BudgetInv'
  BY FailBudget DEF IInv, Return
<1> QED
  BY <1>1, <1>3, <1>4, <1>5 DEF IInv

\* A handler that ends with a write.
LEMMA WriteInv ==
  ASSUME IInv, NEW r \in Replica, NEW delay \in Wait, NEW new \in TruthfulCopy(updates),
         Publish(new, {}), Forget(r), Requeue(r, delay),
         UNCHANGED <<eksVars, active, cache, queued, clockVars, edits>>,
         (\E kind \in FaultKinds : Fail(kind)) \/ UNCHANGED faults
  PROVE  IInv'
<1>1. EKSInv' /\ UNCHANGED updates
  BY EKSSame DEF IInv, eksVars
<1>2. wait' \in [Replica -> Wait]
  BY RequeueWait DEF IInv
<1>3. PlaneInv' /\ InSync' /\ Existing'
  BY <1>1, <1>2, PublishInv DEF IInv
<1>4. ProcInv' /\ Working'
  BY <1>1, ForgetInv, MinorAssumption DEF IInv, Minor
<1>5. BudgetInv'
  BY FailBudget DEF IInv
<1> QED
  BY <1>1, <1>3, <1>4, <1>5 DEF IInv

\* A step of a worker that changes only where it is, what it has read, and its
\* working copy.
LEMMA LocalInv ==
  ASSUME IInv, NEW r \in Replica, pc[r] # "idle", NEW label \in Label, Goto(r, label),
         obj' = obj \/ (\E p \in TruthfulCopy(updates) \ {NoPolicy} : obj' = [obj EXCEPT ![r] = p]),
         ngSeen' \in [Replica -> Release \cup {NoRelease}],
         minorSeen' \in [Replica -> Minor],
         latestSeen' \in [Replica -> Release \cup {NoRelease}],
         UNCHANGED <<eksVars, planeVars, clockVars, edits>>,
         (\E kind \in FaultKinds : Fail(kind)) \/ UNCHANGED faults
  PROVE  IInv'
<1>1. EKSInv' /\ UNCHANGED updates
  BY EKSSame DEF IInv, eksVars
<1>2. PlaneInv' /\ InSync' /\ Existing'
  BY <1>1, PlaneSame DEF IInv
<1>3. ProcInv' /\ Working'
  <2>1. pc' \in [Replica -> Label] /\ obj' \in [Replica -> TruthfulCopy(updates)]
    BY DEF IInv, ProcInv, Goto
  <2>2. ASSUME NEW x \in Replica, pc'[x] # "idle"
        PROVE  active[x] /\ obj'[x] # NoPolicy
    BY <2>2 DEF IInv, ProcInv, Working, Goto
  <2> QED
    BY <1>1, <2>1, <2>2 DEF ProcInv, Working, planeVars
<1>4. BudgetInv'
  BY FailBudget DEF IInv
<1> QED
  BY <1>1, <1>2, <1>3, <1>4 DEF IInv

------------------------------------------------------------------------------
\* The steps of a worker.

\* The steps from the cache read to ResolveLatestAMI keep the invariant.
LEMMA ReadingInv ==
  ASSUME IInv, NEW r \in Replica,
         \/ Start(r) \/ Paused(r) \/ MalformedStartAfter(r) \/ Skip(r)
         \/ NotDue(r) \/ Proceed(r) \/ ClientsError(r)
         \/ DescribeNodegroup(r) \/ DescribeNodegroupError(r)
         \/ DescribeCluster(r) \/ DescribeClusterError(r)
         \/ ResolveLatest(r) \/ ResolveUnsupported(r) \/ ResolveError(r)
  PROVE  IInv'
<1>1. CASE Start(r)
  <2>1. EKSInv' /\ UNCHANGED updates
    BY <1>1, EKSSame DEF IInv, Start, eksVars
  <2>2. CASE cache[r] = NoPolicy \/ AfterGet(cache[r]) = "idle"
    BY <1>1, <2>1, <2>2
       DEF IInv, Start, PlaneInv, InSync, ProcInv, Working, Existing, BudgetInv, clockVars
  <2>3. CASE ~(cache[r] = NoPolicy \/ AfterGet(cache[r]) = "idle")
    <3>1. active[r]
      BY <1>1 DEF IInv, Start, InSync, PlaneInv
    <3>2. PlaneInv' /\ InSync'
      BY <1>1, <2>1, <2>3 DEF IInv, Start, PlaneInv, InSync
    <3>3. Existing'
      BY <1>1, <2>3, <3>1 DEF IInv, Start, PlaneInv, InSync, Existing
    <3>4. AfterGet(cache[r]) \in Label
      BY DEF AfterGet, Label
    <3>5. ProcInv'
      <4>1. pc' \in [Replica -> Label]
        BY <1>1, <2>3, <3>4 DEF IInv, Start, ProcInv, Goto
      <4>2. obj' \in [Replica -> TruthfulCopy(updates)]
        <5>1. obj' = [obj EXCEPT ![r] = cache[r]]
          BY <1>1, <2>3 DEF Start
        <5>2. cache[r] \in TruthfulCopy(updates)
          BY DEF IInv, PlaneInv
        <5> QED
          BY <5>1, <5>2 DEF IInv, ProcInv
      <4> QED
        BY <1>1, <2>1, <4>1, <4>2 DEF IInv, Start, ProcInv
    <3>6. Working'
      BY <1>1, <2>3, <3>1 DEF IInv, Start, PlaneInv, ProcInv, Working, Goto
    <3> QED
      BY <1>1, <2>1, <3>2, <3>3, <3>5, <3>6 DEF IInv, BudgetInv, Start, clockVars
  <2> QED
    BY <2>2, <2>3
<1>2. CASE Paused(r) \/ MalformedStartAfter(r) \/ Skip(r)
  BY <1>2, ReturnInv DEF Paused, MalformedStartAfter, Skip, Wait
<1>3. CASE NotDue(r) \/ Proceed(r)
  BY <1>3, LocalInv DEF NotDue, Proceed, IInv, ProcInv, Label
<1>4. CASE ClientsError(r)
  BY <1>4, ReturnInv DEF ClientsError, Wait, FaultKinds
<1>5. CASE DescribeNodegroup(r)
  <2>1. ngSeen' \in [Replica -> Release \cup {NoRelease}]
    BY <1>5 DEF DescribeNodegroup, IInv, ProcInv, EKSInv, EKSTypeOK
  <2> QED
    BY <1>5, <2>1, LocalInv DEF DescribeNodegroup, IInv, ProcInv, Label
<1>6. CASE DescribeNodegroupError(r)
  BY <1>6, ReturnInv DEF DescribeNodegroupError, Wait, FaultKinds
<1>7. CASE DescribeCluster(r)
  <2>1. minorSeen' \in [Replica -> Minor]
    BY <1>7 DEF DescribeCluster, IInv, ProcInv, EKSInv, EKSTypeOK
  <2> QED
    BY <1>7, <2>1, LocalInv DEF DescribeCluster, IInv, ProcInv, Label
<1>8. CASE DescribeClusterError(r)
  BY <1>8, ReturnInv DEF DescribeClusterError, Wait, FaultKinds
<1>9. CASE ResolveLatest(r)
  <2>1. ResolvedRelease(AmiType, minorSeen[r], [family \in Family |-> latest], NoRelease)
          \in Release \cup {NoRelease}
    BY DEF ResolvedRelease, buildSSMPath, Family, NoFamily, IInv, EKSInv, EKSTypeOK
  <2>2. latestSeen' \in [Replica -> Release \cup {NoRelease}]
    BY <1>9, <2>1 DEF ResolveLatest, IInv, ProcInv
  <2> QED
    BY <1>9, <2>2, LocalInv DEF ResolveLatest, IInv, ProcInv, Label
<1>10. CASE ResolveUnsupported(r)
  <2>1. obj[r] \in TruthfulCopy(updates) /\ obj[r] # NoPolicy
    BY <1>10 DEF ResolveUnsupported, IInv, ProcInv, Working
  <2>2. UnsupportedAMI(obj[r].status) \in TruthfulStatus(updates)
    BY <2>1, CopyOfPolicy, AssessTruthful
  <2>3. [obj[r] EXCEPT !.status = UnsupportedAMI(obj[r].status)]
          \in TruthfulCopy(updates) \ {NoPolicy}
    BY <2>1, <2>2, CopyWithStatus
  <2>4. obj' = [obj EXCEPT ![r] = [obj[r] EXCEPT !.status = UnsupportedAMI(obj[r].status)]]
    BY <1>10 DEF ResolveUnsupported
  <2> QED
    BY <1>10, <2>3, <2>4, LocalInv DEF ResolveUnsupported, IInv, ProcInv, Label
<1>11. CASE ResolveError(r)
  BY <1>11, ReturnInv DEF ResolveError, Wait, FaultKinds
<1> QED
  BY <1>1, <1>2, <1>3, <1>4, <1>5, <1>6, <1>7, <1>8, <1>9, <1>10, <1>11

\* HandleFinalizer keeps the invariant.
LEMMA FinalizerInv ==
  ASSUME IInv, NEW r \in Replica,
         \/ RemoveFinalizer(r) \/ AddFinalizer(r)
         \/ AddFinalizerUnanswered(r) \/ FinalizerError(r)
  PROVE  IInv'
<1> DEFINE held == [store EXCEPT !.finalizer = TRUE]
<1>1. current[r] => held \in TruthfulCopy(updates) \ {NoPolicy}
  <2>1. ASSUME current[r]
        PROVE  store \in TruthfulCopy(updates) /\ store # NoPolicy /\ store.spec \in PolicySpec
    BY <2>1, CopyOfPolicy DEF IInv, PlaneInv, Existing, Policy
  <2> QED
    BY <2>1, CopyWithMeta
<1>2. CASE RemoveFinalizer(r)
  BY <1>2, WriteInv, NoPolicyIsTruthful DEF RemoveFinalizer, Wait, FaultKinds
<1>3. CASE AddFinalizer(r)
  <2>1. EKSInv' /\ UNCHANGED updates
    BY <1>3, EKSSame DEF IInv, AddFinalizer, eksVars
  <2>2. PlaneInv' /\ InSync' /\ Existing'
    <3>1. wait' \in [Replica -> Wait]
      BY <1>3 DEF AddFinalizer, IInv, PlaneInv
    <3> QED
      BY <1>1, <1>3, <2>1, <3>1, PublishInv DEF IInv, AddFinalizer
  <2>3. obj[r] \in TruthfulCopy(updates) /\ obj[r] # NoPolicy /\ active[r]
    BY <1>3 DEF AddFinalizer, IInv, ProcInv, Working
  <2>4. [obj[r] EXCEPT !.finalizer = TRUE] \in TruthfulCopy(updates) \ {NoPolicy}
    <3>1. obj[r].spec \in PolicySpec
      BY <2>3, CopyOfPolicy DEF Policy
    <3> QED
      BY <2>3, <3>1, CopyWithMeta
  <2>5. obj' = [obj EXCEPT ![r] = [obj[r] EXCEPT !.finalizer = TRUE]]
    BY <1>3 DEF AddFinalizer
  <2>6. ProcInv'
    BY <1>3, <2>1, <2>4, <2>5 DEF IInv, ProcInv, AddFinalizer, Goto, Label
  <2>7. Working'
    BY <1>3, <2>3, <2>4, <2>5 DEF IInv, ProcInv, Working, AddFinalizer, Goto
  <2>8. BudgetInv'
    BY <1>3, FailBudget DEF IInv, AddFinalizer
  <2> QED
    BY <2>1, <2>2, <2>6, <2>7, <2>8 DEF IInv
<1>4. CASE AddFinalizerUnanswered(r)
  BY <1>1, <1>4, WriteInv DEF AddFinalizerUnanswered, Wait, FaultKinds
<1>5. CASE FinalizerError(r)
  BY <1>5, ReturnInv DEF FinalizerError, Wait, FaultKinds
<1> QED
  BY <1>2, <1>3, <1>4, <1>5

\* Settle, for a status that is truthful once EKS has answered.
LEMMA SettleInv ==
  ASSUME IInv, NEW r \in Replica, pc[r] = "process",
         NEW status \in TruthfulStatus(updates'), Settle(r, status),
         EKSInv', TruthfulCopy(updates) \subseteq TruthfulCopy(updates'),
         attempts' \in 0..2,
         (\E kind \in FaultKinds : Fail(kind)) \/ UNCHANGED faults
  PROVE  IInv'
<1>1. PlaneInv' /\ InSync' /\ Existing'
  BY PlaneSame DEF IInv, Settle
<1>2. obj[r] \in TruthfulCopy(updates') /\ obj[r] # NoPolicy /\ active[r]
  BY DEF IInv, ProcInv, Working
<1>3. [obj[r] EXCEPT !.status = status] \in TruthfulCopy(updates') \ {NoPolicy}
  BY <1>2, CopyWithStatus
<1>4. obj' = [obj EXCEPT ![r] = [obj[r] EXCEPT !.status = status]]
  BY DEF Settle
<1>5. obj' \in [Replica -> TruthfulCopy(updates')]
  BY <1>3, <1>4 DEF IInv, ProcInv
<1>6. ProcInv'
  BY <1>5 DEF IInv, ProcInv, Settle, Goto, Label
<1>7. Working'
  BY <1>2, <1>3, <1>4 DEF IInv, ProcInv, Working, Settle, Goto, planeVars
<1>8. BudgetInv'
  BY FaultAssumption DEF IInv, BudgetInv, Settle, Fail
<1> QED
  BY <1>1, <1>6, <1>7, <1>8 DEF IInv

\* ProcessUpgrade up to its write keeps the invariant.
LEMMA ProcessInv ==
  ASSUME IInv, NEW r \in Replica,
         \/ Poll(r) \/ PollError(r) \/ Assess(r)
         \/ Initiate(r) \/ InitiateUnanswered(r) \/ InitiateRefused(r)
  PROVE  IInv'
<1>1. pc[r] = "process"
  BY DEF Poll, PollError, Assess, Initiate, InitiateUnanswered, InitiateRefused, Upgrades
<1>2. obj[r].status \in TruthfulStatus(updates)
  BY <1>1, CopyOfPolicy DEF IInv, ProcInv, Working
<1>3. ngSeen[r] \in Release \cup {NoRelease} /\ latestSeen[r] \in Release \cup {NoRelease}
  BY DEF IInv, ProcInv
<1>4. updates \in [UpdateId -> Update]
  BY DEF IInv, EKSInv, EKSTypeOK
<1>5. attempts \in 0..2
  BY DEF IInv, BudgetInv
<1>6. UNCHANGED eksVars => EKSInv' /\ UNCHANGED updates
  BY EKSSame DEF IInv, eksVars
<1>7. Upgrades(r) => attempts' \in 0..2
  BY <1>5 DEF Upgrades
<1>8. CASE Poll(r)
  BY <1>1, <1>2, <1>3, <1>4, <1>5, <1>6, <1>8, TrackTruthful, SettleInv DEF Poll, Begun
<1>9. CASE PollError(r)
  BY <1>1, <1>2, <1>3, <1>4, <1>5, <1>6, <1>9, TrackTruthful, SettleInv
     DEF PollError, Begun, FaultKinds
<1>10. CASE Assess(r)
  BY <1>1, <1>2, <1>3, <1>5, <1>6, <1>10, AssessTruthful, SettleInv
     DEF Assess, Begun, Outdated
<1>11. CASE Initiate(r)
  <2>1. PICK id \in UpdateId :
          /\ StartUpdate(id, latestSeen[r], "operator")
          /\ Settle(r, Initiated(Begun(r), id))
    BY <1>11 DEF Initiate
  <2>2. /\ EKSInv'
        /\ updates'[id].status = "InProgress" /\ updates'[id].owner = "operator"
        /\ TruthfulStatus(updates) \subseteq TruthfulStatus(updates')
        /\ TruthfulCopy(updates) \subseteq TruthfulCopy(updates')
    BY <2>1, StartUpdateLasts DEF IInv
  <2>3. Initiated(Begun(r), id) \in TruthfulStatus(updates')
    BY <1>2, <1>3, <2>2, InitiatedTruthful DEF Begun
  <2> QED
    BY <1>1, <1>7, <1>11, <2>1, <2>2, <2>3, SettleInv DEF Initiate
<1>12. CASE InitiateUnanswered(r)
  <2>1. PICK id \in UpdateId : StartUpdate(id, latestSeen[r], "operator")
    BY <1>12 DEF InitiateUnanswered
  <2>2. /\ EKSInv'
        /\ TruthfulStatus(updates) \subseteq TruthfulStatus(updates')
        /\ TruthfulCopy(updates) \subseteq TruthfulCopy(updates')
    BY <2>1, StartUpdateLasts DEF IInv
  <2>3. InitiationFailed(Begun(r)) \in TruthfulStatus(updates')
    BY <1>2, <1>3, <2>2, AssessTruthful DEF Begun
  <2> QED
    BY <1>1, <1>7, <1>12, <2>2, <2>3, SettleInv DEF InitiateUnanswered, FaultKinds
<1>13. CASE InitiateRefused(r)
  <2>1. InitiationFailed(Begun(r)) \in TruthfulStatus(updates)
    BY <1>2, <1>3, AssessTruthful DEF Begun
  <2> QED
    BY <1>1, <1>6, <1>7, <1>13, <2>1, SettleInv DEF InitiateRefused, FaultKinds
<1> QED
  BY <1>8, <1>9, <1>10, <1>11, <1>12, <1>13

\* The two status writes keep the invariant.
LEMMA WritingInv ==
  ASSUME IInv, NEW r \in Replica,
         \/ WriteStatus(r) \/ WriteUnanswered(r) \/ WriteError(r)
         \/ Stamp(r) \/ StampError(r)
  PROVE  IInv'
<1> DEFINE new == [store EXCEPT !.status = obj[r].status]
<1>1. ASSUME current[r], pc[r] # "idle"
      PROVE  new \in TruthfulCopy(updates) /\ new # NoPolicy
  <2>1. store \in TruthfulCopy(updates) /\ store # NoPolicy
    BY <1>1 DEF IInv, PlaneInv, Existing
  <2>2. obj[r].status \in TruthfulStatus(updates)
    BY <1>1, CopyOfPolicy DEF IInv, ProcInv, Working
  <2> QED
    BY <2>1, <2>2, CopyWithStatus
<1>2. CASE WriteStatus(r)
  <2>1. CASE InFlight(obj[r].status)
    <3>1. Publish(new, {}) /\ Forget(r) /\ Requeue(r, "poll")
      BY <1>2, <2>1 DEF WriteStatus
    <3> QED
      BY <1>1, <1>2, <3>1, WriteInv DEF WriteStatus, Wait
  <2>2. CASE ~InFlight(obj[r].status)
    <3>1. /\ Publish(new, {r}) /\ Goto(r, "stamp")
          /\ UNCHANGED <<obj, ngSeen, minorSeen, latestSeen, wait>>
      BY <1>2, <2>2 DEF WriteStatus
    <3>2. EKSInv' /\ UNCHANGED updates
      BY <1>2, EKSSame DEF IInv, WriteStatus, eksVars
    <3>3. wait' \in [Replica -> Wait]
      BY <3>1 DEF IInv, PlaneInv
    <3>4. PlaneInv' /\ InSync' /\ Existing'
      BY <1>1, <1>2, <3>1, <3>2, <3>3, PublishInv DEF IInv, WriteStatus
    <3>5. ProcInv' /\ Working'
      BY <1>2, <3>1, <3>2 DEF IInv, ProcInv, Working, WriteStatus, Goto, Label
    <3>6. BudgetInv'
      BY <1>2, FailBudget DEF IInv, WriteStatus
    <3> QED
      BY <3>2, <3>4, <3>5, <3>6 DEF IInv
  <2> QED
    BY <2>1, <2>2
<1>3. CASE WriteUnanswered(r)
  BY <1>1, <1>3, WriteInv DEF WriteUnanswered, Wait, FaultKinds
<1>4. CASE WriteError(r)
  BY <1>4, ReturnInv DEF WriteError, Wait, FaultKinds
<1>5. CASE Stamp(r)
  BY <1>1, <1>5, WriteInv DEF Stamp, Wait
<1>6. CASE StampError(r)
  BY <1>6, ReturnInv DEF StampError, Wait, FaultKinds
<1> QED
  BY <1>2, <1>3, <1>4, <1>5, <1>6

------------------------------------------------------------------------------
\* The steps of everything around the workers.

\* Steps that leave the workers, the clocks and EKS alone.
LEMMA PlaneStep ==
  ASSUME IInv, UNCHANGED <<eksVars, procVars, clockVars, faults, edits>>,
         PlaneInv', InSync', Existing', Working'
  PROVE  IInv'
<1>1. EKSInv' /\ UNCHANGED updates
  BY EKSSame DEF IInv, eksVars
<1>2. ProcInv'
  BY <1>1 DEF IInv, ProcInv, procVars
<1>3. BudgetInv'
  BY DEF IInv, BudgetInv, clockVars
<1> QED
  BY <1>1, <1>2, <1>3 DEF IInv

\* The informer's next event comes off the front of `watch` and becomes the
\* cache; when it was the last one, it was the store.
LEMMA InformerInv ==
  ASSUME IInv, NEW r \in Replica, Informer(r)
  PROVE  IInv'
<1>1. /\ active[r] /\ watch[r] # <<>>
      /\ cache' = [cache EXCEPT ![r] = Head(watch[r])]
      /\ watch' = [watch EXCEPT ![r] = Tail(watch[r])]
      /\ queued' = [queued EXCEPT ![r] = queued[r] \/ Accepts(cache[r], Head(watch[r]))]
      /\ UNCHANGED <<store, active, wait, current>>
  BY DEF Informer, Deliver
<1>2. UNCHANGED updates
  BY DEF Informer, eksVars
<1>3. /\ Head(watch[r]) \in TruthfulCopy(updates)
      /\ Tail(watch[r]) \in Seq(TruthfulCopy(updates))
      /\ Tail(watch[r]) = <<>> => Head(watch[r]) = watch[r][Len(watch[r])]
      /\ Tail(watch[r]) # <<>> => Tail(watch[r])[Len(Tail(watch[r]))] = watch[r][Len(watch[r])]
  BY <1>1, TailSeq DEF IInv, PlaneInv
<1>4. PlaneInv'
  BY <1>1, <1>2, <1>3 DEF IInv, PlaneInv
<1>5. InSync'
  BY <1>1, <1>3 DEF IInv, PlaneInv, InSync
<1>6. Existing' /\ Working'
  BY <1>1 DEF IInv, Existing, Working, Informer, procVars
<1> QED
  BY <1>4, <1>5, <1>6, PlaneStep DEF Informer

\* A timer running out keeps the invariant.
LEMMA TimerInv ==
  ASSUME IInv, NEW r \in Replica, Timer(r)
  PROVE  IInv'
<1>1. UNCHANGED updates
  BY DEF Timer, eksVars
<1>2. PlaneInv'
  BY <1>1 DEF Timer, Fire, IInv, PlaneInv, Wait
<1>3. InSync' /\ Existing' /\ Working'
  BY DEF Timer, Fire, IInv, PlaneInv, InSync, Existing, Working, procVars
<1> QED
  BY <1>2, <1>3, PlaneStep DEF Timer

\* A replica starting keeps the invariant: its cache is the store.
LEMMA BootInv ==
  ASSUME IInv, NEW r \in Replica, BootReplica(r)
  PROVE  IInv'
<1>1. UNCHANGED updates
  BY DEF BootReplica, eksVars
<1>2. PlaneInv'
  BY <1>1 DEF BootReplica, Boot, IInv, PlaneInv
<1>3. InSync'
  BY DEF BootReplica, Boot, IInv, PlaneInv, InSync
<1>4. Existing' /\ Working'
  BY DEF BootReplica, Boot, IInv, PlaneInv, Existing, Working, procVars
<1> QED
  BY <1>2, <1>3, <1>4, PlaneStep DEF BootReplica

\* A replica stopping keeps the invariant: its copies go with it.
LEMMA CrashInv ==
  ASSUME IInv, NEW r \in Replica, Crash(r)
  PROVE  IInv'
<1>1. EKSInv' /\ UNCHANGED updates
  BY EKSSame DEF IInv, Crash, eksVars
<1>2. <<>> \in Seq(TruthfulCopy(updates))
  BY EmptySeq
<1>3. PlaneInv'
  BY <1>1, <1>2, NoPolicyIsTruthful DEF Crash, Halt, IInv, PlaneInv, Wait
<1>4. InSync' /\ Existing'
  BY DEF Crash, Halt, IInv, PlaneInv, InSync, Existing
<1>5. ProcInv'
  BY <1>1, NoPolicyIsTruthful, MinorAssumption
     DEF Crash, Forget, Goto, Label, IInv, ProcInv, Minor
<1>6. Working'
  BY DEF Crash, Halt, Forget, Goto, IInv, PlaneInv, ProcInv, Working
<1>7. BudgetInv'
  BY FailBudget DEF IInv, Crash, FaultKinds
<1> QED
  BY <1>1, <1>3, <1>4, <1>5, <1>6, <1>7 DEF IInv

\* Time ages every copy alike, so those that were equal stay equal.
LEMMA CooldownInv ==
  ASSUME IInv, CooldownElapses
  PROVE  IInv'
<1> DEFINE aged(r) == [i \in DOMAIN watch[r] |-> AgedPolicy(watch[r][i])]
<1>1. EKSInv' /\ UNCHANGED updates
  BY EKSSame DEF IInv, CooldownElapses, eksVars
<1>2. \A p \in TruthfulCopy(updates) : AgedPolicy(p) \in TruthfulCopy(updates)
                                       /\ (AgedPolicy(p) = NoPolicy <=> p = NoPolicy)
  BY AgedCopy
<1>3. ASSUME NEW r \in Replica
      PROVE  /\ aged(r) \in Seq(TruthfulCopy(updates))
             /\ Len(aged(r)) = Len(watch[r])
             /\ aged(r) = <<>> <=> watch[r] = <<>>
  <2>1. watch[r] \in Seq(TruthfulCopy(updates))
    BY DEF IInv, PlaneInv
  <2>2. \A i \in DOMAIN watch[r] : aged(r)[i] \in TruthfulCopy(updates)
    BY <1>2, <2>1, ElementOfSeq
  <2>3. aged(r) \in [DOMAIN watch[r] -> TruthfulCopy(updates)]
    BY <2>2
  <2> HIDE DEF aged
  <2> QED
    BY <2>1, <2>3, MapSeq
<1>4. watch' = [r \in Replica |-> aged(r)]
  BY DEF CooldownElapses
<1>5. PlaneInv'
  BY <1>1, <1>2, <1>3, <1>4 DEF CooldownElapses, IInv, PlaneInv
<1>6. InSync'
  <2> SUFFICES ASSUME NEW r \in Replica
               PROVE  /\ active[r] => IF watch'[r] = <<>> THEN cache'[r] = store'
                                        ELSE watch'[r][Len(watch'[r])] = store'
                      /\ ~active[r] => watch'[r] = <<>> /\ ~queued[r]
    BY DEF InSync, CooldownElapses
  <2>1. watch'[r] = aged(r) /\ cache'[r] = AgedPolicy(cache[r]) /\ store' = AgedPolicy(store)
    BY <1>4 DEF CooldownElapses
  <2>2. CASE watch[r] = <<>>
    BY <1>3, <2>1, <2>2 DEF IInv, InSync
  <2>3. CASE watch[r] # <<>>
    <3>1. Len(watch[r]) \in DOMAIN watch[r]
      BY <2>3, EmptySeq DEF IInv, PlaneInv
    <3>2. aged(r)[Len(aged(r))] = AgedPolicy(watch[r][Len(watch[r])])
      BY <1>3, <3>1
    <3> QED
      BY <1>3, <2>1, <2>3, <3>2 DEF IInv, InSync
  <2> QED
    BY <2>2, <2>3
<1>7. ProcInv'
  BY <1>1, <1>2 DEF CooldownElapses, IInv, ProcInv
<1>8. Working' /\ Existing'
  BY <1>2 DEF CooldownElapses, IInv, PlaneInv, ProcInv, Working, Existing
<1>9. BudgetInv'
  BY DEF CooldownElapses, IInv, BudgetInv
<1> QED
  BY <1>1, <1>5, <1>6, <1>7, <1>8, <1>9 DEF IInv

\* What AWS does on its own touches nothing but eksVars, and forgets nothing.
LEMMA AWSInv ==
  ASSUME IInv,
         StartAfterPasses \/ AWSMoves \/ \E id \in UpdateId : UpdateEnds(id)
  PROVE  IInv'
<1>1. UNCHANGED <<planeVars, procVars>> /\ UNCHANGED active
  BY DEF StartAfterPasses, AWSMoves, UpdateEnds, planeVars
<1>2. EKSInv' /\ TruthfulCopy(updates) \subseteq TruthfulCopy(updates')
  <2>1. CASE StartAfterPasses
    BY <2>1, EKSSame DEF StartAfterPasses, IInv, eksVars
  <2>2. CASE AWSMoves
    <3>1. UNCHANGED updates
      BY <2>2 DEF AWSMoves, NewRelease, UpgradeCluster
    <3>2. latest' \in Release /\ minor' \in Minor /\ ngRelease' = ngRelease
      BY <2>2, ReleaseAssumption, MinorAssumption
         DEF AWSMoves, NewRelease, UpgradeCluster, IInv, EKSInv, EKSTypeOK, Release, Minor
    <3> QED
      BY <3>1, <3>2 DEF IInv, EKSInv, EKSTypeOK
  <2>3. CASE \E id \in UpdateId : UpdateEnds(id)
    BY <2>3, CompleteUpdateLasts DEF UpdateEnds, IInv
  <2> QED
    BY <2>1, <2>2, <2>3
<1>3. BudgetInv'
  BY DEF StartAfterPasses, AWSMoves, UpdateEnds, IInv, BudgetInv, clockVars
<1> QED
  BY <1>1, <1>2, <1>3, PlaneSame, ProcSame DEF IInv

\* kubectl and the AWS console keep the invariant.
LEMMA SomebodyInv ==
  ASSUME IInv, SomebodyActs
  PROVE  IInv'
<1>1. BudgetInv'
  BY EditAssumption DEF SomebodyActs, IInv, BudgetInv, clockVars
<1>2. store # NoPolicy => store \in TruthfulCopy(updates) /\ store.spec \in PolicySpec
  BY CopyOfPolicy DEF IInv, PlaneInv, Policy
<1>3. ASSUME NEW new \in TruthfulCopy(updates), Publish(new, {}), UNCHANGED eksVars,
             UNCHANGED <<active, cache, queued, wait>>
      PROVE  IInv'
  <2>1. EKSInv' /\ UNCHANGED updates
    BY <1>3, EKSSame DEF IInv, eksVars
  <2>2. wait' \in [Replica -> Wait]
    BY <1>3 DEF IInv, PlaneInv
  <2>3. PlaneInv' /\ InSync' /\ Existing'
    BY <1>3, <2>1, <2>2, PublishInv DEF IInv
  <2>4. ProcInv' /\ Working'
    BY <1>3, <2>1, ProcSame DEF IInv, SomebodyActs
  <2> QED
    BY <1>1, <2>1, <2>3, <2>4 DEF IInv
<1>4. CASE Delete /\ UNCHANGED eksVars
  <2>1. (IF store.finalizer THEN [store EXCEPT !.deleting = TRUE] ELSE NoPolicy)
          \in TruthfulCopy(updates)
    BY <1>2, <1>4, CopyWithMeta, NoPolicyIsTruthful DEF Delete
  <2> QED
    BY <1>3, <1>4, <2>1 DEF Delete
<1>5. CASE \E spec \in Specs : Apply(spec) /\ UNCHANGED eksVars
  <2>1. PICK spec \in Specs : Apply(spec) /\ UNCHANGED eksVars
    BY <1>5
  <2>2. spec \in PolicySpec
    BY SpecsAssumption
  <2>3. (IF store = NoPolicy THEN Fresh(spec) ELSE [store EXCEPT !.spec = spec])
          \in TruthfulCopy(updates)
    BY <1>2, <2>2, CopyWithMeta, FreshCopy
  <2> QED
    BY <1>3, <2>1, <2>3 DEF Apply
<1>6. CASE \E id \in UpdateId : StartUpdate(id, latest, "other") /\ UNCHANGED planeVars
  <2>1. EKSInv' /\ TruthfulCopy(updates) \subseteq TruthfulCopy(updates')
    BY <1>6, StartUpdateLasts DEF IInv
  <2>2. PlaneInv' /\ InSync' /\ Existing'
    BY <1>6, <2>1, PlaneSame DEF IInv
  <2>3. ProcInv' /\ Working'
    <3>1. UNCHANGED <<procVars, active>>
      BY <1>6 DEF SomebodyActs, planeVars
    <3> QED
      BY <2>1, <3>1, ProcSame DEF IInv
  <2> QED
    BY <1>1, <2>1, <2>2, <2>3 DEF IInv
<1> QED
  BY <1>4, <1>5, <1>6 DEF SomebodyActs

------------------------------------------------------------------------------
(* Theorems *)

\* Every policy somebody applied before the operator was deployed, and every
\* set of replicas that starts, satisfies the invariant.
LEMMA InitInv ==
  ASSUME Init
  PROVE  IInv
<1>1. EKSInv
  BY ReleaseAssumption, MinorAssumption
     DEF Init, EKSInit, EKSInv, EKSTypeOK, Release, Minor, Update, NotIssued
<1>2. store \in TruthfulCopy(updates) \ {NoPolicy}
  BY SpecsAssumption, FreshCopy DEF Init, PlaneInit
<1>3. <<>> \in Seq(TruthfulCopy(updates))
  BY EmptySeq
<1>4. PlaneInv
  BY <1>2, <1>3, NoPolicyIsTruthful DEF Init, PlaneInit, PlaneInv, Wait
<1>5. InSync /\ Existing
  BY DEF Init, PlaneInit, InSync, Existing
<1>6. ProcInv /\ Working
  BY NoPolicyIsTruthful, MinorAssumption DEF Init, ProcInv, Working, Label, Minor
<1>7. BudgetInv
  BY FaultAssumption, EditAssumption DEF Init, BudgetInv
<1> QED
  BY <1>1, <1>4, <1>5, <1>6, <1>7 DEF IInv

\* Every step of the operator, of its environment and of time preserves it.
LEMMA NextInv ==
  ASSUME IInv, [Next]_vars
  PROVE  IInv'
<1>1. CASE UNCHANGED vars
  BY <1>1, EKSSame, PlaneSame, ProcSame
     DEF IInv, vars, BudgetInv, clockVars, eksVars, planeVars
<1>2. ASSUME NEW r \in Replica,
             Reconcile(r) \/ Informer(r) \/ Timer(r) \/ BootReplica(r) \/ Crash(r)
      PROVE  IInv'
  <2>1. CASE Reconcile(r)
    BY <2>1, ReadingInv, FinalizerInv, ProcessInv, WritingInv DEF Reconcile
  <2> QED
    BY <1>2, <2>1, InformerInv, TimerInv, BootInv, CrashInv
<1> QED
  BY <1>1, <1>2, CooldownInv, AWSInv, SomebodyInv DEF Next

\* The invariant is stronger than the type invariant and ReportedOutcome.
LEMMA InvImplies ==
  ASSUME IInv
  PROVE  TypeOK /\ ReportedOutcome
<1>1. Seq(TruthfulCopy(updates)) \subseteq Seq(MaybePolicy)
  BY SeqMonotonic DEF TruthfulCopy
<1>2. TypeOK
  BY <1>1 DEF IInv, EKSInv, PlaneInv, ProcInv, BudgetInv, TruthfulCopy, TypeOK, PlaneTypeOK
<1>3. ReportedOutcome
  BY DEF IInv, PlaneInv, TruthfulCopy, Truthful, ReportedOutcome
<1> QED
  BY <1>2, <1>3

\* The invariant holds in every state the program reaches.
THEOREM Invariant == Spec => []IInv
BY InitInv, NextInv, PTL DEF Spec

\* Whatever the replicas, the schedules, the faults and the bounds, every
\* variable keeps its type: in particular no handler ever indexes EKS's updates
\* with "" and no write stores a status outside the CRD's values.
THEOREM TypeCorrect == Spec => []TypeOK
BY Invariant, InvImplies, PTL

\* Whatever the replicas, the faults and the bounds, the stored status never
\* credits an update with an outcome EKS did not give it: the outcome of one
\* update never survives into the record of the next (upgrade.go:233-248), and
\* no stale read or late write turns a failed update into a succeeded one.
THEOREM OutcomesReportedTruly == Spec => []ReportedOutcome
BY Invariant, InvImplies, PTL

------------------------------------------------------------------------------
(***************************************************************************)
(* How a copy of the policy travels: what every copy has in common, the    *)
(* store's, the running caches', the events' and the workers', is kept by  *)
(* every step that only carries copies about.  So a property of the stored *)
(* object is inductive as soon as it is stated of all the copies.          *)
(***************************************************************************)

Carried(S) ==
  /\ store \in S
  /\ watch \in [Replica -> Seq(S)]
  /\ \A r \in Replica :
       /\ active[r] => cache[r] \in S
       /\ pc[r] # "idle" => obj[r] \in S

\* What the operator and time do to a copy stays in S.
Closed(S) ==
  \A p \in S \ {NoPolicy} :
    /\ [p EXCEPT !.finalizer = TRUE] \in S
    /\ [p EXCEPT !.status = Aged(@)] \in S
    /\ \A q \in S \ {NoPolicy} : [p EXCEPT !.status = q.status] \in S

\* The steps in which a worker makes a new status.
Computes(r) ==
  \/ ResolveUnsupported(r) \/ Poll(r) \/ PollError(r) \/ Assess(r)
  \/ Initiate(r) \/ InitiateUnanswered(r) \/ InitiateRefused(r)

\* Publishing a copy adds it to what the informers have yet to see.
LEMMA PublishCarries ==
  ASSUME NEW S, Carried(S), NEW new \in S, NEW holders, Publish(new, holders)
  PROVE  store' \in S /\ watch' \in [Replica -> Seq(S)]
<1>1. \A r \in Replica : Append(watch[r], new) \in Seq(S)
  BY AppendSeq DEF Carried
<1>2. <<>> \in Seq(S)
  BY EmptySeq
<1> QED
  BY <1>1, <1>2 DEF Publish

\* A worker returns, and carries nothing.
LEMMA ForgetCarries ==
  ASSUME IInv, NEW S, Carried(S), NEW r \in Replica, Forget(r), UNCHANGED <<active, cache>>,
         store' \in S, watch' \in [Replica -> Seq(S)]
  PROVE  Carried(S)'
BY DEF Carried, Forget, Goto, IInv, ProcInv

\* A worker goes on with its copy, or with another that it may carry.
LEMMA GoesOnCarrying ==
  ASSUME IInv, NEW S, Carried(S), NEW r \in Replica, NEW label, pc[r] # "idle", Goto(r, label),
         UNCHANGED obj \/ (obj'[r] \in S /\ \E copy : obj' = [obj EXCEPT ![r] = copy]),
         UNCHANGED <<active, cache>>, store' \in S, watch' \in [Replica -> Seq(S)]
  PROVE  Carried(S)'
BY DEF Carried, Goto, IInv, ProcInv

\* A worker carries copies from its cache to the store.
LEMMA WorkerCarries ==
  ASSUME IInv, NEW S, Carried(S), Closed(S), NEW r \in Replica, Reconcile(r),
         RemoveFinalizer(r) => NoPolicy \in S,
         Computes(r) => obj'[r] \in S
  PROVE  Carried(S)'
<1> DEFINE held == [store EXCEPT !.finalizer = TRUE]
           written == [store EXCEPT !.status = obj[r].status]
<1>1. current[r] => store # NoPolicy
  BY DEF IInv, Existing
<1>2. pc[r] # "idle" => obj[r] # NoPolicy
  BY DEF IInv, Working
<1>3. current[r] => held \in S
  BY <1>1 DEF Carried, Closed
<1>4. current[r] /\ pc[r] # "idle" => written \in S
  BY <1>1, <1>2 DEF Carried, Closed
<1>5. CASE Start(r)
  <2>1. /\ UNCHANGED <<store, active, cache, watch>> /\ active[r]
        /\ \/ UNCHANGED <<pc, obj>>
           \/ pc' = [pc EXCEPT ![r] = AfterGet(cache[r])] /\ obj' = [obj EXCEPT ![r] = cache[r]]
    BY <1>5 DEF Start, Goto, IInv, InSync
  <2> QED BY <2>1 DEF Carried, IInv, ProcInv
<1>6. CASE \/ Paused(r) \/ MalformedStartAfter(r) \/ Skip(r) \/ ClientsError(r)
           \/ DescribeNodegroupError(r) \/ DescribeClusterError(r) \/ ResolveError(r)
           \/ FinalizerError(r) \/ WriteError(r) \/ StampError(r)
  <2>1. \E delay : Return(r, delay)
    BY <1>6 DEF Paused, MalformedStartAfter, Skip, ClientsError, DescribeNodegroupError,
                DescribeClusterError, ResolveError, FinalizerError, WriteError, StampError
  <2>2. Forget(r) /\ UNCHANGED <<store, active, cache, watch>>
    BY <2>1 DEF Return, LetGo
  <2> QED BY <2>2, ForgetCarries DEF Carried
<1>7. CASE \/ NotDue(r) \/ Proceed(r) \/ DescribeNodegroup(r) \/ DescribeCluster(r)
           \/ ResolveLatest(r)
  <2>1. /\ pc[r] # "idle" /\ UNCHANGED <<obj, store, active, cache, watch>>
        /\ \E label : Goto(r, label)
    BY <1>7 DEF NotDue, Proceed, DescribeNodegroup, DescribeCluster, ResolveLatest, planeVars
  <2> QED BY <2>1, GoesOnCarrying DEF Carried
<1>8. CASE Computes(r)
  <2>1. /\ pc[r] # "idle" /\ UNCHANGED <<store, active, cache, watch>>
        /\ \E label : Goto(r, label)
        /\ \E copy : obj' = [obj EXCEPT ![r] = copy]
    BY <1>8 DEF Computes, ResolveUnsupported, Poll, PollError, Assess, Initiate,
                InitiateUnanswered, InitiateRefused, Upgrades, Settle, planeVars
  <2> QED BY <1>8, <2>1, GoesOnCarrying DEF Carried
<1>9. CASE RemoveFinalizer(r)
  <2>1. Publish(NoPolicy, {}) /\ Forget(r) /\ UNCHANGED <<active, cache>>
    BY <1>9 DEF RemoveFinalizer
  <2> QED BY <1>9, <2>1, PublishCarries, ForgetCarries
<1>10. CASE AddFinalizer(r)
  <2>1. /\ current[r] /\ pc[r] # "idle" /\ Publish(held, {r}) /\ UNCHANGED <<active, cache>>
        /\ Goto(r, "guards")
        /\ obj' = [obj EXCEPT ![r] = [obj[r] EXCEPT !.finalizer = TRUE]]
    BY <1>10 DEF AddFinalizer
  <2>2. obj'[r] \in S
    BY <1>2, <2>1 DEF Carried, Closed, IInv, ProcInv
  <2> QED BY <1>3, <2>1, <2>2, PublishCarries, GoesOnCarrying
<1>11. CASE AddFinalizerUnanswered(r)
  <2>1. current[r] /\ Publish(held, {}) /\ Forget(r) /\ UNCHANGED <<active, cache>>
    BY <1>11 DEF AddFinalizerUnanswered
  <2> QED BY <1>3, <2>1, PublishCarries, ForgetCarries
<1>12. CASE WriteStatus(r)
  <2>1. /\ current[r] /\ pc[r] # "idle" /\ (\E holders : Publish(written, holders))
        /\ UNCHANGED <<active, cache>>
    BY <1>12 DEF WriteStatus
  <2>2. Forget(r) \/ (UNCHANGED obj /\ Goto(r, "stamp"))
    BY <1>12 DEF WriteStatus
  <2> QED BY <1>4, <2>1, <2>2, PublishCarries, ForgetCarries, GoesOnCarrying
<1>13. CASE WriteUnanswered(r) \/ Stamp(r)
  <2>1. /\ current[r] /\ pc[r] # "idle" /\ Publish(written, {}) /\ Forget(r)
        /\ UNCHANGED <<active, cache>>
    BY <1>13 DEF WriteUnanswered, Stamp
  <2> QED BY <1>4, <2>1, PublishCarries, ForgetCarries
<1> QED
  BY <1>5, <1>6, <1>7, <1>8, <1>9, <1>10, <1>11, <1>12, <1>13 DEF Reconcile, Computes

\* Informers, timers, restarts, crashes, time and AWS carry copies, or leave them.
LEMMA SurroundingsCarry ==
  ASSUME IInv, NEW S, Carried(S), Closed(S),
         \/ \E r \in Replica : Informer(r) \/ Timer(r) \/ BootReplica(r) \/ Crash(r)
         \/ CooldownElapses \/ StartAfterPasses \/ AWSMoves
         \/ \E id \in UpdateId : UpdateEnds(id)
  PROVE  Carried(S)'
<1>1. ASSUME NEW r \in Replica, Informer(r)
      PROVE  Carried(S)'
  <2>1. /\ watch[r] # <<>> /\ UNCHANGED <<store, active, pc, obj>>
        /\ cache' = [cache EXCEPT ![r] = Head(watch[r])]
        /\ watch' = [watch EXCEPT ![r] = Tail(watch[r])]
    BY <1>1 DEF Informer, Deliver, procVars
  <2>2. Head(watch[r]) \in S /\ Tail(watch[r]) \in Seq(S)
    BY <2>1, TailSeq DEF Carried
  <2> QED BY <2>1, <2>2 DEF Carried, IInv, PlaneInv
<1>2. ASSUME NEW r \in Replica, Timer(r)
      PROVE  Carried(S)'
  BY <1>2 DEF Timer, Fire, procVars, Carried
<1>3. ASSUME NEW r \in Replica, BootReplica(r)
      PROVE  Carried(S)'
  BY <1>3 DEF BootReplica, Boot, procVars, Carried, IInv, PlaneInv
<1>4. ASSUME NEW r \in Replica, Crash(r)
      PROVE  Carried(S)'
  <2>1. <<>> \in Seq(S)
    BY EmptySeq
  <2>2. /\ pc' = [pc EXCEPT ![r] = "idle"] /\ obj' = [obj EXCEPT ![r] = NoPolicy]
        /\ active' = [active EXCEPT ![r] = FALSE] /\ cache' = [cache EXCEPT ![r] = NoPolicy]
        /\ watch' = [watch EXCEPT ![r] = <<>>] /\ UNCHANGED store
    BY <1>4 DEF Crash, Halt, Forget, Goto
  <2> QED BY <2>1, <2>2 DEF Carried, IInv, PlaneInv, ProcInv
<1>5. CASE CooldownElapses
  <2> DEFINE aged(r) == [i \in DOMAIN watch[r] |-> AgedPolicy(watch[r][i])]
  <2>1. \A p \in S : AgedPolicy(p) \in S
    BY DEF Closed, AgedPolicy
  <2>2. ASSUME NEW r \in Replica PROVE aged(r) \in Seq(S)
    <3>1. watch[r] \in Seq(S)
      BY DEF Carried
    <3>2. \A i \in DOMAIN watch[r] : aged(r)[i] \in S
      BY <2>1, <3>1, ElementOfSeq
    <3>3. aged(r) \in [DOMAIN watch[r] -> S]
      BY <3>2
    <3> HIDE DEF aged
    <3> QED BY <3>1, <3>3, MapSeq
  <2>3. watch' = [r \in Replica |-> aged(r)]
    BY <1>5 DEF CooldownElapses
  <2> QED BY <1>5, <2>1, <2>2, <2>3 DEF CooldownElapses, Carried
<1>6. CASE StartAfterPasses \/ AWSMoves \/ \E id \in UpdateId : UpdateEnds(id)
  BY <1>6 DEF StartAfterPasses, AWSMoves, UpdateEnds, planeVars, procVars, Carried
<1> QED
  BY <1>1, <1>2, <1>3, <1>4, <1>5, <1>6

------------------------------------------------------------------------------
(***************************************************************************)
(* The UnsupportedAMI conditions.  A worker sets them for the minor it     *)
(* read, which is never ahead of the cluster's, and the cluster never goes *)
(* back: so as long as AWS publishes an AL2 AMI for the cluster, no copy   *)
(* has them.                                                               *)
(***************************************************************************)

Unconditioned == {p \in MaybePolicy : p # NoPolicy => p.status.conditions = "unset"}

ConditionsInv ==
  /\ \A r \in Replica : minorSeen[r] <= minor
  /\ AL2Unsupported(AmiType, minor) \/ Carried(Unconditioned)

\* No branch of the operator but UnsupportedAMI touches the conditions.
LEMMA UnconditionedClosed == Closed(Unconditioned)
<1>1. ASSUME NEW p \in Unconditioned \ {NoPolicy}, NEW status \in Status,
             status.conditions = "unset"
      PROVE  [p EXCEPT !.status = status] \in Unconditioned
  BY <1>1 DEF Unconditioned, MaybePolicy, Policy
<1>2. ASSUME NEW p \in Unconditioned \ {NoPolicy}
      PROVE  /\ p.status \in Status /\ p.status.conditions = "unset"
             /\ Aged(p.status) \in Status /\ Aged(p.status).conditions = "unset"
             /\ [p EXCEPT !.finalizer = TRUE] \in Unconditioned
  BY <1>2 DEF Unconditioned, MaybePolicy, Policy, Aged, Status
<1> QED
  BY <1>1, <1>2 DEF Closed, Unconditioned, MaybePolicy

\* The branches of ProcessUpgrade.
LEMMA BranchConditions ==
  ASSUME NEW status \in Status, NEW reported, NEW id
  PROVE  /\ TrackInFlightUpdate(status, reported).conditions = status.conditions
         /\ Compliant(status).conditions = status.conditions
         /\ SkipUpgrade(status).conditions = status.conditions
         /\ InitiationFailed(status).conditions = status.conditions
         /\ Initiated(status, id).conditions = status.conditions
BY DEF TrackInFlightUpdate, Compliant, SkipUpgrade, InitiationFailed, Initiated, Status

\* So no status ProcessUpgrade settles on has them if the one it began with has not.
LEMMA ProcessUnconditioned ==
  ASSUME IInv, Carried(Unconditioned), NEW r \in Replica,
         \/ Poll(r) \/ PollError(r) \/ Assess(r)
         \/ Initiate(r) \/ InitiateUnanswered(r) \/ InitiateRefused(r)
  PROVE  obj'[r] \in Unconditioned
<1>1. pc[r] = "process"
  BY DEF Poll, PollError, Assess, Initiate, InitiateUnanswered, InitiateRefused, Upgrades
<1>2. obj[r] \in Policy /\ obj[r].status \in Status /\ obj[r].status.conditions = "unset"
  BY <1>1 DEF IInv, Working, Carried, Unconditioned, MaybePolicy, Policy
<1>3. ngSeen[r] \in Release \cup {NoRelease} /\ latestSeen[r] \in Release \cup {NoRelease}
  BY DEF IInv, ProcInv
<1>4. Begun(r) \in Status /\ Begun(r).conditions = "unset"
  BY <1>2, <1>3 DEF Begun, BeginProcess, Status
<1>5. \E status : Settle(r, status) /\ status.conditions = "unset"
  <2>1. CASE Poll(r) \/ PollError(r) \/ Assess(r)
    BY <1>4, <2>1, BranchConditions DEF Poll, PollError, Assess
  <2>2. CASE Initiate(r) \/ InitiateUnanswered(r) \/ InitiateRefused(r)
    BY <1>4, <2>2, BranchConditions DEF Initiate, InitiateUnanswered, InitiateRefused
  <2> QED BY <2>1, <2>2
<1>6. PICK status : Settle(r, status) /\ status.conditions = "unset"
  BY <1>5
<1>7. obj' = [obj EXCEPT ![r] = [obj[r] EXCEPT !.status = status]]
  BY <1>6 DEF Settle
<1>8. obj'[r].status.conditions = "unset"
  BY <1>2, <1>6, <1>7 DEF IInv, ProcInv, Policy
<1>9. obj' \in [Replica -> MaybePolicy]
  BY ProcessInv DEF IInv, ProcInv, TruthfulCopy
<1> QED
  BY <1>8, <1>9 DEF Unconditioned

\* Nobody edits conditions into a status.
LEMMA SomebodyUnconditioned ==
  ASSUME IInv, Carried(Unconditioned), SomebodyActs
  PROVE  Carried(Unconditioned)'
<1>1. UNCHANGED <<pc, obj>>
  BY DEF SomebodyActs, procVars
<1>2. ASSUME NEW new \in MaybePolicy, Publish(new, {}), UNCHANGED <<active, cache>>,
             new # NoPolicy => new.status.conditions = "unset"
      PROVE  Carried(Unconditioned)'
  <2>1. new \in Unconditioned
    BY <1>2 DEF Unconditioned
  <2> QED BY <1>1, <1>2, <2>1, PublishCarries DEF Carried
<1>3. store # NoPolicy => store \in Policy /\ store.status.conditions = "unset"
  BY DEF Carried, Unconditioned, MaybePolicy
<1>4. CASE Delete
  <2> DEFINE new == IF store.finalizer THEN [store EXCEPT !.deleting = TRUE] ELSE NoPolicy
  <2>1. store # NoPolicy /\ Publish(new, {}) /\ UNCHANGED <<active, cache>>
    BY <1>4 DEF Delete
  <2>2. new \in MaybePolicy /\ (new # NoPolicy => new.status.conditions = "unset")
    BY <1>3, <2>1 DEF Policy, MaybePolicy
  <2> QED BY <1>2, <2>1, <2>2
<1>5. ASSUME NEW spec \in Specs, Apply(spec)
      PROVE  Carried(Unconditioned)'
  <2> DEFINE new == IF store = NoPolicy THEN Fresh(spec) ELSE [store EXCEPT !.spec = spec]
  <2>1. Publish(new, {}) /\ UNCHANGED <<active, cache>>
    BY <1>5 DEF Apply
  <2>2. spec \in PolicySpec
    BY SpecsAssumption
  <2>3. new \in MaybePolicy /\ new.status.conditions = "unset"
    <3>1. CASE store = NoPolicy
      BY <2>2, <3>1, FreshCopy DEF Fresh, EmptyStatus, TruthfulCopy
    <3>2. CASE store # NoPolicy
      BY <1>3, <2>2, <3>2 DEF Policy, MaybePolicy
    <3> QED BY <3>1, <3>2
  <2> QED BY <1>2, <2>1, <2>3
<1>6. CASE UNCHANGED planeVars
  BY <1>1, <1>6 DEF planeVars, Carried
<1> QED
  BY <1>4, <1>5, <1>6 DEF SomebodyActs

\* What a worker has read of the cluster is not ahead of it.
LEMMA MinorSeenNext ==
  ASSUME IInv, [Next]_vars, \A r \in Replica : minorSeen[r] <= minor
  PROVE  (\A r \in Replica : minorSeen[r] <= minor)' /\ minor <= minor'
<1>1. minor \in Nat /\ MinMinor <= minor /\ MinMinor \in Nat
  BY MinorAssumption DEF IInv, EKSInv, EKSTypeOK, Minor
<1>2. minorSeen \in [Replica -> Nat]
  BY MinorAssumption DEF IInv, ProcInv, Minor
<1>3. ASSUME NEW r \in Replica, Forget(r), UNCHANGED minor
      PROVE  (\A x \in Replica : minorSeen[x] <= minor)' /\ minor <= minor'
  BY <1>1, <1>2, <1>3 DEF Forget
<1>4. ASSUME UNCHANGED <<minorSeen, minor>>
      PROVE  (\A x \in Replica : minorSeen[x] <= minor)' /\ minor <= minor'
  BY <1>1, <1>4
<1>5. ASSUME NEW r \in Replica, Reconcile(r)
      PROVE  (\A x \in Replica : minorSeen[x] <= minor)' /\ minor <= minor'
  <2>1. CASE DescribeCluster(r)
    BY <1>1, <1>2, <2>1 DEF DescribeCluster, eksVars
  <2>2. CASE Forget(r) /\ UNCHANGED minor
    BY <1>3, <2>2
  <2>3. CASE UNCHANGED <<minorSeen, minor>>
    BY <1>4, <2>3
  <2>4. CASE \/ Poll(r) \/ PollError(r) \/ Assess(r)
             \/ Initiate(r) \/ InitiateUnanswered(r) \/ InitiateRefused(r)
    BY <2>3, <2>4 DEF Poll, PollError, Assess, Initiate, InitiateUnanswered, InitiateRefused,
                      Settle, StartUpdate, eksVars
  <2>5. CASE \/ Paused(r) \/ MalformedStartAfter(r) \/ Skip(r) \/ ClientsError(r)
             \/ DescribeNodegroupError(r) \/ DescribeClusterError(r) \/ ResolveError(r)
             \/ FinalizerError(r) \/ WriteError(r) \/ StampError(r)
    BY <2>2, <2>5 DEF Paused, MalformedStartAfter, Skip, ClientsError, DescribeNodegroupError,
          DescribeClusterError, ResolveError, FinalizerError, WriteError, StampError, Return, eksVars
  <2>6. CASE \/ RemoveFinalizer(r) \/ AddFinalizerUnanswered(r) \/ WriteUnanswered(r) \/ Stamp(r)
    BY <2>2, <2>6 DEF RemoveFinalizer, AddFinalizerUnanswered, WriteUnanswered, Stamp, eksVars
  <2>7. CASE WriteStatus(r)
    BY <2>2, <2>3, <2>7 DEF WriteStatus, eksVars
  <2>8. CASE \/ Start(r) \/ AddFinalizer(r) \/ NotDue(r) \/ Proceed(r) \/ DescribeNodegroup(r)
             \/ ResolveLatest(r) \/ ResolveUnsupported(r)
    BY <2>3, <2>8 DEF Start, AddFinalizer, NotDue, Proceed, DescribeNodegroup, ResolveLatest,
                      ResolveUnsupported, eksVars
  <2> QED
    BY <1>5, <2>1, <2>4, <2>5, <2>6, <2>7, <2>8 DEF Reconcile
<1>6. ASSUME NEW r \in Replica, Informer(r) \/ Timer(r) \/ BootReplica(r)
      PROVE  (\A x \in Replica : minorSeen[x] <= minor)' /\ minor <= minor'
  BY <1>4, <1>6 DEF Informer, Timer, BootReplica, eksVars, procVars
<1>7. ASSUME NEW r \in Replica, Crash(r)
      PROVE  (\A x \in Replica : minorSeen[x] <= minor)' /\ minor <= minor'
  BY <1>3, <1>7 DEF Crash, eksVars
<1>8. CASE CooldownElapses \/ StartAfterPasses \/ (\E id \in UpdateId : UpdateEnds(id)) \/ SomebodyActs
  BY <1>4, <1>8 DEF CooldownElapses, StartAfterPasses, UpdateEnds, CompleteUpdate, SomebodyActs,
                    StartUpdate, eksVars, procVars
<1>9. CASE AWSMoves
  BY <1>1, <1>2, <1>9 DEF AWSMoves, NewRelease, UpgradeCluster, procVars
<1>10. CASE UNCHANGED vars
  BY <1>4, <1>10 DEF vars, eksVars, procVars
<1> QED
  BY <1>5, <1>6, <1>7, <1>8, <1>9, <1>10 DEF Next

\* No copy has the conditions before the cluster is past AL2.
LEMMA ConditionsNext ==
  ASSUME IInv, ConditionsInv, [Next]_vars
  PROVE  ConditionsInv'
<1>1. (\A r \in Replica : minorSeen[r] <= minor)' /\ minor <= minor'
  BY MinorSeenNext DEF ConditionsInv
<1>2. minor \in Nat /\ minor' \in Nat /\ \A r \in Replica : minorSeen[r] \in Nat
  BY NextInv, MinorAssumption DEF IInv, EKSInv, EKSTypeOK, ProcInv, Minor
<1>3. CASE AL2Unsupported(AmiType, minor)
  <2>1. AL2Unsupported(AmiType, minor')
    BY <1>1, <1>2, <1>3 DEF AL2Unsupported, AL2UnsupportedMinorCutoff
  <2> QED BY <1>1, <2>1 DEF ConditionsInv
<1>4. CASE ~AL2Unsupported(AmiType, minor)
  <2>1. Carried(Unconditioned)
    BY <1>4 DEF ConditionsInv
  <2>2. ASSUME NEW r \in Replica, Reconcile(r)
        PROVE  Carried(Unconditioned)'
    <3>1. ~ResolveUnsupported(r)
      BY <1>2, <1>4 DEF ConditionsInv, ResolveUnsupported, AL2Unsupported, AL2UnsupportedMinorCutoff
    <3>2. Computes(r) => obj'[r] \in Unconditioned
      BY <2>1, <3>1, ProcessUnconditioned DEF Computes
    <3>3. NoPolicy \in Unconditioned
      BY DEF Unconditioned, MaybePolicy
    <3> QED BY <2>1, <2>2, <3>2, <3>3, WorkerCarries, UnconditionedClosed
  <2>3. ASSUME UNCHANGED vars PROVE Carried(Unconditioned)'
    BY <2>1, <2>3 DEF vars, planeVars, procVars, Carried
  <2>4. ASSUME SomebodyActs PROVE Carried(Unconditioned)'
    BY <2>1, <2>4, SomebodyUnconditioned
  <2>5. ASSUME \/ \E r \in Replica : Informer(r) \/ Timer(r) \/ BootReplica(r) \/ Crash(r)
               \/ CooldownElapses \/ StartAfterPasses \/ AWSMoves
               \/ \E id \in UpdateId : UpdateEnds(id)
        PROVE  Carried(Unconditioned)'
    BY <2>1, <2>5, SurroundingsCarry, UnconditionedClosed
  <2>6. Carried(Unconditioned)'
    BY <2>2, <2>3, <2>4, <2>5 DEF Next
  <2> QED BY <1>1, <2>6 DEF ConditionsInv
<1> QED
  BY <1>3, <1>4

LEMMA ConditionsInit ==
  ASSUME Init
  PROVE  ConditionsInv
<1>1. store \in Unconditioned
  <2>1. PICK spec \in Specs : store = Fresh(spec)
    BY DEF Init, PlaneInit
  <2>2. store \in MaybePolicy
    BY <2>1, SpecsAssumption, FreshCopy DEF TruthfulCopy
  <2>3. store.status.conditions = "unset"
    BY <2>1 DEF Fresh, EmptyStatus
  <2> QED BY <2>2, <2>3 DEF Unconditioned
<1>2. NoPolicy \in Unconditioned /\ <<>> \in Seq(Unconditioned)
  BY EmptySeq DEF Unconditioned, MaybePolicy
<1>3. Carried(Unconditioned)
  BY <1>1, <1>2 DEF Init, PlaneInit, Carried
<1>4. \A r \in Replica : minorSeen[r] <= minor
  BY MinorAssumption DEF Init, EKSInit
<1> QED
  BY <1>3, <1>4 DEF ConditionsInv

\* Whatever the replicas, the faults and the edits: the conditions that one
\* branch sets and no branch clears (nodegroupupgradepolicy_controller.go:417-424) are shown only of a
\* cluster that AWS publishes no AL2 AMI for, however stale the copy they were
\* computed from.
THEOREM ConditionsTrue == Spec => []ConditionsHold
<1>1. IInv /\ ConditionsInv => ConditionsHold
  BY DEF ConditionsInv, ConditionsHold, Carried, Unconditioned
<1>2. Init => ConditionsInv
  BY ConditionsInit
<1>3. IInv /\ ConditionsInv /\ [Next]_vars => ConditionsInv'
  BY ConditionsNext
<1> QED
  BY <1>1, <1>2, <1>3, Invariant, PTL DEF Spec
=============================================================================
