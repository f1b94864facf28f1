------------------------------ MODULE Admission ------------------------------
(***************************************************************************)
(* What users may write, and what the webhooks make of the operator's own  *)
(* writes.  The API server sends every create and update of a policy, also *)
(* the ones with which HandleFinalizer adds and removes the finalizer, to  *)
(* the defaulting and the validating webhook, which the operator itself    *)
(* serves (failurePolicy is Fail).  Writes of the status subresource and   *)
(* deletions are not sent.  One replica; its reconcile is reduced to the   *)
(* copy it works on, the nodegroup it asks EKS to update, and its writes.  *)
(***************************************************************************)
EXTENDS Naturals

CONSTANTS
  Name,      \* names of clusters, nodegroups and regions; "" is one of them
  Regions,   \* the regions EC2 lists
  Specs,     \* the specs users try to write,
  EarlySpecs, \* and those they keep to while there are no webhooks
  NoPolicy,  \* there is no such object
  Untracked, \* status.updateID is empty
  RegisteredAtFirst, \* the webhooks are there before the first policy is
  MaxEdits,  \* bound: writes of users
  MaxOutages \* bound: how often the operator stops, or its webhooks cannot be reached

Text == {"", "valid", "garbled"}

PolicySpec == [clusterName : Name, nodeGroupName : Name, region : Name,
               checkInterval : Text, startAfter : Text, scheduleCron : Text,
               scheduleTimezone : Text]

\* Mutant: nodegroups of different regions are taken for one.
NodeGroupAnywhere(spec) == <<spec.clusterName, spec.nodeGroupName>>

\* The managed nodegroup a spec is about.
NodeGroup(spec) == <<spec.clusterName, spec.nodeGroupName, spec.region>>
NodeGroups == Name \X Name \X Name

Policy == [spec : PolicySpec, finalizer : BOOLEAN, deleting : BOOLEAN,
           tracks : NodeGroups \cup {Untracked}] \* whose update the status names

ASSUME NameAssumption == Regions \subseteq Name /\ "" \notin Regions
ASSUME SpecsAssumption == Specs \subseteq PolicySpec /\ EarlySpecs \subseteq PolicySpec
ASSUME AbsenceAssumption == NoPolicy \notin Policy /\ Untracked \notin NodeGroups
ASSUME RegistrationAssumption == RegisteredAtFirst \in BOOLEAN
ASSUME BoundsAssumption == MaxEdits \in Nat /\ MaxOutages \in Nat

VARIABLES
  store,      \* the policy in the API server
  registered, \* the webhook configurations are there
  running,    \* the operator is
  serving,    \* the API server reaches the operator's webhooks
  cache,      \* what the informer has
  news,       \* what it has yet to see: nothing, an update that
              \* GenerationChangedPredicate drops, or more
  queued,     \* the key is in the work queue, now or after a delay
  pc, copy,   \* the worker, and its copy of the policy
  current,    \* the copy is the stored version
  edits, outages

workerVars == <<pc, copy, current>>
serverVars == <<registered, running, serving>>
vars == <<store, serverVars, cache, news, queued, workerVars, edits, outages>>

MaybePolicy == Policy \cup {NoPolicy}

TypeOK ==
  /\ store \in MaybePolicy
  /\ registered \in BOOLEAN /\ running \in BOOLEAN /\ serving \in BOOLEAN
  /\ cache \in MaybePolicy
  /\ news \in {"none", "dropped", "accepted"}
  /\ queued \in BOOLEAN
  /\ pc \in {"idle", "removeFinalizer", "addFinalizer", "process", "write"}
  /\ copy \in MaybePolicy
  /\ current \in BOOLEAN
  /\ edits \in 0..MaxEdits
  /\ outages \in 0..MaxOutages

Init ==
  /\ store = NoPolicy
  /\ registered = RegisteredAtFirst
  /\ running = TRUE
  /\ serving = FALSE
  /\ cache = NoPolicy
  /\ news = "none"
  /\ queued = FALSE
  /\ pc = "idle"
  /\ copy = NoPolicy
  /\ current = FALSE
  /\ edits = 0
  /\ outages = 0

------------------------------------------------------------------------------
\* The webhooks.

\* The CRD's own default, which the API server applies in any case.
SchemaDefault(spec) ==
  [spec EXCEPT !.scheduleTimezone = IF @ = "" THEN "valid" ELSE @]

Default(spec) ==
  [spec EXCEPT
     !.checkInterval = IF spec.scheduleCron = "" /\ @ = "" THEN "valid" ELSE @,
     !.scheduleTimezone = IF spec.scheduleCron # "" /\ @ = "" THEN "valid" ELSE @]

\* Mutant: the mutating webhook defaults nothing.
DefaultedBySchema(spec) == SchemaDefault(spec)

Defaulted(spec) ==
  IF registered THEN Default(SchemaDefault(spec)) ELSE SchemaDefault(spec)

validateCommonSpec(spec) ==
  /\ spec.clusterName # "" /\ spec.nodeGroupName # "" /\ spec.region # ""
  /\ "garbled" \notin {spec.checkInterval, spec.startAfter,
                       spec.scheduleTimezone, spec.scheduleCron}

ValidateCreate(spec) == validateCommonSpec(spec) /\ spec.region \in Regions

\* Mutant: the nodegroup's name may change.
ValidateUpdateRename(old, new) ==
  /\ new.clusterName = old.clusterName
  /\ new.region = old.region
  /\ validateCommonSpec(new)

\* Mutant: only what must not change is looked at.
ValidateUpdateImmutable(old, new) == NodeGroup(new) = NodeGroup(old)

ValidateUpdate(old, new) ==
  /\ NodeGroup(new) = NodeGroup(old)
  /\ validateCommonSpec(new)

AdmitsCreate(spec) == registered => serving /\ ValidateCreate(Defaulted(spec))

AdmitsUpdate(spec) == registered => serving /\ ValidateUpdate(store.spec, Defaulted(spec))

------------------------------------------------------------------------------
\* The API server stores a version; the worker has it when it wrote it.

Publish(new, bumpsGeneration, holds) ==
  /\ store' = new
  /\ news' = IF bumpsGeneration \/ news = "accepted" THEN "accepted" ELSE "dropped"
  /\ current' = holds

Create(spec) ==
  /\ store = NoPolicy
  /\ AdmitsCreate(spec)
  /\ Publish([spec |-> Defaulted(spec), finalizer |-> FALSE, deleting |-> FALSE,
              tracks |-> Untracked], TRUE, FALSE)

Edit(spec) ==
  /\ store # NoPolicy
  /\ AdmitsUpdate(spec)
  /\ Defaulted(spec) # store.spec
  /\ Publish([store EXCEPT !.spec = Defaulted(spec)], TRUE, FALSE)

Delete ==
  /\ store # NoPolicy /\ ~store.deleting
  /\ Publish(IF store.finalizer THEN [store EXCEPT !.deleting = TRUE] ELSE NoPolicy,
             TRUE, FALSE)

UserActs ==
  /\ edits < MaxEdits
  /\ edits' = edits + 1
  /\ \/ Delete
     \/ \E spec \in IF registered THEN Specs ELSE EarlySpecs : Create(spec) \/ Edit(spec)
  /\ UNCHANGED <<serverVars, cache, queued, pc, copy, outages>>

------------------------------------------------------------------------------
\* Reconcile.

AfterGet(p) ==
  IF p.deleting THEN (IF p.finalizer THEN "removeFinalizer" ELSE "idle")
                ELSE (IF p.finalizer THEN "process" ELSE "addFinalizer")

Start ==
  /\ running /\ pc = "idle" /\ queued
  /\ queued' = FALSE
  /\ IF cache = NoPolicy \/ AfterGet(cache) = "idle"
       THEN UNCHANGED workerVars
       ELSE pc' = AfterGet(cache) /\ copy' = cache /\ current' = (news = "none")
  /\ UNCHANGED <<store, serverVars, cache, news, edits, outages>>

\* The worker is done with this pass: the key comes back, or not.
Done(requeued) ==
  /\ pc' = "idle"
  /\ copy' = NoPolicy
  /\ queued' = (queued \/ requeued)

\* Mutant: the object is patched, with no resourceVersion to compare.
AddFinalizerUnlocked ==
  /\ pc = "addFinalizer"
  /\ store # NoPolicy
  /\ AdmitsUpdate(copy.spec)
  /\ LET new == [store EXCEPT !.spec = Defaulted(copy.spec), !.finalizer = TRUE]
     IN  Publish(new, new.spec # store.spec, TRUE) /\ copy' = new
  /\ pc' = "process"
  /\ UNCHANGED <<serverVars, cache, queued, edits, outages>>

\* HandleFinalizer's Updates send the worker's whole copy.
AddFinalizer ==
  /\ pc = "addFinalizer"
  /\ current
  /\ AdmitsUpdate(copy.spec)
  /\ LET new == [store EXCEPT !.spec = Defaulted(copy.spec), !.finalizer = TRUE]
     IN  Publish(new, new.spec # store.spec, TRUE) /\ copy' = new
  /\ pc' = "process"
  /\ UNCHANGED <<serverVars, cache, queued, edits, outages>>

RemoveFinalizer ==
  /\ pc = "removeFinalizer"
  /\ current
  /\ AdmitsUpdate(copy.spec)
  /\ Publish(NoPolicy, TRUE, FALSE)
  /\ Done(FALSE)
  /\ UNCHANGED <<serverVars, cache, edits, outages>>

\* Mutant: the error is swallowed, Reconcile returns Result{}, nil.
FinalizerRefusalSwallowed ==
  /\ pc \in {"addFinalizer", "removeFinalizer"}
  /\ ~(current /\ AdmitsUpdate(copy.spec))
  /\ Done(FALSE)
  /\ current' = FALSE
  /\ UNCHANGED <<store, serverVars, cache, news, edits, outages>>

\* A conflict, a webhook that refuses, or one that does not answer.
FinalizerRefused ==
  /\ pc \in {"addFinalizer", "removeFinalizer"}
  /\ ~(current /\ AdmitsUpdate(copy.spec))
  /\ Done(TRUE)
  /\ current' = FALSE
  /\ UNCHANGED <<store, serverVars, cache, news, edits, outages>>

\* The pass settles on a status: that of an update it has started on the
\* nodegroup its copy names, or one that names no other update.
Process ==
  /\ pc = "process"
  /\ pc' = "write"
  /\ \/ copy' = [copy EXCEPT !.tracks = NodeGroup(copy.spec)]
     \/ UNCHANGED copy
  /\ UNCHANGED <<store, serverVars, cache, news, queued, current, edits, outages>>

\* ShouldSkip finds the policy paused: a RequeueAfter of 0 does not bring it back.
Paused ==
  /\ pc = "process"
  /\ Done(FALSE)
  /\ current' = FALSE
  /\ UNCHANGED <<store, serverVars, cache, news, edits, outages>>

\* The pass ends early: before startAfter, in the cooldown, not due, an AWS
\* error.  With a checkInterval of 0s computeNextDelay may find no delay.
GiveUp ==
  /\ pc = "process"
  /\ \E requeued \in BOOLEAN : Done(requeued)
  /\ current' = FALSE
  /\ UNCHANGED <<store, serverVars, cache, news, edits, outages>>

\* Status().Update, and perhaps the stamps after it.
WriteStatus ==
  /\ pc = "write"
  /\ current
  /\ \/ /\ Publish([store EXCEPT !.tracks = copy.tracks], FALSE, FALSE)
        /\ \E requeued \in BOOLEAN : Done(requeued)
     \/ /\ Publish([store EXCEPT !.tracks = copy.tracks], FALSE, TRUE)
        /\ UNCHANGED <<pc, copy, queued>>
  /\ UNCHANGED <<serverVars, cache, edits, outages>>

\* A conflict: best-effort writes only log it, ProcessUpgrade's is an error.
WriteRefused ==
  /\ pc = "write"
  /\ ~current
  /\ \E requeued \in BOOLEAN : Done(requeued)
  /\ UNCHANGED <<store, serverVars, cache, news, current, edits, outages>>

Reconcile ==
  \/ Start \/ AddFinalizer \/ RemoveFinalizer \/ FinalizerRefused
  \/ Process \/ Paused \/ GiveUp \/ WriteStatus \/ WriteRefused

------------------------------------------------------------------------------
\* The informer, and the operator's life.

Sync ==
  /\ running
  /\ news # "none"
  /\ cache' = store
  /\ news' = "none"
  /\ queued' = (queued \/ news = "accepted")
  /\ UNCHANGED <<store, serverVars, workerVars, edits, outages>>

\* All that the operator had in memory is gone.
Halts ==
  /\ running' = FALSE
  /\ serving' = FALSE
  /\ cache' = NoPolicy
  /\ news' = "none"
  /\ queued' = FALSE
  /\ pc' = "idle"
  /\ copy' = NoPolicy
  /\ current' = FALSE
  /\ UNCHANGED <<store, edits>>

Stop ==
  /\ running
  /\ outages < MaxOutages
  /\ outages' = outages + 1
  /\ Halts
  /\ UNCHANGED registered

\* An operator run with ENABLE_WEBHOOKS=false makes way for the Helm release.
Install ==
  /\ ~registered
  /\ registered' = TRUE
  /\ Halts
  /\ UNCHANGED outages

Boot ==
  /\ ~running
  /\ running' = TRUE
  /\ cache' = store
  /\ news' = "none"
  /\ queued' = (store # NoPolicy)
  /\ UNCHANGED <<store, registered, serving, workerVars, edits, outages>>

BecomesReachable ==
  /\ running /\ ~serving
  /\ serving' = TRUE
  /\ UNCHANGED <<store, registered, running, cache, news, queued, workerVars, edits,
                 outages>>

\* An expired certificate, a network policy, an endpoint not yet published.
BecomesUnreachable ==
  /\ serving
  /\ outages < MaxOutages
  /\ outages' = outages + 1
  /\ serving' = FALSE
  /\ UNCHANGED <<store, registered, running, cache, news, queued, workerVars, edits>>

Next ==
  \/ UserActs
  \/ Reconcile
  \/ Sync
  \/ Stop \/ Boot \/ Install
  \/ BecomesReachable \/ BecomesUnreachable

AdmissionSpec == Init /\ [][Next]_vars

\* The worker and the informer go on, a stopped operator is restarted by its
\* Deployment, and its webhooks are reached in the end.
FairAdmissionSpec ==
  /\ AdmissionSpec
  /\ WF_vars(Reconcile) /\ WF_vars(Sync) /\ WF_vars(Boot) /\ WF_vars(BecomesReachable)

------------------------------------------------------------------------------
(* Properties *)

\* While a pass is past the finalizer, the stored policy names the very
\* nodegroup the pass works on, over edits, deletions and new policies of the
\* same name: what HandleFinalizer and ValidateUpdate establish together.
ActsOnOwnNodeGroup ==
  pc \in {"process", "write"} =>
    store # NoPolicy /\ NodeGroup(copy.spec) = NodeGroup(store.spec)

\* The update id in a status is of the nodegroup the spec names: DescribeUpdate
\* is asked with both, and could never find any other.
TracksOwnNodeGroup ==
  store # NoPolicy /\ store.tracks # Untracked => store.tracks = NodeGroup(store.spec)

\* What is stored has a schedule, a region that exists and fields that parse:
\* ValidateUpdate need not look at the region, since ValidateCreate did.
StoredIsAdmissible ==
  store # NoPolicy =>
    /\ ValidateCreate(store.spec)
    /\ store.spec.scheduleCron # "" \/ store.spec.checkInterval # ""

\* The operator, whose finalizer Updates send a whole copy of the policy back,
\* never takes back an edit nor deletes what the user did not.
EditsKept ==
  [][store # NoPolicy /\ edits' = edits =>
       IF store' = NoPolicy THEN store.deleting
       ELSE store'.spec \in {store.spec, Defaulted(store.spec)}]_vars

\* A deleted policy goes, although removing its finalizer takes webhooks that
\* the operator serves and that may be away.
DeletionCompletes == (store # NoPolicy /\ store.deleting) ~> (store = NoPolicy)
=============================================================================
