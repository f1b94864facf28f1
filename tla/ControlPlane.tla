---------------------------- MODULE ControlPlane ----------------------------
(***************************************************************************)
(* What carries the one NodeGroupUpgradePolicy of the model between the    *)
(* Kubernetes API server and the replicas of the operator: the stored      *)
(* object, each replica's informer cache and the watch events it has not   *)
(* seen yet, and each replica's work queue for the key.  All of it is      *)
(* external (the API server, client-go, controller-runtime), modelled as   *)
(* SetupWithManager and Reconcile use it.                                  *)
(*                                                                         *)
(* Optimistic locking is kept without version numbers: current[r] says     *)
(* that the object replica r works on carries the resourceVersion that is  *)
(* stored, so an Update with it succeeds exactly when current[r].          *)
(***************************************************************************)
EXTENDS Upgrade, Sequences

CONSTANTS
  Replica,    \* pods of the operator
  Specs,      \* the specs users write
  NoPolicy,   \* there is no such object
  MaxLag,     \* bound: undelivered watch events per replica
  PromptInformer \* timing assumption: the poll and schedule delays (two
                 \* minutes and more) outlast the informer's lag

PolicySpec == [autoUpgrade : BOOLEAN, paused : BOOLEAN, cron : BOOLEAN,
               startAfter : {"unset", "set", "malformed"}]

Policy == [spec : PolicySpec, finalizer : BOOLEAN, deleting : BOOLEAN,
           status : Status]

ASSUME SpecsAssumption == Specs \subseteq PolicySpec
ASSUME NoPolicyAssumption == NoPolicy \notin Policy
ASSUME LagAssumption == MaxLag \in Nat \ {0}
ASSUME TimingAssumption == PromptInformer \in BOOLEAN

VARIABLES
  store,    \* the object in etcd
  active,   \* replicas that reconcile (they hold, or think they hold, the lease)
  cache,    \* what each replica's informer has
  watch,    \* versions each replica's informer has yet to see, oldest first
  queued,   \* the key is in the work queue (or marked dirty while processed)
  wait,     \* when the delaying queue will add the key
  current   \* the replica's working copy is the stored version

planeVars == <<store, active, cache, watch, queued, wait, current>>

\* A rate-limited retry, the two minute poll, the schedule, or no entry:
\* the order in which they come due.
Due == [soon |-> 0, poll |-> 1, schedule |-> 2, none |-> 3]
Wait == {"soon", "poll", "schedule", "none"}

\* The delaying queue keeps the earlier of two times for a key.
Earliest(a, b) == IF Due[a] <= Due[b] THEN a ELSE b

MaybePolicy == Policy \cup {NoPolicy}

Fresh(spec) ==
  [spec |-> spec, finalizer |-> FALSE, deleting |-> FALSE, status |-> EmptyStatus]

\* GenerationChangedPredicate over one watch event: create and delete events
\* pass, an update passes when the spec or the deletion timestamp changed.
Accepts(old, new) ==
  IF old = NoPolicy \/ new = NoPolicy
    THEN old # new
    ELSE old.spec # new.spec \/ old.deleting # new.deleting

PlaneTypeOK ==
  /\ store \in MaybePolicy
  /\ active \in [Replica -> BOOLEAN]
  /\ cache \in [Replica -> MaybePolicy]
  /\ watch \in [Replica -> Seq(MaybePolicy)]
  /\ queued \in [Replica -> BOOLEAN]
  /\ wait \in [Replica -> Wait]
  /\ current \in [Replica -> BOOLEAN]

\* The object was applied before the operator was deployed; a set of replicas
\* has started and listed it.
PlaneInit ==
  /\ store \in {Fresh(spec) : spec \in Specs}
  /\ active \in [Replica -> BOOLEAN] /\ \E r \in Replica : active[r]
  /\ cache = [r \in Replica |-> IF active[r] THEN store ELSE NoPolicy]
  /\ watch = [r \in Replica |-> <<>>]
  /\ queued = active
  /\ wait = [r \in Replica |-> "none"]
  /\ current = [r \in Replica |-> FALSE]

\* The API server stores a new version (or removes the object): every watch
\* gets it, and only `holders` have a working copy of that version.
Publish(new, holders) ==
  /\ \A r \in Replica : active[r] => Len(watch[r]) < MaxLag
  /\ store' = new
  /\ watch' = [r \in Replica |-> IF active[r] THEN Append(watch[r], new) ELSE <<>>]
  /\ current' = [r \in Replica |-> r \in holders]

\* A replica lets go of its working copy without writing.
LetGo(r) ==
  /\ current' = [current EXCEPT ![r] = FALSE]
  /\ UNCHANGED <<store, watch>>

Requeue(r, delay) == wait' = [wait EXCEPT ![r] = Earliest(@, delay)]

\* The informer sees the next version; the predicate decides on the key.
Deliver(r) ==
  /\ active[r]
  /\ watch[r] # <<>>
  /\ cache' = [cache EXCEPT ![r] = Head(watch[r])]
  /\ watch' = [watch EXCEPT ![r] = Tail(@)]
  /\ queued' = [queued EXCEPT ![r] = @ \/ Accepts(cache[r], Head(watch[r]))]
  /\ UNCHANGED <<store, active, wait, current>>

\* The delaying queue adds the key.
Fire(r) ==
  /\ active[r]
  /\ wait[r] # "none"
  /\ PromptInformer /\ wait[r] # "soon" => watch[r] = <<>>
  /\ queued' = [queued EXCEPT ![r] = TRUE]
  /\ wait' = [wait EXCEPT ![r] = "none"]
  /\ UNCHANGED <<store, active, cache, watch, current>>

\* A replica starts, or takes the lease over: its informer lists the object,
\* and the create event puts the key in the queue.
Boot(r) ==
  /\ ~active[r]
  /\ active' = [active EXCEPT ![r] = TRUE]
  /\ cache' = [cache EXCEPT ![r] = store]
  /\ queued' = [queued EXCEPT ![r] = store # NoPolicy]
  /\ UNCHANGED <<store, watch, wait, current>>

\* A replica stops: all that it had in memory is gone.
Halt(r) ==
  /\ active[r]
  /\ active' = [active EXCEPT ![r] = FALSE]
  /\ cache' = [cache EXCEPT ![r] = NoPolicy]
  /\ watch' = [watch EXCEPT ![r] = <<>>]
  /\ queued' = [queued EXCEPT ![r] = FALSE]
  /\ wait' = [wait EXCEPT ![r] = "none"]
  /\ current' = [current EXCEPT ![r] = FALSE]
  /\ UNCHANGED store

\* kubectl apply: create the object, or change its spec.
Apply(spec) ==
  /\ store # NoPolicy => store.spec # spec
  /\ Publish(IF store = NoPolicy THEN Fresh(spec) ELSE [store EXCEPT !.spec = spec], {})
  /\ UNCHANGED <<active, cache, queued, wait>>

\* kubectl delete: the finalizer, when there is one, holds the object back.
Delete ==
  /\ store # NoPolicy /\ ~store.deleting
  /\ Publish(IF store.finalizer THEN [store EXCEPT !.deleting = TRUE] ELSE NoPolicy, {})
  /\ UNCHANGED <<active, cache, queued, wait>>
=============================================================================
