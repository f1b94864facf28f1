--------------------------- MODULE AdmissionProofs ---------------------------
(***************************************************************************)
(* What the webhooks and the finalizer promise together, for all           *)
(* constants.  Types and the operator's care for what users write need no  *)
(* webhooks at all; the rest holds once every spec that is stored passes   *)
(* them, or was written by a user who kept to what they ask for.           *)
(***************************************************************************)
EXTENDS Admission, TLAPS

HasSchedule(spec) == spec.scheduleCron # "" \/ spec.checkInterval # ""

\* Until the webhooks are installed users write valid specs with a schedule,
\* and all for the same nodegroup.
CarefulUsers ==
  \A early \in EarlySpecs :
    /\ ValidateCreate(early) /\ HasSchedule(early)
    /\ \A other \in EarlySpecs : NodeGroup(early) = NodeGroup(other)

Guarded == RegisteredAtFirst \/ CarefulUsers

------------------------------------------------------------------------------
(* The webhooks. *)

\* Defaulting yields a spec, keeps the nodegroup and, with the mutating webhook
\* or a schedule there already, gives it a schedule.  The schema's defaults
\* alone make no spec invalid.
LEMMA DefaultedFacts ==
  ASSUME NEW spec \in PolicySpec
  PROVE  /\ Defaulted(spec) \in PolicySpec
         /\ NodeGroup(Defaulted(spec)) = NodeGroup(spec)
         /\ Defaulted(spec).region = spec.region
         /\ registered \/ HasSchedule(spec) => HasSchedule(Defaulted(spec))
         /\ ~registered /\ ValidateCreate(spec) => ValidateCreate(Defaulted(spec))
<1>1. CASE registered
  BY <1>1 DEF Defaulted, Default, SchemaDefault, NodeGroup, PolicySpec, Text, HasSchedule
<1>2. CASE ~registered
  <2>1. CASE spec.scheduleTimezone = ""
    <3>1. Defaulted(spec) = [spec EXCEPT !.scheduleTimezone = "valid"]
      BY <1>2, <2>1 DEF Defaulted, SchemaDefault, PolicySpec
    <3> QED BY <1>2, <3>1 DEF NodeGroup, PolicySpec, Text, HasSchedule, ValidateCreate,
               validateCommonSpec
  <2>2. CASE spec.scheduleTimezone # ""
    <3>1. Defaulted(spec) = spec
      BY <1>2, <2>2 DEF Defaulted, SchemaDefault, PolicySpec
    <3> QED BY <1>2, <3>1
  <2> QED BY <2>1, <2>2
<1> QED BY <1>1, <1>2

\* The nodegroup of a spec.
LEMMA NodeGroupFacts ==
  ASSUME NEW a \in PolicySpec, NEW b \in PolicySpec
  PROVE  /\ NodeGroup(a) \in NodeGroups
         /\ NodeGroup(a) = NodeGroup(b) => a.region = b.region
BY DEF NodeGroup, NodeGroups, PolicySpec

\* An update that is let through keeps the nodegroup, and is admissible when
\* what it replaces was; without webhooks, when the user saw to it.
LEMMA AdmittedUpdate ==
  ASSUME NEW spec \in PolicySpec, store \in Policy, AdmitsUpdate(spec),
         ValidateCreate(store.spec),
         registered \/ /\ ValidateCreate(spec) /\ HasSchedule(spec)
                       /\ NodeGroup(spec) = NodeGroup(store.spec)
  PROVE  /\ Defaulted(spec) \in PolicySpec
         /\ NodeGroup(Defaulted(spec)) = NodeGroup(store.spec)
         /\ ValidateCreate(Defaulted(spec))
         /\ HasSchedule(Defaulted(spec))
<1>1. store.spec \in PolicySpec /\ Defaulted(spec) \in PolicySpec
  BY DefaultedFacts DEF Policy
<1>2. CASE registered
  <2>1. /\ NodeGroup(Defaulted(spec)) = NodeGroup(store.spec)
        /\ validateCommonSpec(Defaulted(spec))
    BY <1>2 DEF AdmitsUpdate, ValidateUpdate
  <2>2. Defaulted(spec).region = store.spec.region
    BY <1>1, <2>1, NodeGroupFacts
  <2> QED BY <1>1, <1>2, <2>1, <2>2, DefaultedFacts DEF ValidateCreate
<1>3. CASE ~registered
  BY <1>1, <1>3, DefaultedFacts
<1> QED BY <1>2, <1>3

------------------------------------------------------------------------------
(***************************************************************************)
(* Types, and whose version the worker holds: whatever is admitted.        *)
(***************************************************************************)

Versions ==
  /\ TypeOK
  /\ running /\ news = "none" => cache = store
  /\ pc # "idle" => copy # NoPolicy /\ (current => store # NoPolicy)
  /\ pc \in {"removeFinalizer", "addFinalizer"} /\ current => copy = store
  /\ pc = "removeFinalizer" => copy.deleting

LEMMA VersionsInit == Init => Versions
<1> SUFFICES ASSUME Init PROVE Versions
  OBVIOUS
<1>1. 0 \in 0..MaxEdits /\ 0 \in 0..MaxOutages
  BY BoundsAssumption
<1> QED BY <1>1, RegistrationAssumption DEF Init, Versions, TypeOK, MaybePolicy

\* A user who writes leaves the worker with an old version.
LEMMA VersionsUser ==
  ASSUME Versions, UserActs
  PROVE  Versions'
<1>1. /\ UNCHANGED <<serverVars, cache, queued, pc, copy, outages>>
      /\ edits' \in 0..MaxEdits
  BY BoundsAssumption DEF UserActs, Versions, TypeOK
<1>2. current' = FALSE /\ news' \in {"accepted", "dropped"} /\ store' \in MaybePolicy
  <2>1. CASE Delete
    <3>1. store \in Policy
      BY <2>1 DEF Versions, TypeOK, MaybePolicy, Delete
    <3>2. [store EXCEPT !.deleting = TRUE] \in Policy
      BY <3>1 DEF Policy
    <3> QED BY <2>1, <3>2 DEF Delete, Publish, MaybePolicy
  <2>2. ASSUME NEW spec \in IF registered THEN Specs ELSE EarlySpecs, Create(spec)
        PROVE  current' = FALSE /\ news' \in {"accepted", "dropped"} /\ store' \in MaybePolicy
    <3>1. Defaulted(spec) \in PolicySpec
      BY SpecsAssumption, DefaultedFacts
    <3>2. [spec |-> Defaulted(spec), finalizer |-> FALSE, deleting |-> FALSE,
           tracks |-> Untracked] \in Policy
      BY <3>1 DEF Policy
    <3> QED BY <2>2, <3>2 DEF Create, Publish, MaybePolicy
  <2>3. ASSUME NEW spec \in IF registered THEN Specs ELSE EarlySpecs, Edit(spec)
        PROVE  current' = FALSE /\ news' \in {"accepted", "dropped"} /\ store' \in MaybePolicy
    <3>1. Defaulted(spec) \in PolicySpec /\ store \in Policy
      BY <2>3, SpecsAssumption, DefaultedFacts DEF Versions, TypeOK, MaybePolicy, Edit
    <3>2. [store EXCEPT !.spec = Defaulted(spec)] \in Policy
      BY <3>1 DEF Policy
    <3> QED BY <2>3, <3>2 DEF Edit, Publish, MaybePolicy
  <2> QED BY <2>1, <2>2, <2>3 DEF UserActs
<1> QED BY <1>1, <1>2 DEF Versions, TypeOK, serverVars

\* The worker starts with the informer's version, and knows whether it is the
\* stored one.
LEMMA VersionsStart ==
  ASSUME Versions, Start
  PROVE  Versions'
<1>1. UNCHANGED <<store, serverVars, cache, news, edits, outages>> /\ queued' = FALSE
  BY DEF Start
<1>2. CASE UNCHANGED workerVars
  BY <1>1, <1>2 DEF Versions, TypeOK, serverVars, workerVars
<1>3. CASE /\ cache # NoPolicy /\ AfterGet(cache) # "idle"
           /\ pc' = AfterGet(cache) /\ copy' = cache /\ current' = (news = "none")
  BY <1>1, <1>3 DEF Start, Versions, TypeOK, AfterGet, serverVars
<1> QED BY <1>2, <1>3 DEF Start

\* HandleFinalizer's Update sends the stored version back, but for its defaults.
LEMMA AddFinalizerFacts ==
  ASSUME Versions, AddFinalizer
  PROVE  /\ store \in Policy /\ store # NoPolicy /\ copy = store
         /\ store' \in Policy /\ store' # NoPolicy
         /\ store'.spec = Defaulted(store.spec) /\ store'.finalizer = TRUE
         /\ store'.deleting = store.deleting /\ store'.tracks = store.tracks
<1>1. copy = store /\ store \in Policy /\ store # NoPolicy
  BY DEF AddFinalizer, Versions, TypeOK, MaybePolicy
<1>2. store' = [store EXCEPT !.spec = Defaulted(store.spec), !.finalizer = TRUE]
  BY <1>1 DEF AddFinalizer, Publish
<1>3. Defaulted(store.spec) \in PolicySpec
  BY <1>1, DefaultedFacts DEF Policy
<1>4. /\ store' \in Policy
      /\ store'.spec = Defaulted(store.spec) /\ store'.finalizer = TRUE
      /\ store'.deleting = store.deleting /\ store'.tracks = store.tracks
  BY <1>1, <1>2, <1>3 DEF Policy
<1> QED BY <1>1, <1>4, AbsenceAssumption

\* A status write changes what the status tracks, and nothing else.
LEMMA WriteStatusFacts ==
  ASSUME Versions, WriteStatus
  PROVE  /\ store \in Policy /\ store # NoPolicy /\ copy \in Policy
         /\ store' \in Policy /\ store' # NoPolicy
         /\ store'.spec = store.spec /\ store'.finalizer = store.finalizer
         /\ store'.deleting = store.deleting /\ store'.tracks = copy.tracks
<1>1. store \in Policy /\ copy \in Policy
  BY DEF WriteStatus, Versions, TypeOK, MaybePolicy
<1>2. store' = [store EXCEPT !.tracks = copy.tracks]
  BY DEF WriteStatus, Publish
<1>3. /\ store' \in Policy /\ store'.spec = store.spec
      /\ store'.finalizer = store.finalizer
      /\ store'.deleting = store.deleting /\ store'.tracks = copy.tracks
  BY <1>1, <1>2 DEF Policy
<1> QED BY <1>1, <1>3, AbsenceAssumption

LEMMA VersionsWrite ==
  ASSUME Versions, AddFinalizer \/ RemoveFinalizer \/ WriteStatus
  PROVE  Versions'
<1>1. CASE AddFinalizer
  <2>1. copy' = store'
    BY <1>1, AddFinalizerFacts DEF AddFinalizer, Publish
  <2> QED BY <1>1, <2>1, AddFinalizerFacts
          DEF AddFinalizer, Publish, Versions, TypeOK, MaybePolicy, serverVars
<1>2. CASE RemoveFinalizer
  BY <1>2 DEF RemoveFinalizer, Publish, Done, Versions, TypeOK, MaybePolicy, serverVars
<1>3. CASE WriteStatus
  BY <1>3, WriteStatusFacts
     DEF WriteStatus, Publish, Done, Versions, TypeOK, MaybePolicy, serverVars
<1> QED BY <1>1, <1>2, <1>3

LEMMA VersionsProcess ==
  ASSUME Versions, Process
  PROVE  Versions'
<1>1. copy \in Policy
  BY DEF Process, Versions, TypeOK, MaybePolicy
<1>2. [copy EXCEPT !.tracks = NodeGroup(copy.spec)] \in Policy
  BY <1>1, NodeGroupFacts DEF Policy
<1>3. copy' \in Policy /\ copy' # NoPolicy
  BY <1>1, <1>2, AbsenceAssumption DEF Process
<1> QED BY <1>3 DEF Process, Versions, TypeOK, MaybePolicy, serverVars

LEMMA VersionsNext == Versions /\ [Next]_vars => Versions'
<1> SUFFICES ASSUME Versions, [Next]_vars PROVE Versions'
  OBVIOUS
<1>0. outages < MaxOutages /\ outages' = outages + 1 => outages' \in 0..MaxOutages
  BY BoundsAssumption DEF Versions, TypeOK
<1> USE DEF Versions, TypeOK, MaybePolicy, serverVars, workerVars
<1>1. CASE FinalizerRefused \/ Paused \/ GiveUp \/ WriteRefused
  <2>1. /\ pc' = "idle" /\ copy' = NoPolicy /\ queued' \in BOOLEAN /\ current' \in BOOLEAN
        /\ UNCHANGED <<store, serverVars, cache, news, edits, outages>>
    BY <1>1 DEF FinalizerRefused, Paused, GiveUp, WriteRefused, Done
  <2> QED BY <2>1
<1>2. CASE Sync
  BY <1>2 DEF Sync
<1>3. CASE Stop
  BY <1>0, <1>3 DEF Stop, Halts
<1>4. CASE Install
  BY <1>4 DEF Install, Halts
<1>5. CASE Boot
  BY <1>5 DEF Boot
<1>6. CASE BecomesReachable
  BY <1>6 DEF BecomesReachable
<1>7. CASE BecomesUnreachable
  BY <1>0, <1>7 DEF BecomesUnreachable
<1>8. CASE UNCHANGED vars
  BY <1>8 DEF vars
<1> QED BY <1>1, <1>2, <1>3, <1>4, <1>5, <1>6, <1>7, <1>8, VersionsUser, VersionsStart,
           VersionsWrite, VersionsProcess DEF Next, Reconcile

LEMMA AlwaysVersions == AdmissionSpec => []Versions
BY VersionsInit, VersionsNext, PTL DEF AdmissionSpec

\* Type correctness, whatever users write and wherever the webhooks are.
THEOREM TypeCorrect == AdmissionSpec => []TypeOK
<1>1. Versions => TypeOK
  BY DEF Versions
<1> QED BY <1>1, AlwaysVersions, PTL

\* The operator's own writes keep what the user wrote, with the webhooks or
\* without: HandleFinalizer sends its whole copy, under its resourceVersion.
THEOREM KeepsEdits == AdmissionSpec => EditsKept
<1> DEFINE Keeps == IF store' = NoPolicy THEN store.deleting
                    ELSE store'.spec \in {store.spec, Defaulted(store.spec)}
<1>1. ASSUME Versions, [Next]_vars, store # NoPolicy, edits' = edits
      PROVE  Keeps
  <2>1. edits \in Nat
    BY <1>1, BoundsAssumption DEF Versions, TypeOK
  <2>2. ~UserActs
    <3>1. edits' # edits + 1
      BY <1>1, <2>1
    <3> QED BY <3>1 DEF UserActs
  <2>3. CASE AddFinalizer
    BY <1>1, <2>3, AddFinalizerFacts
  <2>4. CASE RemoveFinalizer
    BY <1>1, <2>4 DEF RemoveFinalizer, Versions, Publish
  <2>5. CASE WriteStatus
    BY <1>1, <2>5, WriteStatusFacts
  <2>6. CASE UNCHANGED store
    BY <1>1, <2>6
  <2> QED BY <1>1, <2>2, <2>3, <2>4, <2>5, <2>6 DEF Next, Reconcile, Start,
             FinalizerRefused, Process, Paused, GiveUp, WriteRefused, Sync, Stop, Halts,
             Boot, Install, BecomesReachable, BecomesUnreachable, vars
<1>2. Versions /\ [Next]_vars => [store # NoPolicy /\ edits' = edits => Keeps]_vars
  BY <1>1
<1> QED BY <1>2, AlwaysVersions, PTL DEF AdmissionSpec, EditsKept

------------------------------------------------------------------------------
(***************************************************************************)
(* Whose nodegroup a pass works on and a status tracks, and what is        *)
(* stored.  A version that holds the finalizer never outlives its object,  *)
(* and nobody who writes the object changes its nodegroup.                 *)
(***************************************************************************)

\* A version that holds the finalizer and is not being deleted.
Kept(p) == p # NoPolicy /\ p.finalizer /\ ~p.deleting

\* The stored policy holds the finalizer and names p's nodegroup.
Backs(p) == /\ store # NoPolicy /\ store.finalizer
            /\ NodeGroup(p.spec) = NodeGroup(store.spec)

TracksItself(p) ==
  p # NoPolicy /\ p.tracks # Untracked => p.tracks = NodeGroup(p.spec)

\* Without webhooks the stored policy is about the nodegroup users keep to.
EarlyInv ==
  ~registered =>
    /\ CarefulUsers
    /\ store # NoPolicy =>
         \E early \in EarlySpecs : NodeGroup(store.spec) = NodeGroup(early)

\* What the informer has is old, but a kept version never outlives its object.
CacheInv == (Kept(cache) => Backs(cache)) /\ TracksItself(cache)

WorkerInv ==
  /\ pc \in {"process", "write"} => Backs(copy)
  /\ pc = "removeFinalizer" /\ current => cache # NoPolicy /\ cache.deleting
  /\ pc = "addFinalizer" => ~copy.deleting /\ ~copy.finalizer
  /\ TracksItself(copy)

IInv ==
  /\ Versions
  /\ EarlyInv
  /\ TracksItself(store)
  /\ StoredIsAdmissible
  /\ CacheInv
  /\ WorkerInv

LEMMA InitInv == Guarded /\ Init => IInv
<1> SUFFICES ASSUME Guarded, Init PROVE IInv
  OBVIOUS
<1>1. Versions
  BY VersionsInit
<1>2. EarlyInv
  BY DEF Init, EarlyInv, Guarded
<1>3. TracksItself(store) /\ StoredIsAdmissible
  BY DEF Init, TracksItself, StoredIsAdmissible
<1>4. CacheInv /\ WorkerInv
  BY DEF Init, CacheInv, WorkerInv, Kept, TracksItself
<1> QED BY <1>1, <1>2, <1>3, <1>4 DEF IInv

\* The spec of a policy that a user creates.
LEMMA CreatedSpec ==
  ASSUME IInv, NEW spec \in IF registered THEN Specs ELSE EarlySpecs, AdmitsCreate(spec)
  PROVE  /\ ValidateCreate(Defaulted(spec)) /\ HasSchedule(Defaulted(spec))
         /\ ~registered =>
              \E early \in EarlySpecs : NodeGroup(Defaulted(spec)) = NodeGroup(early)
<1>1. spec \in PolicySpec
  BY SpecsAssumption
<1>2. CASE registered
  BY <1>1, <1>2, DefaultedFacts DEF AdmitsCreate
<1>3. CASE ~registered
  <2>1. spec \in EarlySpecs /\ ValidateCreate(spec) /\ HasSchedule(spec)
    BY <1>3 DEF IInv, EarlyInv, CarefulUsers
  <2> QED BY <1>1, <1>3, <2>1, DefaultedFacts
<1> QED BY <1>2, <1>3

\* The spec that a user's edit leaves.
LEMMA EditedSpec ==
  ASSUME IInv, store # NoPolicy, NEW spec \in IF registered THEN Specs ELSE EarlySpecs,
         AdmitsUpdate(spec)
  PROVE  /\ NodeGroup(Defaulted(spec)) = NodeGroup(store.spec)
         /\ ValidateCreate(Defaulted(spec)) /\ HasSchedule(Defaulted(spec))
<1>1. spec \in PolicySpec /\ store \in Policy /\ ValidateCreate(store.spec)
  BY SpecsAssumption DEF IInv, Versions, TypeOK, MaybePolicy, StoredIsAdmissible
<1>2. CASE registered
  BY <1>1, <1>2, AdmittedUpdate
<1>3. CASE ~registered
  <2>1. /\ spec \in EarlySpecs /\ ValidateCreate(spec) /\ HasSchedule(spec)
        /\ NodeGroup(spec) = NodeGroup(store.spec)
    BY <1>3 DEF IInv, EarlyInv, CarefulUsers
  <2> QED BY <1>1, <2>1, AdmittedUpdate
<1> QED BY <1>2, <1>3

LEMMA CreateInv ==
  ASSUME IInv, Versions', UserActs,
         NEW spec \in IF registered THEN Specs ELSE EarlySpecs, Create(spec)
  PROVE  IInv'
<1> DEFINE new == [spec |-> Defaulted(spec), finalizer |-> FALSE, deleting |-> FALSE,
                   tracks |-> Untracked]
<1>1. /\ store = NoPolicy
      /\ ValidateCreate(Defaulted(spec)) /\ HasSchedule(Defaulted(spec))
      /\ ~registered =>
           \E early \in EarlySpecs : NodeGroup(Defaulted(spec)) = NodeGroup(early)
  BY CreatedSpec DEF Create
<1>2. store' = new /\ current' = FALSE
  BY DEF Create, Publish
<1>3. UNCHANGED <<registered, cache, pc, copy>>
  BY DEF UserActs, serverVars
<1>4. EarlyInv'
  BY <1>1, <1>2, <1>3 DEF IInv, EarlyInv, CarefulUsers
<1>5. TracksItself(store)' /\ StoredIsAdmissible'
  BY <1>1, <1>2 DEF TracksItself, StoredIsAdmissible, HasSchedule
<1> HIDE DEF new
<1>6. CacheInv'
  BY <1>1, <1>3 DEF IInv, CacheInv, Kept, Backs, TracksItself
<1>7. WorkerInv'
  BY <1>1, <1>2, <1>3 DEF IInv, WorkerInv, Backs, TracksItself
<1> QED BY <1>4, <1>5, <1>6, <1>7 DEF IInv

LEMMA EditInv ==
  ASSUME IInv, Versions', UserActs,
         NEW spec \in IF registered THEN Specs ELSE EarlySpecs, Edit(spec)
  PROVE  IInv'
<1>1. /\ store # NoPolicy /\ store \in Policy
      /\ NodeGroup(Defaulted(spec)) = NodeGroup(store.spec)
      /\ ValidateCreate(Defaulted(spec)) /\ HasSchedule(Defaulted(spec))
  BY EditedSpec DEF Edit, IInv, Versions, TypeOK, MaybePolicy
<1>2. store' = [store EXCEPT !.spec = Defaulted(spec)] /\ current' = FALSE
  BY DEF Edit, Publish
<1>3. /\ store'.spec = Defaulted(spec)
      /\ store'.finalizer = store.finalizer
      /\ store'.tracks = store.tracks
  BY <1>1, <1>2 DEF Policy
<1>4. store' # NoPolicy
  <2>1. Defaulted(spec) \in PolicySpec
    BY SpecsAssumption, DefaultedFacts
  <2>2. store' \in Policy
    BY <1>1, <1>2, <2>1 DEF Policy
  <2> QED BY <2>2, AbsenceAssumption
<1>5. UNCHANGED <<registered, cache, pc, copy>>
  BY DEF UserActs, serverVars
<1>6. EarlyInv'
  BY <1>1, <1>3, <1>5 DEF IInv, EarlyInv, CarefulUsers
<1>7. TracksItself(store)' /\ StoredIsAdmissible'
  BY <1>1, <1>3, <1>4 DEF IInv, TracksItself, StoredIsAdmissible, HasSchedule
<1>8. \A p : Backs(p) => Backs(p)'
  BY <1>1, <1>3, <1>4 DEF Backs
<1>9. CacheInv'
  BY <1>5, <1>8 DEF IInv, CacheInv, Kept, TracksItself, Backs
<1>10. WorkerInv'
  BY <1>2, <1>5, <1>8 DEF IInv, WorkerInv, TracksItself, Backs
<1> QED BY <1>6, <1>7, <1>9, <1>10 DEF IInv

LEMMA DeleteInv ==
  ASSUME IInv, Versions', UserActs, Delete
  PROVE  IInv'
<1>1. store \in Policy /\ store # NoPolicy
  BY DEF IInv, Versions, Delete, TypeOK, MaybePolicy
<1>2. /\ store' = IF store.finalizer THEN [store EXCEPT !.deleting = TRUE] ELSE NoPolicy
      /\ current' = FALSE
  BY DEF Delete, Publish
<1>3. /\ store.finalizer => store' # NoPolicy /\ store'.finalizer
      /\ store' # NoPolicy =>
           store'.spec = store.spec /\ store'.tracks = store.tracks
  <2>1. CASE store.finalizer
    <3>1. /\ store'.spec = store.spec
          /\ store'.finalizer = store.finalizer
          /\ store'.tracks = store.tracks
          /\ store' \in Policy
      BY <1>1, <1>2, <2>1 DEF Policy
    <3> QED BY <2>1, <3>1, AbsenceAssumption
  <2>2. CASE ~store.finalizer
    BY <1>2, <2>2
  <2> QED BY <2>1, <2>2
<1>4. UNCHANGED <<registered, cache, pc, copy>>
  BY DEF UserActs, serverVars
<1>5. EarlyInv'
  BY <1>1, <1>3, <1>4 DEF IInv, EarlyInv, CarefulUsers
<1>6. TracksItself(store)' /\ StoredIsAdmissible'
  BY <1>1, <1>3 DEF IInv, TracksItself, StoredIsAdmissible
<1>7. \A p : Backs(p) => Backs(p)'
  BY <1>3 DEF Backs
<1>8. CacheInv'
  BY <1>4, <1>7 DEF IInv, CacheInv, Kept, TracksItself, Backs
<1>9. WorkerInv'
  BY <1>2, <1>4, <1>7 DEF IInv, WorkerInv, TracksItself, Backs
<1> QED BY <1>5, <1>6, <1>8, <1>9 DEF IInv

\* Steps of the operator that store nothing, once its cache and worker are right.
LEMMA NothingStored ==
  ASSUME IInv, UNCHANGED <<store, registered>>, Versions', CacheInv', WorkerInv'
  PROVE  IInv'
BY DEF IInv, EarlyInv, TracksItself, StoredIsAdmissible

LEMMA StartInv == ASSUME IInv, Versions', Start PROVE IInv'
<1>1. UNCHANGED <<store, registered, cache>>
  BY DEF Start, serverVars
<1>2. CacheInv'
  BY <1>1 DEF IInv, CacheInv, Kept, Backs, TracksItself
<1>3. CASE UNCHANGED workerVars
  <2>1. WorkerInv'
    BY <1>1, <1>3 DEF IInv, WorkerInv, Backs, TracksItself, workerVars
  <2> QED BY <1>1, <1>2, <2>1, NothingStored
<1>4. CASE /\ cache # NoPolicy /\ pc' = AfterGet(cache) /\ AfterGet(cache) # "idle"
           /\ copy' = cache
  <2>1. cache \in Policy
    BY <1>4 DEF IInv, Versions, TypeOK, MaybePolicy
  <2>2. WorkerInv'
    BY <1>1, <1>4, <2>1 DEF IInv, CacheInv, WorkerInv, Kept, Backs, TracksItself,
       AfterGet, Policy
  <2> QED BY <1>1, <1>2, <2>2, NothingStored
<1> QED BY <1>3, <1>4 DEF Start

LEMMA AddFinalizerInv == ASSUME IInv, Versions', AddFinalizer PROVE IInv'
<1>1. /\ store \in Policy /\ store # NoPolicy /\ copy = store
      /\ store' # NoPolicy
      /\ store'.spec = Defaulted(store.spec) /\ store'.finalizer = TRUE
      /\ store'.tracks = store.tracks
  BY AddFinalizerFacts DEF IInv
<1>2. /\ pc' = "process" /\ copy' = store'
      /\ UNCHANGED <<registered, cache>>
  BY DEF AddFinalizer, Publish, serverVars
<1>3. /\ NodeGroup(store'.spec) = NodeGroup(store.spec)
      /\ ValidateCreate(store'.spec) /\ HasSchedule(store'.spec)
  <2>1. /\ store.spec \in PolicySpec
        /\ ValidateCreate(store.spec) /\ HasSchedule(store.spec)
    BY <1>1 DEF IInv, StoredIsAdmissible, HasSchedule, Policy
  <2>2. AdmitsUpdate(store.spec)
    BY <1>1 DEF AddFinalizer
  <2> QED BY <1>1, <2>1, <2>2, AdmittedUpdate
<1>4. EarlyInv'
  BY <1>1, <1>2, <1>3 DEF IInv, EarlyInv, CarefulUsers
<1>5. TracksItself(store)' /\ TracksItself(copy)'
  BY <1>1, <1>2, <1>3 DEF IInv, TracksItself
<1>6. StoredIsAdmissible'
  BY <1>3 DEF StoredIsAdmissible, HasSchedule
<1>7. CacheInv'
  BY <1>1, <1>2, <1>3 DEF IInv, CacheInv, Kept, Backs, TracksItself
<1>8. WorkerInv'
  BY <1>1, <1>2, <1>5 DEF WorkerInv, Backs
<1> QED BY <1>4, <1>5, <1>6, <1>7, <1>8 DEF IInv

LEMMA RemoveFinalizerInv == ASSUME IInv, Versions', RemoveFinalizer PROVE IInv'
<1>1. cache # NoPolicy /\ cache.deleting
  BY DEF RemoveFinalizer, IInv, WorkerInv
<1>2. /\ store' = NoPolicy /\ pc' = "idle" /\ copy' = NoPolicy
      /\ UNCHANGED <<registered, cache>>
  BY DEF RemoveFinalizer, Publish, Done, serverVars
<1> QED BY <1>1, <1>2 DEF IInv, EarlyInv, CacheInv, WorkerInv, TracksItself,
           StoredIsAdmissible, Kept, CarefulUsers

\* A pass that ends without a write.
LEMMA PassEndsInv ==
  ASSUME IInv, Versions', NEW requeued \in BOOLEAN, Done(requeued),
         UNCHANGED <<store, registered, cache>>
  PROVE  IInv'
<1>1. CacheInv' /\ WorkerInv'
  BY DEF IInv, CacheInv, WorkerInv, Done, Kept, Backs, TracksItself
<1> QED BY <1>1, NothingStored

LEMMA ProcessInv == ASSUME IInv, Versions', Process PROVE IInv'
<1>1. /\ pc = "process" /\ pc' = "write"
      /\ UNCHANGED <<store, registered, cache>>
  BY DEF Process, serverVars
<1>2. copy \in Policy
  BY <1>1 DEF IInv, Versions, TypeOK, MaybePolicy
<1>3. copy'.spec = copy.spec /\ TracksItself(copy)'
  BY <1>2 DEF Process, Policy, TracksItself, IInv, WorkerInv
<1>4. CacheInv' /\ WorkerInv'
  BY <1>1, <1>3 DEF IInv, CacheInv, WorkerInv, Kept, Backs, TracksItself
<1> QED BY <1>1, <1>4, NothingStored

LEMMA WriteStatusInv == ASSUME IInv, Versions', WriteStatus PROVE IInv'
<1>1. pc = "write" /\ Backs(copy) /\ TracksItself(copy) /\ copy # NoPolicy
  BY DEF WriteStatus, IInv, WorkerInv, Versions
<1>2. /\ store # NoPolicy /\ store' # NoPolicy /\ store'.spec = store.spec
      /\ store'.finalizer = store.finalizer /\ store'.tracks = copy.tracks
  BY WriteStatusFacts DEF IInv
<1>3. /\ pc' \in {"idle", "write"} /\ copy' \in {NoPolicy, copy}
      /\ pc' = "write" => copy' = copy
      /\ UNCHANGED <<registered, cache>>
  BY <1>1 DEF WriteStatus, Done, serverVars
<1>4. EarlyInv'
  BY <1>2, <1>3 DEF IInv, EarlyInv, CarefulUsers
<1>5. TracksItself(store)' /\ StoredIsAdmissible'
  BY <1>1, <1>2 DEF TracksItself, Backs, IInv, StoredIsAdmissible
<1>6. CacheInv' /\ WorkerInv'
  BY <1>1, <1>2, <1>3 DEF IInv, CacheInv, WorkerInv, Kept, Backs, TracksItself
<1> QED BY <1>4, <1>5, <1>6 DEF IInv

\* The informer catches up, or reads the store when the operator starts.
LEMMA CatchUpInv ==
  ASSUME IInv, Versions', cache' = store, UNCHANGED <<store, registered, pc, copy>>,
         pc # "removeFinalizer" \/ ~current' \/ copy = store
  PROVE  IInv'
<1>1. CacheInv'
  BY DEF IInv, CacheInv, Kept, Backs, TracksItself
<1>2. WorkerInv'
  BY DEF IInv, Versions, WorkerInv, Backs, TracksItself
<1> QED BY <1>1, <1>2, NothingStored

LEMMA SyncInv == ASSUME IInv, Versions', Sync PROVE IInv'
BY CatchUpInv DEF Sync, serverVars, workerVars, IInv, Versions

LEMMA BootInv == ASSUME IInv, Versions', Boot PROVE IInv'
BY CatchUpInv DEF Boot, workerVars, IInv, Versions

\* Memory is gone; installing the webhooks ends the care users had to take.
LEMMA HaltsInv ==
  ASSUME IInv, Versions', Halts, registered => registered'
  PROVE  IInv'
<1>1. CacheInv' /\ WorkerInv'
  BY DEF Halts, CacheInv, WorkerInv, Kept, TracksItself
<1>2. EarlyInv' /\ TracksItself(store)' /\ StoredIsAdmissible'
  BY DEF Halts, IInv, EarlyInv, CarefulUsers, TracksItself, StoredIsAdmissible
<1> QED BY <1>1, <1>2 DEF IInv

\* Nothing that matters here has changed.
LEMMA QuietInv ==
  ASSUME IInv, Versions', UNCHANGED <<store, registered, cache, workerVars>>
  PROVE  IInv'
<1>1. CacheInv' /\ WorkerInv'
  BY DEF IInv, CacheInv, WorkerInv, Kept, Backs, TracksItself, workerVars
<1> QED BY <1>1, NothingStored

LEMMA NextInv == IInv /\ [Next]_vars => IInv'
<1> SUFFICES ASSUME IInv, [Next]_vars PROVE IInv'
  OBVIOUS
<1>1. Versions'
  BY VersionsNext DEF IInv
<1>2. CASE UserActs
  BY <1>1, <1>2, CreateInv, EditInv, DeleteInv DEF UserActs
<1>3. CASE Reconcile
  <2>1. CASE FinalizerRefused
    BY <1>1, <2>1, PassEndsInv DEF FinalizerRefused, serverVars
  <2>2. CASE Paused \/ GiveUp
    BY <1>1, <2>2, PassEndsInv DEF Paused, GiveUp, serverVars
  <2>3. CASE WriteRefused
    BY <1>1, <2>3, PassEndsInv DEF WriteRefused, serverVars
  <2> QED BY <1>1, <1>3, <2>1, <2>2, <2>3, StartInv, AddFinalizerInv, RemoveFinalizerInv,
             ProcessInv, WriteStatusInv DEF Reconcile
<1>4. CASE Sync \/ Boot
  BY <1>1, <1>4, SyncInv, BootInv
<1>5. CASE Stop \/ Install
  BY <1>1, <1>5, HaltsInv DEF Stop, Install
<1>6. CASE BecomesReachable \/ BecomesUnreachable \/ UNCHANGED vars
  BY <1>1, <1>6, QuietInv DEF BecomesReachable, BecomesUnreachable, vars, serverVars
<1> QED BY <1>2, <1>3, <1>4, <1>5, <1>6 DEF Next

LEMMA Invariance == Guarded /\ AdmissionSpec => []IInv
<1>1. Guarded /\ Init => IInv
  BY InitInv
<1>2. IInv /\ [Next]_vars => IInv'
  BY NextInv
<1> QED BY <1>1, <1>2, PTL DEF AdmissionSpec

\* A pass works on the nodegroup that the stored policy names, once the
\* webhooks are there or users keep to one (HandleFinalizer and ValidateUpdate).
THEOREM OwnNodeGroup == Guarded /\ AdmissionSpec => []ActsOnOwnNodeGroup
<1>1. IInv => ActsOnOwnNodeGroup
  BY DEF IInv, WorkerInv, Backs, ActsOnOwnNodeGroup
<1> QED BY <1>1, Invariance, PTL

\* And a status names an update of the nodegroup that its spec names.
THEOREM OwnUpdate == Guarded /\ AdmissionSpec => []TracksOwnNodeGroup
<1>1. IInv => TracksOwnNodeGroup
  BY DEF IInv, TracksItself, TracksOwnNodeGroup
<1> QED BY <1>1, Invariance, PTL

\* What is stored has passed every check of creation, although updates are
\* not checked against EC2's regions.
THEOREM Admissible == Guarded /\ AdmissionSpec => []StoredIsAdmissible
<1>1. IInv => StoredIsAdmissible
  BY DEF IInv
<1> QED BY <1>1, Invariance, PTL
=============================================================================
