--------------------------- MODULE FinalizerProofs ---------------------------
(***************************************************************************)
(* FinalizerHolds for a single replica, every lag, every bound and every   *)
(* kind of fault.  With two it is false.                                   *)
(***************************************************************************)
EXTENDS WakeupProofs

OneReplica == \A r, s \in Replica : r = s

(***************************************************************************)
(* A worker goes past HandleFinalizer on what its cache says, and the      *)
(* cache may be behind.  Versions reach the cache in the order they were   *)
(* stored, so it is enough that no version which lets a worker pass is     *)
(* still to be seen, or in the cache, once the finalizer is gone.  The     *)
(* finalizer goes when the one worker that could hold such a version is    *)
(* itself removing it, with a copy that is current: it has seen them all.  *)
(***************************************************************************)

\* A version with which HandleFinalizer goes on without a write.
Passes(p) == p # NoPolicy /\ p.finalizer /\ ~p.deleting

Barred == {p \in MaybePolicy : ~Passes(p)}

Finalized == store # NoPolicy /\ store.finalizer

PastFinalizer == Label \ {"idle", "removeFinalizer", "addFinalizer"}

SeesNone(r) == ~Finalized => cache[r] \in Barred /\ watch[r] \in Seq(Barred)

HasSeenAll(r) ==
  pc[r] = "removeFinalizer" /\ current[r] => watch[r] = <<>> /\ ~Passes(cache[r])

Holds(r) == pc[r] \in PastFinalizer => Finalized

FinalInv == \A r \in Replica : SeesNone(r) /\ HasSeenAll(r) /\ Holds(r)

------------------------------------------------------------------------------
\* The steps that store nothing and move no event.
LEMMA QuietFinal ==
  ASSUME FinalInv, UNCHANGED <<store, cache, watch>>,
         \A r \in Replica :
           /\ pc'[r] = "removeFinalizer" /\ current'[r] =>
                pc[r] = "removeFinalizer" /\ current[r]
           /\ pc'[r] \in PastFinalizer => pc[r] \in PastFinalizer
  PROVE  FinalInv'
BY DEF FinalInv, SeesNone, HasSeenAll, Holds, Finalized, Passes

\* The steps that store a version and leave the finalizer, if there is one.
LEMMA PublishFinal ==
  ASSUME IInv, FinalInv, NEW new \in MaybePolicy, NEW holders, Publish(new, holders),
         UNCHANGED cache,
         Finalized => new # NoPolicy /\ new.finalizer,
         \A r \in Replica :
           /\ r \in holders => pc'[r] # "removeFinalizer"
           /\ pc'[r] \in PastFinalizer =>
                pc[r] \in PastFinalizer \/ (new # NoPolicy /\ new.finalizer)
  PROVE  FinalInv'
<1>1. store' = new /\ (Finalized' <=> new # NoPolicy /\ new.finalizer)
  BY DEF Publish, Finalized
<1>2. ASSUME NEW r \in Replica, ~Finalized' PROVE cache'[r] \in Barred /\ watch'[r] \in Seq(Barred)
  <2>1. cache[r] \in Barred /\ watch[r] \in Seq(Barred)
    BY <1>1, <1>2 DEF FinalInv, SeesNone
  <2>2. new \in Barred
    BY <1>1, <1>2 DEF Barred, Passes
  <2>3. Append(watch[r], new) \in Seq(Barred) /\ <<>> \in Seq(Barred)
    BY <2>1, <2>2, AppendSeq, EmptySeq
  <2>4. watch'[r] = IF active[r] THEN Append(watch[r], new) ELSE <<>>
    BY DEF Publish
  <2> QED BY <2>1, <2>3, <2>4
<1>3. ASSUME NEW r \in Replica PROVE HasSeenAll(r)'
  <2>1. current'[r] => pc'[r] # "removeFinalizer"
    BY DEF Publish
  <2> QED BY <2>1 DEF HasSeenAll
<1>4. ASSUME NEW r \in Replica PROVE Holds(r)'
  BY <1>1 DEF FinalInv, Holds
<1> QED
  BY <1>2, <1>3, <1>4 DEF FinalInv, SeesNone

\* The worker of the one replica goes from one step to the next.
LEMMA Moves ==
  ASSUME IInv, NEW r \in Replica, NEW label \in Label, Goto(r, label)
  PROVE  /\ pc'[r] = label
         /\ \A s \in Replica : s # r => pc'[s] = pc[s]
BY DEF Goto, IInv, ProcInv

\* A worker returns without a write.
LEMMA ReturnFinal ==
  ASSUME IInv, FinalInv, NEW r \in Replica, NEW delay, Return(r, delay)
  PROVE  FinalInv'
<1>1. /\ pc'[r] = "idle" /\ \A s \in Replica : s # r => pc'[s] = pc[s]
      /\ \A s \in Replica : s # r => current'[s] = current[s]
      /\ UNCHANGED <<store, cache, watch>>
  <2>1. Goto(r, "idle")
    BY DEF Return, Forget
  <2> QED BY <2>1, Moves DEF Label, Return, LetGo, IInv, PlaneInv
<1>2. "idle" \notin PastFinalizer
  BY DEF PastFinalizer
<1>3. \A s \in Replica :
        /\ pc'[s] = "removeFinalizer" /\ current'[s] => pc[s] = "removeFinalizer" /\ current[s]
        /\ pc'[s] \in PastFinalizer => pc[s] \in PastFinalizer
  BY <1>1, <1>2
<1> QED
  BY <1>1, <1>3, QuietFinal

\* A worker that is past the finalizer goes on without a write.
LEMMA LocalFinal ==
  ASSUME IInv, FinalInv, NEW r \in Replica, pc[r] \in PastFinalizer,
         NEW label \in PastFinalizer, Goto(r, label), UNCHANGED planeVars
  PROVE  FinalInv'
<1>1. pc'[r] = label /\ \A s \in Replica : s # r => pc'[s] = pc[s]
  BY Moves DEF PastFinalizer
<1>2. label # "removeFinalizer"
  BY DEF PastFinalizer
<1>3. \A s \in Replica :
        /\ pc'[s] = "removeFinalizer" /\ current'[s] => pc[s] = "removeFinalizer" /\ current[s]
        /\ pc'[s] \in PastFinalizer => pc[s] \in PastFinalizer
  BY <1>1, <1>2 DEF planeVars
<1> QED
  BY <1>3, QuietFinal DEF planeVars

------------------------------------------------------------------------------
\* The steps of a worker.

\* Taking the key: the cache lets it pass only when the store has the finalizer.
LEMMA StartFinal ==
  ASSUME IInv, FinalInv, NEW r \in Replica, Start(r)
  PROVE  FinalInv'
<1>1. pc[r] = "idle" /\ UNCHANGED <<store, cache, watch>>
  BY DEF Start
<1>2. CASE UNCHANGED <<pc, obj, current>>
  BY <1>1, <1>2, QuietFinal
<1>3. CASE ~(cache[r] = NoPolicy \/ AfterGet(cache[r]) = "idle")
  <2>1. cache[r] \in Policy
    BY <1>3 DEF IInv, PlaneInv, TruthfulCopy, MaybePolicy
  <2>2. AfterGet(cache[r]) \in Label
    BY DEF AfterGet, Label
  <2>3. /\ pc'[r] = AfterGet(cache[r]) /\ current'[r] = (watch[r] = <<>>)
        /\ \A s \in Replica : s # r => pc'[s] = pc[s] /\ current'[s] = current[s]
    BY <1>3, <2>2, Moves DEF Start, IInv, PlaneInv
  <2>4. pc'[r] = "removeFinalizer" => ~Passes(cache[r])
    BY <2>1, <2>3 DEF AfterGet, Passes, Policy
  <2>5. pc'[r] \in PastFinalizer => Passes(cache[r])
    BY <1>3, <2>1, <2>3 DEF AfterGet, Passes, Policy, PastFinalizer
  <2>6. Passes(cache[r]) => Finalized
    BY DEF FinalInv, SeesNone, Barred
  <2>7. HasSeenAll(r)' /\ Holds(r)'
    BY <1>1, <2>3, <2>4, <2>5, <2>6 DEF HasSeenAll, Holds, Passes, Finalized
  <2>8. \A s \in Replica : SeesNone(s)'
    BY <1>1 DEF FinalInv, SeesNone, Finalized
  <2>9. \A s \in Replica : s # r => HasSeenAll(s)' /\ Holds(s)'
    BY <1>1, <2>3 DEF FinalInv, HasSeenAll, Holds, Passes, Finalized
  <2> QED BY <2>7, <2>8, <2>9 DEF FinalInv
<1> QED
  BY <1>2, <1>3 DEF Start

\* Removing the finalizer: the one replica has seen every version, and its
\* worker returns.
LEMMA RemoveFinal ==
  ASSUME OneReplica, IInv, FinalInv, NEW r \in Replica, RemoveFinalizer(r)
  PROVE  FinalInv'
<1>1. /\ watch[r] = <<>> /\ ~Passes(cache[r])
      /\ Publish(NoPolicy, {}) /\ UNCHANGED cache
  BY DEF RemoveFinalizer, FinalInv, HasSeenAll
<1>2. NoPolicy \in Barred /\ cache[r] \in Barred
  BY <1>1 DEF Barred, Passes, MaybePolicy, IInv, PlaneInv, TruthfulCopy
<1>3. watch'[r] \in Seq(Barred)
  <2>1. Append(<<>>, NoPolicy) \in Seq(Barred) /\ <<>> \in Seq(Barred)
    BY <1>2, AppendSeq, EmptySeq
  <2>2. watch'[r] = IF active[r] THEN Append(watch[r], NoPolicy) ELSE <<>>
    BY <1>1 DEF Publish
  <2> QED BY <1>1, <2>1, <2>2
<1>4. pc'[r] = "idle"
  <2>1. Goto(r, "idle")
    BY DEF RemoveFinalizer, Forget
  <2> QED BY <2>1, Moves DEF Label
<1>5. SeesNone(r)' /\ HasSeenAll(r)' /\ Holds(r)'
  BY <1>1, <1>2, <1>3, <1>4 DEF SeesNone, HasSeenAll, Holds, PastFinalizer
<1> QED
  BY <1>5 DEF FinalInv, OneReplica

\* A write by a worker over the version it holds keeps the finalizer.
LEMMA WrittenFinalizer ==
  ASSUME IInv, NEW r \in Replica, current[r], obj[r] # NoPolicy
  PROVE  /\ [store EXCEPT !.status = obj[r].status] \in Policy
         /\ [store EXCEPT !.status = obj[r].status].finalizer = store.finalizer
         /\ [store EXCEPT !.finalizer = TRUE] \in Policy
         /\ [store EXCEPT !.finalizer = TRUE].finalizer
<1>1. store \in Policy /\ obj[r] \in Policy
  BY DEF IInv, Existing, PlaneInv, ProcInv, TruthfulCopy, MaybePolicy
<1>2. obj[r].status \in Status
  BY <1>1 DEF Policy
<1> QED
  BY <1>1, <1>2 DEF Policy

\* A worker returns with a write that keeps or adds the finalizer.
LEMMA WriteAndReturnFinal ==
  ASSUME IInv, FinalInv, NEW r \in Replica, Forget(r), NEW new \in Policy,
         Publish(new, {}), UNCHANGED cache, Finalized => new.finalizer
  PROVE  FinalInv'
<1>1. pc'[r] = "idle" /\ \A s \in Replica : s # r => pc'[s] = pc[s]
  <2>1. Goto(r, "idle")
    BY DEF Forget
  <2> QED BY <2>1, Moves DEF Label
<1>2. new \in MaybePolicy /\ new # NoPolicy
  BY NoPolicyAssumption DEF MaybePolicy
<1>3. \A s \in Replica : pc'[s] \in PastFinalizer => pc[s] \in PastFinalizer
  BY <1>1 DEF PastFinalizer
<1> QED
  BY <1>2, <1>3, PublishFinal

\* A worker goes on with the version it has written.
LEMMA WriteAndGoOnFinal ==
  ASSUME IInv, FinalInv, NEW r \in Replica, NEW label \in PastFinalizer, Goto(r, label),
         NEW new \in Policy, Publish(new, {r}), UNCHANGED cache,
         Finalized => new.finalizer, pc[r] \in PastFinalizer \/ new.finalizer
  PROVE  FinalInv'
<1>1. pc'[r] = label /\ \A s \in Replica : s # r => pc'[s] = pc[s]
  BY Moves DEF PastFinalizer
<1>2. new \in MaybePolicy /\ new # NoPolicy
  BY NoPolicyAssumption DEF MaybePolicy
<1>3. \A s \in Replica :
        /\ s \in {r} => pc'[s] # "removeFinalizer"
        /\ pc'[s] \in PastFinalizer => pc[s] \in PastFinalizer \/ (new # NoPolicy /\ new.finalizer)
  BY <1>1, <1>2 DEF PastFinalizer
<1> QED
  BY <1>2, <1>3, PublishFinal

LEMMA FinalizerFinal ==
  ASSUME OneReplica, IInv, FinalInv, NEW r \in Replica,
         \/ RemoveFinalizer(r) \/ AddFinalizer(r)
         \/ AddFinalizerUnanswered(r) \/ FinalizerError(r)
  PROVE  FinalInv'
<1>1. pc[r] # "idle" => obj[r] # NoPolicy
  BY DEF IInv, Working
<1>2. CASE RemoveFinalizer(r)
  BY <1>2, RemoveFinal
<1>3. CASE AddFinalizer(r)
  BY <1>1, <1>3, WrittenFinalizer, WriteAndGoOnFinal DEF AddFinalizer, PastFinalizer, Label
<1>4. CASE AddFinalizerUnanswered(r)
  BY <1>1, <1>4, WrittenFinalizer, WriteAndReturnFinal DEF AddFinalizerUnanswered
<1>5. CASE FinalizerError(r)
  BY <1>5, ReturnFinal DEF FinalizerError
<1> QED
  BY <1>2, <1>3, <1>4, <1>5

\* From the cache read to ResolveLatestAMI.
LEMMA ReadingFinal ==
  ASSUME IInv, FinalInv, NEW r \in Replica,
         \/ Start(r) \/ Paused(r) \/ MalformedStartAfter(r) \/ Skip(r)
         \/ NotDue(r) \/ Proceed(r) \/ ClientsError(r)
         \/ DescribeNodegroup(r) \/ DescribeNodegroupError(r)
         \/ DescribeCluster(r) \/ DescribeClusterError(r)
         \/ ResolveLatest(r) \/ ResolveUnsupported(r) \/ ResolveError(r)
  PROVE  FinalInv'
<1>1. CASE Paused(r) \/ MalformedStartAfter(r) \/ Skip(r) \/ ClientsError(r)
  BY <1>1, ReturnFinal DEF Paused, MalformedStartAfter, Skip, ClientsError
<1>2. CASE DescribeNodegroupError(r) \/ DescribeClusterError(r) \/ ResolveError(r)
  BY <1>2, ReturnFinal DEF DescribeNodegroupError, DescribeClusterError, ResolveError
<1>3. CASE NotDue(r) \/ Proceed(r)
  BY <1>3, LocalFinal DEF NotDue, Proceed, PastFinalizer, Label
<1>4. CASE DescribeNodegroup(r) \/ DescribeCluster(r)
  BY <1>4, LocalFinal DEF DescribeNodegroup, DescribeCluster, PastFinalizer, Label
<1>5. CASE ResolveLatest(r) \/ ResolveUnsupported(r)
  BY <1>5, LocalFinal DEF ResolveLatest, ResolveUnsupported, PastFinalizer, Label
<1> QED
  BY <1>1, <1>2, <1>3, <1>4, <1>5, StartFinal

\* ProcessUpgrade up to its write.
LEMMA ProcessFinal ==
  ASSUME IInv, FinalInv, NEW r \in Replica,
         \/ Poll(r) \/ PollError(r) \/ Assess(r)
         \/ Initiate(r) \/ InitiateUnanswered(r) \/ InitiateRefused(r)
  PROVE  FinalInv'
<1>1. PICK status : Settle(r, status)
  BY DEF Poll, PollError, Assess, Initiate, InitiateUnanswered, InitiateRefused
<1>2. pc[r] = "process"
  BY DEF Poll, PollError, Assess, Initiate, InitiateUnanswered, InitiateRefused, Upgrades
<1> QED
  BY <1>1, <1>2, LocalFinal DEF Settle, PastFinalizer, Label

\* The two status writes.
LEMMA WritingFinal ==
  ASSUME IInv, FinalInv, NEW r \in Replica,
         \/ WriteStatus(r) \/ WriteUnanswered(r) \/ WriteError(r)
         \/ Stamp(r) \/ StampError(r)
  PROVE  FinalInv'
<1> DEFINE new == [store EXCEPT !.status = obj[r].status]
<1>1. pc[r] \in {"write", "stamp"}
  BY DEF WriteStatus, WriteUnanswered, WriteError, Stamp, StampError
<1>2. pc[r] \in PastFinalizer /\ obj[r] # NoPolicy
  BY <1>1 DEF PastFinalizer, Label, IInv, Working
<1>3. current[r] => new \in Policy /\ new.finalizer = store.finalizer
  BY <1>2, WrittenFinalizer
<1>4. Finalized => store.finalizer
  BY DEF Finalized
<1> HIDE DEF new
<1>5. CASE WriteStatus(r)
  <2>1. /\ current[r] /\ UNCHANGED cache
        /\ IF InFlight(obj[r].status) THEN Publish(new, {}) /\ Forget(r)
                                      ELSE Publish(new, {r}) /\ Goto(r, "stamp")
    BY <1>5 DEF WriteStatus, new
  <2>2. CASE InFlight(obj[r].status)
    BY <1>3, <1>4, <2>1, <2>2, WriteAndReturnFinal
  <2>3. CASE ~InFlight(obj[r].status)
    BY <1>2, <1>3, <1>4, <2>1, <2>3, WriteAndGoOnFinal DEF PastFinalizer, Label
  <2> QED BY <2>2, <2>3
<1>6. CASE WriteUnanswered(r) \/ Stamp(r)
  <2>1. current[r] /\ Publish(new, {}) /\ Forget(r) /\ UNCHANGED cache
    BY <1>6 DEF WriteUnanswered, Stamp, new
  <2> QED BY <1>3, <1>4, <2>1, WriteAndReturnFinal
<1>7. CASE WriteError(r) \/ StampError(r)
  BY <1>7, ReturnFinal DEF WriteError, StampError
<1> QED
  BY <1>5, <1>6, <1>7

------------------------------------------------------------------------------
\* The steps of everything around the workers.

\* The version moves from `watch` to the cache.
LEMMA InformerFinal ==
  ASSUME IInv, FinalInv, NEW r \in Replica, Informer(r)
  PROVE  FinalInv'
<1>1. /\ watch[r] # <<>>
      /\ cache' = [cache EXCEPT ![r] = Head(watch[r])]
      /\ watch' = [watch EXCEPT ![r] = Tail(watch[r])]
      /\ UNCHANGED <<store, pc, current>>
  BY DEF Informer, Deliver, procVars
<1>2. ASSUME NEW s \in Replica, s # r PROVE cache'[s] = cache[s] /\ watch'[s] = watch[s]
  BY <1>1, <1>2 DEF IInv, PlaneInv
<1>3. cache'[r] = Head(watch[r]) /\ watch'[r] = Tail(watch[r])
  BY <1>1 DEF IInv, PlaneInv
<1>4. SeesNone(r)'
  <2>1. watch[r] \in Seq(Barred) => Head(watch[r]) \in Barred /\ Tail(watch[r]) \in Seq(Barred)
    BY <1>1, TailSeq
  <2> QED BY <1>1, <1>3, <2>1 DEF FinalInv, SeesNone, Finalized
<1>5. HasSeenAll(r)'
  BY <1>1 DEF FinalInv, HasSeenAll
<1>6. \A s \in Replica : s # r => SeesNone(s)' /\ HasSeenAll(s)'
  BY <1>1, <1>2 DEF FinalInv, SeesNone, HasSeenAll, Finalized, Passes
<1>7. \A s \in Replica : Holds(s)'
  BY <1>1 DEF FinalInv, Holds, Finalized
<1> QED
  BY <1>4, <1>5, <1>6, <1>7 DEF FinalInv

\* A replica starts with what is stored.
LEMMA BootFinal ==
  ASSUME IInv, FinalInv, NEW r \in Replica, BootReplica(r)
  PROVE  FinalInv'
<1>1. /\ ~active[r] /\ cache' = [cache EXCEPT ![r] = store]
      /\ UNCHANGED <<store, watch, current, pc>>
  BY DEF BootReplica, Boot, procVars
<1>2. ASSUME NEW s \in Replica, s # r PROVE cache'[s] = cache[s]
  BY <1>1, <1>2 DEF IInv, PlaneInv
<1>3. cache'[r] = store /\ watch[r] = <<>> /\ pc[r] = "idle"
  BY <1>1 DEF IInv, PlaneInv, InSync, Working
<1>4. SeesNone(r)'
  <2>1. ~Finalized => store \in Barred
    BY DEF Finalized, Barred, Passes, IInv, PlaneInv, TruthfulCopy
  <2> QED BY <1>1, <1>3, <2>1, EmptySeq DEF SeesNone, Finalized
<1>5. HasSeenAll(r)'
  BY <1>1, <1>3 DEF HasSeenAll
<1>6. \A s \in Replica : s # r => SeesNone(s)' /\ HasSeenAll(s)'
  BY <1>1, <1>2 DEF FinalInv, SeesNone, HasSeenAll, Finalized, Passes
<1>7. \A s \in Replica : Holds(s)'
  BY <1>1 DEF FinalInv, Holds, Finalized
<1> QED
  BY <1>4, <1>5, <1>6, <1>7 DEF FinalInv

\* A replica that stops forgets what it has seen.
LEMMA CrashFinal ==
  ASSUME IInv, FinalInv, NEW r \in Replica, Crash(r)
  PROVE  FinalInv'
<1>1. /\ cache' = [cache EXCEPT ![r] = NoPolicy] /\ watch' = [watch EXCEPT ![r] = <<>>]
      /\ current' = [current EXCEPT ![r] = FALSE] /\ pc' = [pc EXCEPT ![r] = "idle"]
      /\ UNCHANGED store
  BY DEF Crash, Halt, Forget, Goto
<1>2. ASSUME NEW s \in Replica, s # r
      PROVE  /\ cache'[s] = cache[s] /\ watch'[s] = watch[s]
             /\ current'[s] = current[s] /\ pc'[s] = pc[s]
  BY <1>1, <1>2 DEF IInv, PlaneInv, ProcInv
<1>3. cache'[r] = NoPolicy /\ watch'[r] = <<>> /\ pc'[r] = "idle"
  BY <1>1 DEF IInv, PlaneInv, ProcInv
<1>4. SeesNone(r)' /\ HasSeenAll(r)' /\ Holds(r)'
  <2>1. NoPolicy \in Barred /\ <<>> \in Seq(Barred)
    BY EmptySeq DEF Barred, Passes, MaybePolicy
  <2> QED BY <1>3, <2>1 DEF SeesNone, HasSeenAll, Holds, PastFinalizer
<1>5. \A s \in Replica : s # r => SeesNone(s)' /\ HasSeenAll(s)' /\ Holds(s)'
  BY <1>1, <1>2 DEF FinalInv, SeesNone, HasSeenAll, Holds, Finalized, Passes
<1> QED
  BY <1>4, <1>5 DEF FinalInv

\* Time ages statuses, and no finalizer.
LEMMA CooldownFinal ==
  ASSUME IInv, FinalInv, CooldownElapses
  PROVE  FinalInv'
<1> DEFINE aged(r) == [i \in DOMAIN watch[r] |-> AgedPolicy(watch[r][i])]
<1>1. /\ store' = AgedPolicy(store) /\ watch' = [r \in Replica |-> aged(r)]
      /\ cache' = [r \in Replica |-> AgedPolicy(cache[r])]
      /\ UNCHANGED <<current, pc>>
  BY DEF CooldownElapses
<1>2. /\ store \in MaybePolicy /\ cache \in [Replica -> MaybePolicy]
      /\ watch \in [Replica -> Seq(MaybePolicy)]
  <2>1. TruthfulCopy(updates) \subseteq MaybePolicy
    BY DEF TruthfulCopy
  <2>2. \A r \in Replica : watch[r] \in Seq(MaybePolicy)
    BY <2>1 DEF IInv, PlaneInv
  <2> QED BY <2>1, <2>2 DEF IInv, PlaneInv
<1>3. \A p \in MaybePolicy : /\ AgedPolicy(p) \in MaybePolicy
                             /\ Passes(AgedPolicy(p)) <=> Passes(p)
  <2> SUFFICES ASSUME NEW p \in MaybePolicy
               PROVE  AgedPolicy(p) \in MaybePolicy /\ (Passes(AgedPolicy(p)) <=> Passes(p))
    OBVIOUS
  <2>1. Passes(AgedPolicy(p)) <=> Passes(p)
    BY AgedGeneration DEF Passes
  <2>2. CASE p = NoPolicy
    BY <2>1, <2>2 DEF AgedPolicy
  <2>3. CASE p # NoPolicy
    <3>1. p \in Policy /\ AgedPolicy(p) = [p EXCEPT !.status = Aged(p.status)]
      BY <2>3 DEF AgedPolicy, MaybePolicy
    <3>2. p.status \in Status
      BY <3>1 DEF Policy
    <3>3. Aged(p.status) \in Status
      BY <3>2 DEF Aged, Status
    <3>4. AgedPolicy(p) \in Policy
      BY <3>1, <3>3 DEF Policy
    <3> QED BY <2>1, <3>4 DEF MaybePolicy
  <2> QED BY <2>2, <2>3
<1>4. Finalized' <=> Finalized
  BY <1>1, <1>2, AgedGeneration DEF Finalized
<1>5. ASSUME NEW r \in Replica PROVE SeesNone(r)' /\ HasSeenAll(r)' /\ Holds(r)'
  <2>1. cache'[r] = AgedPolicy(cache[r]) /\ watch'[r] = aged(r)
    BY <1>1
  <2>2. ASSUME watch[r] \in Seq(Barred) PROVE aged(r) \in Seq(Barred)
    <3>1. \A i \in DOMAIN watch[r] : watch[r][i] \in Barred
      BY <2>2, ElementOfSeq
    <3>2. \A p \in Barred : AgedPolicy(p) \in Barred
      BY <1>3 DEF Barred
    <3>3. aged(r) \in [DOMAIN watch[r] -> Barred]
      BY <3>1, <3>2
    <3> HIDE DEF aged
    <3> QED BY <2>2, <3>3, MapSeq
  <2>3. watch[r] = <<>> => aged(r) = <<>>
    <3>1. watch[r] \in Seq(MaybePolicy)
      BY <1>2
    <3>2. aged(r) \in [DOMAIN watch[r] -> MaybePolicy]
      BY <1>3, <3>1, ElementOfSeq
    <3> HIDE DEF aged
    <3> QED BY <3>1, <3>2, MapSeq
  <2> HIDE DEF aged
  <2>4. SeesNone(r)'
    BY <1>2, <1>3, <1>4, <2>1, <2>2 DEF FinalInv, SeesNone, Barred
  <2>5. HasSeenAll(r)'
    BY <1>1, <1>2, <1>3, <2>1, <2>3 DEF FinalInv, HasSeenAll
  <2>6. Holds(r)'
    BY <1>1, <1>4 DEF FinalInv, Holds
  <2> QED BY <2>4, <2>5, <2>6
<1> QED
  BY <1>5 DEF FinalInv

\* AWS, the queue's timer, and steps of nobody.
LEMMA ElsewhereFinal ==
  ASSUME FinalInv, UNCHANGED <<store, cache, watch, current, pc>>
  PROVE  FinalInv'
BY QuietFinal

\* kubectl: only an object without a finalizer goes at once.
LEMMA SomebodyFinal ==
  ASSUME IInv, FinalInv, SomebodyActs
  PROVE  FinalInv'
<1>1. UNCHANGED pc /\ store \in MaybePolicy
  BY DEF SomebodyActs, procVars, IInv, PlaneInv, TruthfulCopy
<1>2. ASSUME NEW new \in MaybePolicy, Publish(new, {}), UNCHANGED cache,
             Finalized => new # NoPolicy /\ new.finalizer
      PROVE  FinalInv'
  BY <1>1, <1>2, PublishFinal
<1>3. CASE Delete
  <2>1. store \in Policy
    BY <1>1, <1>3 DEF Delete, MaybePolicy
  <2>2. CASE store.finalizer
    <3> DEFINE new == [store EXCEPT !.deleting = TRUE]
    <3>1. new \in Policy /\ new.finalizer
      BY <2>1, <2>2 DEF Policy
    <3>2. new \in MaybePolicy /\ new # NoPolicy
      BY <3>1, NoPolicyAssumption DEF MaybePolicy
    <3>3. Publish(new, {}) /\ UNCHANGED cache
      BY <1>3, <2>2 DEF Delete
    <3> QED BY <1>2, <3>1, <3>2, <3>3
  <2>3. CASE ~store.finalizer
    <3>1. Publish(NoPolicy, {}) /\ UNCHANGED cache /\ ~Finalized /\ NoPolicy \in MaybePolicy
      BY <1>3, <2>3 DEF Delete, Finalized, MaybePolicy
    <3> QED BY <1>2, <3>1
  <2> QED BY <2>2, <2>3
<1>4. ASSUME NEW spec \in Specs, Apply(spec) PROVE FinalInv'
  <2>1. spec \in PolicySpec
    BY SpecsAssumption
  <2>2. CASE store = NoPolicy
    <3>1. Fresh(spec) \in MaybePolicy
      BY <2>1, FreshCopy DEF TruthfulCopy
    <3>2. Publish(Fresh(spec), {}) /\ UNCHANGED cache /\ ~Finalized
      BY <1>4, <2>2 DEF Apply, Finalized
    <3> QED BY <1>2, <3>1, <3>2
  <2>3. CASE store # NoPolicy
    <3> DEFINE new == [store EXCEPT !.spec = spec]
    <3>1. new \in Policy /\ new.finalizer = store.finalizer
      BY <1>1, <2>1, <2>3 DEF Policy, MaybePolicy
    <3>2. new \in MaybePolicy /\ new # NoPolicy
      BY <3>1, NoPolicyAssumption DEF MaybePolicy
    <3>3. Publish(new, {}) /\ UNCHANGED cache
      BY <1>4, <2>3 DEF Apply
    <3> QED BY <1>2, <3>1, <3>2, <3>3 DEF Finalized
  <2> QED BY <2>2, <2>3
<1>5. CASE UNCHANGED planeVars
  BY <1>1, <1>5, ElsewhereFinal DEF planeVars
<1> QED
  BY <1>3, <1>4, <1>5 DEF SomebodyActs

------------------------------------------------------------------------------
\* Nothing has a finalizer before a worker adds it.
LEMMA InitFinal ==
  ASSUME IInv, Init
  PROVE  FinalInv
<1>1. PICK spec \in Specs : store = Fresh(spec)
  BY DEF Init, PlaneInit
<1>2. store \in Barred /\ NoPolicy \in Barred /\ <<>> \in Seq(Barred)
  BY <1>1, EmptySeq DEF IInv, PlaneInv, TruthfulCopy, Barred, Passes, Fresh, MaybePolicy
<1>3. ASSUME NEW r \in Replica PROVE SeesNone(r) /\ HasSeenAll(r) /\ Holds(r)
  BY <1>2 DEF Init, PlaneInit, SeesNone, HasSeenAll, Holds, PastFinalizer
<1> QED
  BY <1>3 DEF FinalInv

LEMMA NextFinal ==
  ASSUME OneReplica, IInv, FinalInv, [Next]_vars
  PROVE  FinalInv'
<1>1. CASE UNCHANGED vars
  BY <1>1, ElsewhereFinal DEF vars, planeVars, procVars
<1>2. ASSUME NEW r \in Replica,
             Reconcile(r) \/ Informer(r) \/ Timer(r) \/ BootReplica(r) \/ Crash(r)
      PROVE  FinalInv'
  <2>1. CASE Reconcile(r)
    BY <2>1, ReadingFinal, FinalizerFinal, ProcessFinal, WritingFinal DEF Reconcile
  <2>2. CASE Timer(r)
    BY <2>2, ElsewhereFinal DEF Timer, Fire, procVars
  <2> QED BY <1>2, <2>1, <2>2, InformerFinal, BootFinal, CrashFinal
<1>3. CASE StartAfterPasses \/ AWSMoves \/ \E id \in UpdateId : UpdateEnds(id)
  BY <1>3, ElsewhereFinal DEF StartAfterPasses, AWSMoves, UpdateEnds, planeVars, procVars
<1> QED
  BY <1>1, <1>2, <1>3, CooldownFinal, SomebodyFinal DEF Next

\* What the one replica writes or starts always belongs to an object that is
\* still there and that its finalizer holds back, however stale the cache it
\* decided on (HandleFinalizer).
THEOREM FinalizerHoldsAlone ==
  ASSUME OneReplica
  PROVE  Spec => []FinalizerHolds
<1>1. Init => IInv
  BY InitInv
<1>2. IInv /\ Init => FinalInv
  BY InitFinal
<1>3. IInv /\ FinalInv /\ [Next]_vars => FinalInv'
  BY NextFinal
<1>4. IInv /\ FinalInv => FinalizerHolds
  BY DEF IInv, ProcInv, FinalInv, Holds, Finalized, PastFinalizer, FinalizerHolds
<1> QED
  BY <1>1, <1>2, <1>3, <1>4, Invariant, PTL DEF Spec
=============================================================================
