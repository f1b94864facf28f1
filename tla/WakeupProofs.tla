---------------------------- MODULE WakeupProofs ----------------------------
(***************************************************************************)
(* NoLostWakeup for every set of replicas, every lag, every bound and      *)
(* every kind of fault.                                                    *)
(***************************************************************************)
EXTENDS ReconcilerProofs

(***************************************************************************)
(* NoLostWakeup is not inductive.  A worker that returns without asking to *)
(* be called again (Paused, or nothing to do) decided so on a copy, the    *)
(* copy came from a cache, and the cache may be behind.  The predicate     *)
(* accepts an event when the generation it looks at, spec and deletion,    *)
(* differs, so "accepted by none" is an equivalence, and three facts       *)
(* chain: a copy of another generation than the cache has its key queued   *)
(* already; a cache of another generation than the store has an accepted   *)
(* event before it; and a copy of the store's generation decides rightly.  *)
(***************************************************************************)

\* The i-th version an informer sees that has version c and is to see w.
Version(c, w, i) == IF i = 0 THEN c ELSE w[i]

Pending(c, w) == \E i \in 1..Len(w) : Accepts(Version(c, w, i - 1), Version(c, w, i))

\* From any version on: unless an event still to come is accepted, it is of
\* the generation of s.
LeadsTo(c, w, s) ==
  \A i \in 0..Len(w) :
    (\A j \in (i + 1)..Len(w) : ~Accepts(Version(c, w, j - 1), Version(c, w, j)))
      => ~Accepts(Version(c, w, i), s)

Told(r) == active[r] => LeadsTo(cache[r], watch[r], store)

\* Unless its key is queued again, a worker's copy is of the cache's generation;
\* past HandleFinalizer it is not being deleted.
OfItsCache(r) ==
  pc[r] # "idle" =>
    /\ ~queued[r] => ~Accepts(obj[r], cache[r])
    /\ pc[r] # "removeFinalizer" => ~obj[r].deleting

Woken(r) ==
  active[r] /\ pc[r] = "idle" /\ NeedsWork(store) =>
    queued[r] \/ wait[r] # "none" \/ EventPending(r)

\* Only the finalizer holds back an object that is being deleted.
Sound == {p \in MaybePolicy : p # NoPolicy /\ p.deleting => p.finalizer}

SoundInv ==
  /\ store \in Sound
  /\ cache \in [Replica -> Sound]
  /\ watch \in [Replica -> Seq(Sound)]

WakeInv == SoundInv /\ \A r \in Replica : Told(r) /\ OfItsCache(r) /\ Woken(r)

------------------------------------------------------------------------------
\* Generations.

\* Being accepted by none is an equivalence, and decides what needs work.
LEMMA Generations ==
  /\ \A a : ~Accepts(a, a)
  /\ \A a, b : ~Accepts(a, b) => ~Accepts(b, a)
  /\ \A a, b, c : ~Accepts(a, b) /\ ~Accepts(b, c) => ~Accepts(a, c)
  /\ \A a, b : ~Accepts(a, b) => (NeedsWork(a) <=> NeedsWork(b))
BY DEF Accepts, NeedsWork

\* The finalizer leaves the generation alone.
LEMMA SameGeneration ==
  ASSUME NEW p \in MaybePolicy, p # NoPolicy
  PROVE  ~Accepts([p EXCEPT !.finalizer = TRUE], p)
<1>1. p \in Policy
  BY DEF MaybePolicy
<1>2. [p EXCEPT !.finalizer = TRUE] \in Policy
  BY <1>1 DEF Policy
<1>3. [p EXCEPT !.finalizer = TRUE] # NoPolicy
  BY <1>2, NoPolicyAssumption
<1> QED
  BY <1>1, <1>3 DEF Accepts, Policy

------------------------------------------------------------------------------
\* What an informer is about to see.

\* EventPending is about the versions to come.
LEMMA PendingEvent ==
  ASSUME NEW c, NEW w, Len(w) \in Nat
  PROVE  Pending(c, w) <=>
           \E i \in 1..Len(w) : Accepts(IF i = 1 THEN c ELSE w[i - 1], w[i])
<1>1. \A i \in 1..Len(w) :
        /\ Version(c, w, i) = w[i]
        /\ Version(c, w, i - 1) = IF i = 1 THEN c ELSE w[i - 1]
  BY DEF Version
<1> QED
  BY <1>1 DEF Pending

\* With nothing accepted to come, the cache is of the generation it leads to.
LEMMA NothingPending ==
  ASSUME NEW S, NEW w \in Seq(S), NEW c, NEW s, LeadsTo(c, w, s), ~Pending(c, w)
  PROVE  ~Accepts(c, s)
<1>1. Len(w) \in Nat /\ Version(c, w, 0) = c
  BY DEF Version
<1>2. \A j \in (0 + 1)..Len(w) : ~Accepts(Version(c, w, j - 1), Version(c, w, j))
  BY <1>1 DEF Pending
<1>3. 0 \in 0..Len(w)
  BY <1>1
<1> QED
  BY <1>1, <1>2, <1>3 DEF LeadsTo

\* One more version to see.
LEMMA AppendLeadsTo ==
  ASSUME NEW S, NEW w \in Seq(S), NEW c, NEW s, NEW new \in S,
         LeadsTo(c, w, s), Version(c, w, Len(w)) = s
  PROVE  /\ LeadsTo(c, Append(w, new), new)
         /\ Pending(c, w) => Pending(c, Append(w, new))
         /\ Accepts(s, new) => Pending(c, Append(w, new))
<1> DEFINE n == Len(w)
           v == Append(w, new)
<1>1. n \in Nat /\ Len(v) = n + 1 /\ v[n + 1] = new /\ \A i \in 1..n : v[i] = w[i]
  BY AppendProperties
<1>2. /\ \A i \in 0..n : Version(c, v, i) = Version(c, w, i)
      /\ Version(c, v, n + 1) = new
  BY <1>1 DEF Version
<1>3. Version(c, w, n) = s
  OBVIOUS
<1> HIDE DEF n, v
<1>4. LeadsTo(c, v, new)
  <2> SUFFICES ASSUME NEW i \in 0..(n + 1),
                      \A j \in (i + 1)..(n + 1) : ~Accepts(Version(c, v, j - 1), Version(c, v, j))
               PROVE  ~Accepts(Version(c, v, i), new)
    BY <1>1 DEF LeadsTo
  <2>1. CASE i = n + 1
    BY <1>2, <2>1, Generations
  <2>2. CASE i \in 0..n
    <3>1. ASSUME NEW j \in (i + 1)..n
          PROVE  ~Accepts(Version(c, w, j - 1), Version(c, w, j))
      <4>1. j \in (i + 1)..(n + 1) /\ j \in 0..n /\ j - 1 \in 0..n
        BY <1>1, <2>2
      <4> QED BY <1>2, <4>1
    <3>2. ~Accepts(Version(c, w, i), s)
      BY <2>2, <3>1 DEF LeadsTo, n
    <3>3. ~Accepts(s, new)
      <4>1. n + 1 \in (i + 1)..(n + 1) /\ (n + 1) - 1 = n /\ n \in 0..n
        BY <1>1, <2>2
      <4>2. ~Accepts(Version(c, v, n), Version(c, v, n + 1))
        BY <4>1
      <4> QED BY <1>2, <1>3, <4>1, <4>2
    <3> QED BY <1>2, <2>2, <3>2, <3>3, Generations
  <2> QED BY <1>1, <2>1, <2>2
<1>5. ASSUME Pending(c, w) PROVE Pending(c, v)
  <2>1. PICK i \in 1..n : Accepts(Version(c, w, i - 1), Version(c, w, i))
    BY <1>5 DEF Pending, n
  <2>2. i \in 1..(n + 1) /\ i \in 0..n /\ i - 1 \in 0..n
    BY <1>1
  <2> QED BY <1>1, <1>2, <2>1, <2>2 DEF Pending
<1>6. ASSUME Accepts(s, new) PROVE Pending(c, v)
  <2>1. n + 1 \in 1..(n + 1) /\ (n + 1) - 1 = n /\ n \in 0..n
    BY <1>1
  <2>2. Accepts(Version(c, v, (n + 1) - 1), Version(c, v, n + 1))
    BY <1>2, <1>3, <1>6, <2>1
  <2> QED BY <1>1, <2>1, <2>2 DEF Pending
<1> QED
  BY <1>4, <1>5, <1>6 DEF v

\* One version fewer.
LEMMA TailLeadsTo ==
  ASSUME NEW S, NEW w \in Seq(S), w # <<>>, NEW c, NEW s, LeadsTo(c, w, s)
  PROVE  /\ LeadsTo(Head(w), Tail(w), s)
         /\ Pending(c, w) /\ ~Accepts(c, Head(w)) => Pending(Head(w), Tail(w))
<1> DEFINE n == Len(w)
           h == Head(w)
           t == Tail(w)
<1>1. /\ n \in Nat \ {0} /\ Len(t) = n - 1 /\ h = w[1]
      /\ \A i \in 1..(n - 1) : t[i] = w[i + 1]
  BY HeadTailProperties, EmptySeq
<1>2. \A i \in 0..(n - 1) : Version(h, t, i) = Version(c, w, i + 1)
  BY <1>1 DEF Version
<1>3. Version(c, w, 0) = c /\ Version(c, w, 1) = h
  BY <1>1 DEF Version
<1> HIDE DEF n, h, t
<1>4. LeadsTo(h, t, s)
  <2> SUFFICES ASSUME NEW i \in 0..(n - 1),
                      \A j \in (i + 1)..(n - 1) : ~Accepts(Version(h, t, j - 1), Version(h, t, j))
               PROVE  ~Accepts(Version(h, t, i), s)
    BY <1>1 DEF LeadsTo
  <2>1. ASSUME NEW j \in ((i + 1) + 1)..n
        PROVE  ~Accepts(Version(c, w, j - 1), Version(c, w, j))
    <3>1. /\ j - 1 \in (i + 1)..(n - 1) /\ (j - 1) - 1 \in 0..(n - 1) /\ j - 1 \in 0..(n - 1)
          /\ (j - 1) + 1 = j /\ ((j - 1) - 1) + 1 = j - 1
      BY <1>1
    <3>2. ~Accepts(Version(h, t, (j - 1) - 1), Version(h, t, j - 1))
      BY <3>1
    <3> QED BY <1>2, <3>1, <3>2
  <2>2. i + 1 \in 0..n
    BY <1>1
  <2>3. ~Accepts(Version(c, w, i + 1), s)
    BY <2>1, <2>2 DEF LeadsTo, n
  <2> QED BY <1>2, <2>3
<1>5. ASSUME Pending(c, w), ~Accepts(c, h) PROVE Pending(h, t)
  <2>1. PICK i \in 1..n : Accepts(Version(c, w, i - 1), Version(c, w, i))
    BY <1>5 DEF Pending, n
  <2>2. i # 1
    BY <1>3, <1>5, <2>1
  <2>3. /\ i - 1 \in 1..(n - 1) /\ (i - 1) - 1 \in 0..(n - 1) /\ i - 1 \in 0..(n - 1)
        /\ (i - 1) + 1 = i /\ ((i - 1) - 1) + 1 = i - 1
    BY <1>1, <2>2
  <2>4. Accepts(Version(h, t, (i - 1) - 1), Version(h, t, i - 1))
    BY <1>2, <2>1, <2>3
  <2> QED BY <1>1, <2>3, <2>4 DEF Pending
<1> QED
  BY <1>4, <1>5 DEF h, t

------------------------------------------------------------------------------
\* What a step may do to a worker: it does not start one, it keeps the
\* generation of a copy, and a worker that returns is called again, or is not
\* needed when `needed` is false.
Turn(r, needed) ==
  /\ pc'[r] = "idle" =>
       \/ pc[r] = "idle" /\ wait'[r] = wait[r]
       \/ wait'[r] # "none"
       \/ ~needed
       \/ queued[r] \/ EventPending(r)
  /\ pc'[r] # "idle" =>
       /\ pc[r] # "idle" /\ obj[r] # NoPolicy
       /\ pc[r] = "removeFinalizer" => pc'[r] = "removeFinalizer"
       /\ ~Accepts(obj'[r], obj[r])

\* A step that stores nothing and moves no event.
LEMMA Unstored ==
  ASSUME PlaneInv, WakeInv, UNCHANGED <<store, active, cache, watch, queued>>,
         \A r \in Replica : Turn(r, NeedsWork(store))
  PROVE  WakeInv'
<1>1. SoundInv'
  BY DEF WakeInv, SoundInv
<1>2. ASSUME NEW r \in Replica PROVE Told(r)' /\ OfItsCache(r)' /\ Woken(r)'
  <2>1. Told(r)'
    BY DEF WakeInv, Told
  <2>2. OfItsCache(r)'
    BY Generations DEF WakeInv, OfItsCache, Turn, Accepts
  <2>3. EventPending(r)' <=> EventPending(r)
    BY DEF EventPending
  <2>4. Woken(r)'
    BY <2>3 DEF WakeInv, Woken, Turn
  <2> QED BY <2>1, <2>2, <2>4
<1> QED
  BY <1>1, <1>2 DEF WakeInv

\* What a version that is stored does to a running informer's events: one of
\* another generation is an event that will be accepted.
LEMMA Announced ==
  ASSUME IInv, WakeInv, PlaneInv', NEW new \in TruthfulCopy(updates),
         NEW holders, Publish(new, holders), UNCHANGED <<active, cache>>,
         NEW r \in Replica, active[r]
  PROVE  /\ Told(r)'
         /\ EventPending(r) \/ Accepts(store, new) => EventPending(r)'
<1>1. watch[r] \in Seq(TruthfulCopy(updates)) /\ watch'[r] = Append(watch[r], new)
  BY DEF IInv, PlaneInv, Publish
<1>2. LeadsTo(cache[r], watch[r], store)
  BY DEF WakeInv, Told
<1>3. Version(cache[r], watch[r], Len(watch[r])) = store
  <2>1. Len(watch[r]) = 0 <=> watch[r] = <<>>
    BY <1>1, EmptySeq
  <2> QED BY <2>1 DEF IInv, InSync, Version
<1>4. /\ LeadsTo(cache[r], Append(watch[r], new), new)
      /\ Pending(cache[r], watch[r]) => Pending(cache[r], Append(watch[r], new))
      /\ Accepts(store, new) => Pending(cache[r], Append(watch[r], new))
  BY <1>1, <1>2, <1>3, AppendLeadsTo
<1>5. Told(r)'
  BY <1>1, <1>4 DEF Told, Publish
<1>6. EventPending(r) <=> Pending(cache[r], watch[r])
  BY <1>1, PendingEvent DEF EventPending
<1>7. EventPending(r)' <=> Pending(cache'[r], watch'[r])
  <2>1. Len(watch'[r]) \in Nat
    BY DEF PlaneInv
  <2> QED BY <2>1, PendingEvent DEF EventPending
<1> QED
  BY <1>1, <1>4, <1>5, <1>6, <1>7

\* A step that stores a version.
LEMMA Stored ==
  ASSUME IInv, WakeInv, PlaneInv', NEW new \in TruthfulCopy(updates), new \in Sound,
         NEW holders, Publish(new, holders), UNCHANGED <<active, cache, queued>>,
         \A r \in Replica : Turn(r, NeedsWork(new))
  PROVE  WakeInv'
<1>1. store' = new
  BY DEF Publish
<1>2. SoundInv'
  <2>1. \A r \in Replica : watch[r] \in Seq(Sound)
    BY DEF WakeInv, SoundInv
  <2>2. \A r \in Replica : Append(watch[r], new) \in Seq(Sound)
    BY <2>1, AppendSeq
  <2>3. watch' \in [Replica -> Seq(Sound)]
    BY <2>2, EmptySeq DEF Publish
  <2> QED BY <1>1, <2>3 DEF WakeInv, SoundInv
<1>3. ASSUME NEW r \in Replica PROVE Told(r)' /\ OfItsCache(r)' /\ Woken(r)'
  <2>1. OfItsCache(r)'
    BY Generations DEF WakeInv, OfItsCache, Turn, Accepts
  <2>2. CASE ~active[r]
    BY <2>1, <2>2 DEF Told, Woken
  <2>3. CASE active[r]
    <3>1. Told(r)' /\ (EventPending(r) \/ Accepts(store, new) => EventPending(r)')
      BY <2>3, Announced
    <3>2. Woken(r)'
      BY <1>1, <2>3, <3>1, Generations DEF WakeInv, Woken, Turn
    <3> QED BY <2>1, <3>1, <3>2
  <2> QED BY <2>2, <2>3
<1> QED
  BY <1>2, <1>3 DEF WakeInv

\* With no event to come, the cache is of the store's generation, and so is the
\* worker's copy unless its key is queued again.
LEMMA UpToDate ==
  ASSUME IInv, WakeInv, NEW r \in Replica, active[r], ~EventPending(r)
  PROVE  /\ ~Accepts(cache[r], store)
         /\ pc[r] # "idle" /\ ~queued[r] => ~Accepts(obj[r], store)
<1>1. ~Pending(cache[r], watch[r]) /\ watch[r] \in Seq(TruthfulCopy(updates))
  BY PendingEvent DEF IInv, PlaneInv, EventPending
<1>2. ~Accepts(cache[r], store)
  BY <1>1, NothingPending DEF WakeInv, Told
<1> QED
  BY <1>2, Generations DEF WakeInv, OfItsCache

------------------------------------------------------------------------------
\* The steps of a worker.

\* A worker going from one call to the next.
LEMMA GoesOn ==
  ASSUME IInv, WakeInv, NEW r \in Replica, pc[r] \notin {"idle", "removeFinalizer"},
         NEW label \in Label \ {"idle"}, Goto(r, label),
         UNCHANGED obj \/ (\E status : obj' = [obj EXCEPT ![r].status = status]),
         UNCHANGED planeVars, Working'
  PROVE  WakeInv'
<1>1. obj[r] \in MaybePolicy /\ obj[r] # NoPolicy
  BY DEF IInv, ProcInv, Working, TruthfulCopy
<1>2. ~Accepts(obj'[r], obj[r])
  <2>1. CASE UNCHANGED obj
    BY <2>1, Generations
  <2>2. ASSUME NEW status, obj' = [obj EXCEPT ![r].status = status]
        PROVE  ~Accepts(obj'[r], obj[r])
    <3>1. obj'[r] = [obj[r] EXCEPT !.status = status] /\ obj[r] \in Policy
      BY <1>1, <2>2 DEF IInv, ProcInv, MaybePolicy
    <3>2. obj'[r].spec = obj[r].spec /\ obj'[r].deleting = obj[r].deleting
      BY <3>1 DEF Policy
    <3>3. pc'[r] # "idle"
      BY DEF Goto, IInv, ProcInv
    <3>4. obj'[r] # NoPolicy
      BY <3>3 DEF Working
    <3> QED BY <1>1, <3>2, <3>4 DEF Accepts
  <2> QED BY <2>1, <2>2
<1>3. \A s \in Replica : Turn(s, NeedsWork(store))
  <2> SUFFICES ASSUME NEW s \in Replica PROVE Turn(s, NeedsWork(store))
    OBVIOUS
  <2>1. CASE s = r
    BY <1>1, <1>2, <2>1 DEF Turn, Goto, IInv, ProcInv
  <2>2. CASE s # r
    <3>1. obj'[s] = obj[s] /\ pc'[s] = pc[s]
      BY <2>2 DEF Goto, IInv, ProcInv
    <3> QED BY <3>1, Generations DEF Turn, planeVars, IInv, Working
  <2> QED BY <2>1, <2>2
<1> QED
  BY <1>3, Unstored DEF planeVars, IInv

\* A worker returning, and asking to be called again when there is work.
LEMMA ReturnTurns ==
  ASSUME IInv, NEW r \in Replica, Forget(r), NEW needed \in BOOLEAN, NEW delay \in Wait,
         Requeue(r, delay),
         delay # "none" \/ ~needed \/ queued[r] \/ EventPending(r)
  PROVE  \A s \in Replica : Turn(s, needed)
<1> SUFFICES ASSUME NEW s \in Replica PROVE Turn(s, needed)
  OBVIOUS
<1>1. CASE s = r
  <2>1. pc'[r] = "idle"
    BY DEF Forget, Goto, IInv, ProcInv
  <2>2. delay # "none" => wait'[r] # "none"
    BY DEF Requeue, Earliest, Due, Wait, IInv, PlaneInv
  <2> QED BY <1>1, <2>1, <2>2 DEF Turn
<1>2. CASE s # r
  <2>1. obj'[s] = obj[s] /\ pc'[s] = pc[s] /\ wait'[s] = wait[s]
    BY <1>2 DEF Forget, Goto, Requeue, IInv, ProcInv, PlaneInv
  <2> QED BY <2>1, Generations DEF Turn, IInv, Working
<1> QED
  BY <1>1, <1>2

LEMMA Returns ==
  ASSUME IInv, WakeInv, NEW r \in Replica, NEW delay \in Wait, Return(r, delay),
         delay # "none" \/ ~NeedsWork(store) \/ queued[r] \/ EventPending(r)
  PROVE  WakeInv'
<1>1. NeedsWork(store) \in BOOLEAN
  BY DEF NeedsWork, IInv, PlaneInv, TruthfulCopy, MaybePolicy, Policy, PolicySpec
<1>2. \A s \in Replica : Turn(s, NeedsWork(store))
  BY <1>1, ReturnTurns DEF Return
<1> QED
  BY <1>2, Unstored DEF Return, LetGo, IInv

\* What a worker writes over the version it holds.
LEMMA WrittenVersion ==
  ASSUME IInv, SoundInv, NEW r \in Replica, current[r], obj[r] # NoPolicy
  PROVE  /\ [store EXCEPT !.status = obj[r].status] \in TruthfulCopy(updates) \cap Sound
         /\ [store EXCEPT !.finalizer = TRUE] \in TruthfulCopy(updates) \cap Sound
<1>1. store # NoPolicy /\ store \in TruthfulCopy(updates) /\ obj[r] \in TruthfulCopy(updates)
  BY DEF IInv, Existing, PlaneInv, ProcInv
<1>2. obj[r].status \in TruthfulStatus(updates) /\ store \in Policy
  BY <1>1, CopyOfPolicy
<1>3. obj[r].status \in Status
  BY <1>2 DEF TruthfulStatus
<1>4. [store EXCEPT !.status = obj[r].status] \in TruthfulCopy(updates)
  BY <1>1, <1>2, CopyWithStatus
<1>5. [store EXCEPT !.finalizer = TRUE] \in TruthfulCopy(updates)
  BY <1>1, <1>2, CopyWithMeta DEF Policy
<1>6. [store EXCEPT !.status = obj[r].status] \in Sound
  <2>1. /\ [store EXCEPT !.status = obj[r].status] \in Policy
        /\ [store EXCEPT !.status = obj[r].status].deleting = store.deleting
        /\ [store EXCEPT !.status = obj[r].status].finalizer = store.finalizer
    BY <1>2, <1>3 DEF Policy
  <2> QED BY <1>1, <2>1 DEF SoundInv, Sound, MaybePolicy
<1>7. [store EXCEPT !.finalizer = TRUE] \in Sound
  <2>1. /\ [store EXCEPT !.finalizer = TRUE] \in Policy
        /\ [store EXCEPT !.finalizer = TRUE].finalizer
    BY <1>2 DEF Policy
  <2> QED BY <2>1 DEF Sound, MaybePolicy
<1> QED
  BY <1>4, <1>5, <1>6, <1>7

\* A write after which the worker returns.
LEMMA StoresAndReturns ==
  ASSUME IInv, WakeInv, PlaneInv', NEW r \in Replica, Forget(r), NEW delay \in Wait,
         Requeue(r, delay), NEW new \in TruthfulCopy(updates) \cap Sound, NEW holders,
         Publish(new, holders), delay # "none" \/ ~NeedsWork(new),
         UNCHANGED <<active, cache, queued>>
  PROVE  WakeInv'
<1>1. NeedsWork(new) \in BOOLEAN
  BY DEF NeedsWork, TruthfulCopy, MaybePolicy, Policy, PolicySpec
<1>2. \A s \in Replica : Turn(s, NeedsWork(new))
  BY <1>1, ReturnTurns
<1> QED
  BY <1>2, Stored

\* A write after which the worker goes on.
LEMMA StoresAndGoesOn ==
  ASSUME IInv, WakeInv, PlaneInv', NEW r \in Replica, pc[r] \notin {"idle", "removeFinalizer"},
         NEW label \in Label \ {"idle"}, Goto(r, label),
         UNCHANGED obj \/ obj' = [obj EXCEPT ![r].finalizer = TRUE],
         NEW new \in TruthfulCopy(updates) \cap Sound, NEW holders,
         Publish(new, holders), UNCHANGED <<active, cache, queued, wait>>
  PROVE  WakeInv'
<1>1. obj[r] \in MaybePolicy /\ obj[r] # NoPolicy
  BY DEF IInv, ProcInv, Working, TruthfulCopy
<1>2. ~Accepts(obj'[r], obj[r])
  <2>1. CASE UNCHANGED obj
    BY <2>1, Generations
  <2>2. CASE obj' = [obj EXCEPT ![r].finalizer = TRUE]
    <3>1. obj'[r] = [obj[r] EXCEPT !.finalizer = TRUE]
      BY <2>2 DEF IInv, ProcInv
    <3> QED BY <1>1, <3>1, SameGeneration
  <2> QED BY <2>1, <2>2
<1>3. ASSUME NEW s \in Replica PROVE Turn(s, NeedsWork(new))
  <2>1. CASE s = r
    BY <1>1, <1>2, <2>1 DEF Turn, Goto, IInv, ProcInv
  <2>2. CASE s # r
    <3>1. obj'[s] = obj[s] /\ pc'[s] = pc[s]
      BY <2>2 DEF Goto, IInv, ProcInv
    <3> QED BY <3>1, Generations DEF Turn, IInv, Working
  <2> QED BY <2>1, <2>2
<1> QED
  BY <1>3, Stored

\* Taking the key: with nothing to do for the cache's version, there is none
\* for the store's, or an event is on its way.
LEMMA StartWake ==
  ASSUME IInv, WakeInv, NEW r \in Replica, Start(r)
  PROVE  WakeInv'
<1>1. /\ pc[r] = "idle" /\ queued' = [queued EXCEPT ![r] = FALSE]
      /\ UNCHANGED <<store, active, cache, watch, wait>>
  BY DEF Start
<1>2. SoundInv' /\ \A s \in Replica : Told(s)'
  BY <1>1 DEF WakeInv, SoundInv, Told
<1>3. ASSUME NEW s \in Replica, s # r PROVE OfItsCache(s)' /\ Woken(s)'
  <2>1. pc'[s] = pc[s] /\ obj'[s] = obj[s] /\ queued'[s] = queued[s]
    BY <1>1, <1>3 DEF Start, Goto, IInv, PlaneInv, ProcInv
  <2>2. OfItsCache(s)'
    BY <1>1, <2>1 DEF WakeInv, OfItsCache
  <2>3. Woken(s)'
    BY <1>1, <2>1 DEF WakeInv, Woken, EventPending
  <2> QED BY <2>2, <2>3
<1>4. OfItsCache(r)' /\ Woken(r)'
  <2>1. CASE UNCHANGED <<pc, obj, current>> /\ (cache[r] = NoPolicy \/ AfterGet(cache[r]) = "idle")
    <3>1. OfItsCache(r)'
      BY <1>1, <2>1 DEF OfItsCache
    <3>2. ASSUME active[r], NeedsWork(store), ~EventPending(r)
          PROVE  FALSE
      <4>1. NeedsWork(cache[r])
        BY <3>2, UpToDate, Generations
      <4>2. cache[r] \in Sound
        BY DEF WakeInv, SoundInv
      <4> QED BY <2>1, <4>1, <4>2 DEF NeedsWork, AfterGet, Sound
    <3>3. Woken(r)'
      BY <1>1, <3>2 DEF Woken, EventPending
    <3> QED BY <3>1, <3>3
  <2>2. CASE ~(cache[r] = NoPolicy \/ AfterGet(cache[r]) = "idle")
    <3>1. pc'[r] = AfterGet(cache[r]) /\ pc'[r] # "idle" /\ obj'[r] = cache[r]
      BY <2>2 DEF Start, Goto, IInv, ProcInv
    <3>2. cache[r] \in Policy
      BY <2>2 DEF IInv, PlaneInv, TruthfulCopy, MaybePolicy
    <3>3. pc'[r] # "removeFinalizer" => ~cache[r].deleting
      BY <3>1, <3>2 DEF AfterGet, Policy
    <3>4. OfItsCache(r)'
      BY <1>1, <3>1, <3>3, Generations DEF OfItsCache
    <3> QED BY <3>1, <3>4 DEF Woken
  <2> QED BY <2>1, <2>2 DEF Start
<1> QED
  BY <1>2, <1>3, <1>4 DEF WakeInv

\* Paused asks for nothing, and needs nothing: the store is paused too, or
\* the key is queued or about to be.
LEMMA PausedWake ==
  ASSUME IInv, WakeInv, NEW r \in Replica, Paused(r)
  PROVE  WakeInv'
<1>1. pc[r] = "guards" /\ active[r] /\ Return(r, "none") /\ obj[r].spec.paused
  BY DEF Paused, IInv, Working
<1>2. ASSUME NeedsWork(store), ~queued[r], ~EventPending(r)
      PROVE  FALSE
  <2>1. NeedsWork(obj[r])
    BY <1>1, <1>2, UpToDate, Generations
  <2>2. ~obj[r].deleting
    BY <1>1 DEF WakeInv, OfItsCache
  <2> QED BY <1>1, <2>1, <2>2 DEF NeedsWork
<1> QED
  BY <1>1, <1>2, Returns DEF Wait

\* From the cache read to ResolveLatestAMI.
LEMMA ReadingWake ==
  ASSUME IInv, IInv', WakeInv, NEW r \in Replica,
         \/ Start(r) \/ Paused(r) \/ MalformedStartAfter(r) \/ Skip(r)
         \/ NotDue(r) \/ Proceed(r) \/ ClientsError(r)
         \/ DescribeNodegroup(r) \/ DescribeNodegroupError(r)
         \/ DescribeCluster(r) \/ DescribeClusterError(r)
         \/ ResolveLatest(r) \/ ResolveUnsupported(r) \/ ResolveError(r)
  PROVE  WakeInv'
<1>1. Working'
  BY DEF IInv
<1>2. CASE MalformedStartAfter(r) \/ Skip(r)
  BY <1>2, Returns DEF MalformedStartAfter, Skip, Wait
<1>3. CASE NotDue(r) \/ Proceed(r)
  BY <1>1, <1>3, GoesOn DEF NotDue, Proceed, Label
<1>4. CASE ClientsError(r)
  BY <1>4, Returns DEF ClientsError, Wait
<1>5. CASE DescribeNodegroup(r) \/ DescribeCluster(r) \/ ResolveLatest(r)
  BY <1>1, <1>5, GoesOn DEF DescribeNodegroup, DescribeCluster, ResolveLatest, Label
<1>6. CASE DescribeNodegroupError(r)
  BY <1>6, Returns DEF DescribeNodegroupError, Wait
<1>7. CASE DescribeClusterError(r)
  BY <1>7, Returns DEF DescribeClusterError, Wait
<1>8. CASE ResolveUnsupported(r)
  <2>1. obj' = [obj EXCEPT ![r].status = UnsupportedAMI(obj[r].status)]
    BY <1>8 DEF ResolveUnsupported
  <2> QED BY <1>1, <1>8, <2>1, GoesOn DEF ResolveUnsupported, Label
<1>9. CASE ResolveError(r)
  BY <1>9, Returns DEF ResolveError, Wait
<1> QED
  BY <1>2, <1>3, <1>4, <1>5, <1>6, <1>7, <1>8, <1>9, StartWake, PausedWake

\* HandleFinalizer: the object goes, or the worker goes on, or comes back.
LEMMA FinalizerWake ==
  ASSUME IInv, IInv', WakeInv, NEW r \in Replica,
         \/ RemoveFinalizer(r) \/ AddFinalizer(r)
         \/ AddFinalizerUnanswered(r) \/ FinalizerError(r)
  PROVE  WakeInv'
<1>1. PlaneInv' /\ SoundInv
  BY DEF IInv, WakeInv
<1>2. pc[r] # "idle" => obj[r] # NoPolicy
  BY DEF IInv, Working
<1>3. CASE RemoveFinalizer(r)
  <2>1. NoPolicy \in TruthfulCopy(updates) \cap Sound /\ ~NeedsWork(NoPolicy)
    BY NoPolicyIsTruthful DEF Sound, MaybePolicy, NeedsWork
  <2>2. PICK delay \in {"none", "soon"} : Requeue(r, delay)
    BY <1>3 DEF RemoveFinalizer
  <2> QED BY <1>1, <1>3, <2>1, <2>2, StoresAndReturns DEF RemoveFinalizer, Wait
<1>4. CASE AddFinalizer(r)
  <2>1. [store EXCEPT !.finalizer = TRUE] \in TruthfulCopy(updates) \cap Sound
    BY <1>1, <1>2, <1>4, WrittenVersion DEF AddFinalizer
  <2> QED BY <1>1, <1>4, <2>1, StoresAndGoesOn DEF AddFinalizer, Label
<1>5. CASE AddFinalizerUnanswered(r)
  <2>1. [store EXCEPT !.finalizer = TRUE] \in TruthfulCopy(updates) \cap Sound
    BY <1>1, <1>2, <1>5, WrittenVersion DEF AddFinalizerUnanswered
  <2> QED BY <1>1, <1>5, <2>1, StoresAndReturns DEF AddFinalizerUnanswered, Wait
<1>6. CASE FinalizerError(r)
  BY <1>6, Returns DEF FinalizerError, Wait
<1> QED
  BY <1>3, <1>4, <1>5, <1>6

\* ProcessUpgrade up to its write.
LEMMA ProcessWake ==
  ASSUME IInv, IInv', WakeInv, NEW r \in Replica,
         \/ Poll(r) \/ PollError(r) \/ Assess(r)
         \/ Initiate(r) \/ InitiateUnanswered(r) \/ InitiateRefused(r)
  PROVE  WakeInv'
<1>1. PICK status : Settle(r, status)
  BY DEF Poll, PollError, Assess, Initiate, InitiateUnanswered, InitiateRefused
<1>2. pc[r] = "process"
  BY DEF Poll, PollError, Assess, Initiate, InitiateUnanswered, InitiateRefused, Upgrades
<1>3. Working'
  BY DEF IInv
<1> QED
  BY <1>1, <1>2, <1>3, GoesOn DEF Settle, Label

\* The two status writes: the worker asks to be called again, or goes on.
LEMMA WritingWake ==
  ASSUME IInv, IInv', WakeInv, NEW r \in Replica,
         \/ WriteStatus(r) \/ WriteUnanswered(r) \/ WriteError(r)
         \/ Stamp(r) \/ StampError(r)
  PROVE  WakeInv'
<1> DEFINE new == [store EXCEPT !.status = obj[r].status]
<1>1. PlaneInv' /\ SoundInv
  BY DEF IInv, WakeInv
<1>2. pc[r] # "idle"
  BY DEF WriteStatus, WriteUnanswered, WriteError, Stamp, StampError
<1>3. current[r] => new \in TruthfulCopy(updates) \cap Sound
  BY <1>1, <1>2, WrittenVersion DEF IInv, Working
<1>4. CASE WriteStatus(r)
  <2>1. CASE InFlight(obj[r].status)
    BY <1>1, <1>3, <1>4, <2>1, StoresAndReturns DEF WriteStatus, Wait
  <2>2. CASE ~InFlight(obj[r].status)
    BY <1>1, <1>3, <1>4, <2>2, StoresAndGoesOn DEF WriteStatus, Label
  <2> QED BY <2>1, <2>2
<1>5. CASE WriteUnanswered(r)
  BY <1>1, <1>3, <1>5, StoresAndReturns DEF WriteUnanswered, Wait
<1>6. CASE WriteError(r)
  BY <1>6, Returns DEF WriteError, Wait
<1>7. CASE Stamp(r)
  BY <1>1, <1>3, <1>7, StoresAndReturns DEF Stamp, Wait
<1>8. CASE StampError(r)
  BY <1>8, Returns DEF StampError, Wait
<1> QED
  BY <1>4, <1>5, <1>6, <1>7, <1>8

------------------------------------------------------------------------------
\* The steps of everything around the workers.

\* The event leaves `watch`; if the predicate accepts it the key is queued.
LEMMA InformerWake ==
  ASSUME IInv, IInv', WakeInv, NEW r \in Replica, Informer(r)
  PROVE  WakeInv'
<1>1. /\ active[r] /\ watch[r] # <<>>
      /\ cache' = [cache EXCEPT ![r] = Head(watch[r])]
      /\ watch' = [watch EXCEPT ![r] = Tail(watch[r])]
      /\ queued' = [queued EXCEPT ![r] = queued[r] \/ Accepts(cache[r], Head(watch[r]))]
      /\ UNCHANGED <<store, active, wait, pc, obj>>
  BY DEF Informer, Deliver, procVars
<1>2. /\ watch[r] \in Seq(Sound) /\ cache[r] \in Sound /\ LeadsTo(cache[r], watch[r], store)
  BY <1>1 DEF WakeInv, SoundInv, Told
<1>3. Head(watch[r]) \in Sound /\ Tail(watch[r]) \in Seq(Sound)
  BY <1>1, <1>2, TailSeq
<1>4. SoundInv'
  BY <1>1, <1>3 DEF WakeInv, SoundInv
<1>5. ASSUME NEW s \in Replica, s # r PROVE Told(s)' /\ OfItsCache(s)' /\ Woken(s)'
  <2>1. cache'[s] = cache[s] /\ watch'[s] = watch[s] /\ queued'[s] = queued[s]
    BY <1>1, <1>5 DEF IInv, PlaneInv
  <2>2. Told(s)' /\ OfItsCache(s)'
    BY <1>1, <2>1 DEF WakeInv, Told, OfItsCache
  <2>3. Woken(s)'
    BY <1>1, <2>1 DEF WakeInv, Woken, EventPending
  <2> QED BY <2>2, <2>3
<1>6. /\ cache'[r] = Head(watch[r]) /\ watch'[r] = Tail(watch[r])
      /\ queued'[r] <=> queued[r] \/ Accepts(cache[r], Head(watch[r]))
  BY <1>1 DEF IInv, PlaneInv
<1>7. /\ LeadsTo(Head(watch[r]), Tail(watch[r]), store)
      /\ Pending(cache[r], watch[r]) /\ ~Accepts(cache[r], Head(watch[r]))
           => Pending(Head(watch[r]), Tail(watch[r]))
  BY <1>1, <1>2, TailLeadsTo
<1>8. Told(r)'
  BY <1>1, <1>6, <1>7 DEF Told
<1>9. OfItsCache(r)'
  BY <1>1, <1>6, Generations DEF WakeInv, OfItsCache
<1>10. EventPending(r) /\ ~queued'[r] => EventPending(r)'
  <2>1. EventPending(r) <=> Pending(cache[r], watch[r])
    BY <1>2, PendingEvent DEF EventPending
  <2>2. EventPending(r)' <=> Pending(cache'[r], watch'[r])
    <3>1. Len(watch'[r]) \in Nat
      BY <1>3, <1>6
    <3> QED BY <3>1, PendingEvent DEF EventPending
  <2> QED BY <1>6, <1>7, <2>1, <2>2
<1>11. Woken(r)'
  BY <1>1, <1>6, <1>10 DEF WakeInv, Woken
<1> QED
  BY <1>4, <1>5, <1>8, <1>9, <1>11 DEF WakeInv

LEMMA TimerWake ==
  ASSUME IInv, WakeInv, NEW r \in Replica, Timer(r)
  PROVE  WakeInv'
<1>1. /\ queued' = [queued EXCEPT ![r] = TRUE] /\ wait' = [wait EXCEPT ![r] = "none"]
      /\ UNCHANGED <<store, active, cache, watch, pc, obj>>
  BY DEF Timer, Fire, procVars
<1>2. SoundInv' /\ \A s \in Replica : Told(s)'
  BY <1>1 DEF WakeInv, SoundInv, Told
<1>3. ASSUME NEW s \in Replica PROVE OfItsCache(s)' /\ Woken(s)'
  <2>1. s = r => queued'[s]
    BY <1>1 DEF IInv, PlaneInv
  <2>2. s # r => queued'[s] = queued[s] /\ wait'[s] = wait[s]
    BY <1>1 DEF IInv, PlaneInv
  <2>3. EventPending(s)' <=> EventPending(s)
    BY <1>1 DEF EventPending
  <2>4. OfItsCache(s)'
    BY <1>1, <2>1, <2>2 DEF WakeInv, OfItsCache
  <2>5. Woken(s)'
    BY <1>1, <2>1, <2>2, <2>3 DEF WakeInv, Woken
  <2> QED BY <2>4, <2>5
<1> QED
  BY <1>2, <1>3 DEF WakeInv

\* A replica starts with what is stored, and its key queued.
LEMMA BootWake ==
  ASSUME IInv, WakeInv, NEW r \in Replica, BootReplica(r)
  PROVE  WakeInv'
<1>1. /\ ~active[r] /\ active' = [active EXCEPT ![r] = TRUE]
      /\ cache' = [cache EXCEPT ![r] = store]
      /\ queued' = [queued EXCEPT ![r] = store # NoPolicy]
      /\ UNCHANGED <<store, watch, wait, pc, obj>>
  BY DEF BootReplica, Boot, procVars
<1>2. SoundInv'
  BY <1>1 DEF WakeInv, SoundInv
<1>3. ASSUME NEW s \in Replica, s # r PROVE Told(s)' /\ OfItsCache(s)' /\ Woken(s)'
  <2>1. cache'[s] = cache[s] /\ active'[s] = active[s] /\ queued'[s] = queued[s]
    BY <1>1, <1>3 DEF IInv, PlaneInv
  <2>2. Told(s)' /\ OfItsCache(s)'
    BY <1>1, <2>1 DEF WakeInv, Told, OfItsCache
  <2>3. Woken(s)'
    BY <1>1, <2>1 DEF WakeInv, Woken, EventPending
  <2> QED BY <2>2, <2>3
<1>4. /\ cache'[r] = store /\ watch'[r] = <<>> /\ pc'[r] = "idle"
      /\ queued'[r] <=> store # NoPolicy
  BY <1>1 DEF IInv, InSync, Working, PlaneInv
<1>5. Told(r)'
  <2>1. \A i \in 0..Len(<<>>) : Version(store, <<>>, i) = store
    BY DEF Version
  <2> QED BY <1>1, <1>4, <2>1, Generations DEF Told, LeadsTo
<1>6. OfItsCache(r)' /\ Woken(r)'
  BY <1>1, <1>4 DEF OfItsCache, Woken, NeedsWork
<1> QED
  BY <1>2, <1>3, <1>5, <1>6 DEF WakeInv

\* A replica that has stopped promises nothing.
LEMMA CrashWake ==
  ASSUME IInv, WakeInv, NEW r \in Replica, Crash(r)
  PROVE  WakeInv'
<1>1. /\ active' = [active EXCEPT ![r] = FALSE]
      /\ cache' = [cache EXCEPT ![r] = NoPolicy] /\ watch' = [watch EXCEPT ![r] = <<>>]
      /\ queued' = [queued EXCEPT ![r] = FALSE] /\ wait' = [wait EXCEPT ![r] = "none"]
      /\ pc' = [pc EXCEPT ![r] = "idle"] /\ obj' = [obj EXCEPT ![r] = NoPolicy]
      /\ UNCHANGED store
  BY DEF Crash, Halt, Forget, Goto
<1>2. SoundInv'
  <2>1. NoPolicy \in Sound /\ <<>> \in Seq(Sound)
    BY EmptySeq DEF Sound, MaybePolicy
  <2> QED BY <1>1, <2>1 DEF WakeInv, SoundInv
<1>3. ASSUME NEW s \in Replica, s # r PROVE Told(s)' /\ OfItsCache(s)' /\ Woken(s)'
  <2>1. /\ cache'[s] = cache[s] /\ active'[s] = active[s] /\ queued'[s] = queued[s]
        /\ watch'[s] = watch[s] /\ wait'[s] = wait[s] /\ pc'[s] = pc[s] /\ obj'[s] = obj[s]
    BY <1>1, <1>3 DEF IInv, PlaneInv, ProcInv
  <2>2. Told(s)' /\ OfItsCache(s)'
    BY <1>1, <2>1 DEF WakeInv, Told, OfItsCache
  <2>3. Woken(s)'
    BY <1>1, <2>1 DEF WakeInv, Woken, EventPending
  <2> QED BY <2>2, <2>3
<1>4. ~active'[r] /\ pc'[r] = "idle"
  BY <1>1 DEF IInv, PlaneInv, ProcInv
<1>5. Told(r)' /\ OfItsCache(r)' /\ Woken(r)'
  BY <1>4 DEF Told, OfItsCache, Woken
<1> QED
  BY <1>2, <1>3, <1>5 DEF WakeInv

\* Time ages statuses, which no generation counts.
LEMMA AgedGeneration ==
  ASSUME NEW p \in MaybePolicy
  PROVE  /\ AgedPolicy(p) = NoPolicy <=> p = NoPolicy
         /\ p # NoPolicy => /\ AgedPolicy(p).spec = p.spec
                            /\ AgedPolicy(p).deleting = p.deleting
                            /\ AgedPolicy(p).finalizer = p.finalizer
         /\ p \in Sound => AgedPolicy(p) \in Sound
<1>1. CASE p = NoPolicy
  BY <1>1 DEF AgedPolicy
<1>2. CASE p # NoPolicy
  <2>1. p \in Policy
    BY <1>2 DEF MaybePolicy
  <2>2. AgedPolicy(p) = [p EXCEPT !.status = Aged(p.status)]
    BY <1>2 DEF AgedPolicy
  <2>3. Aged(p.status) \in Status
    <3>1. p.status \in Status
      BY <2>1 DEF Policy
    <3> QED BY <3>1 DEF Aged, Status
  <2>4. /\ AgedPolicy(p) \in Policy /\ AgedPolicy(p).spec = p.spec
        /\ AgedPolicy(p).deleting = p.deleting /\ AgedPolicy(p).finalizer = p.finalizer
    BY <2>1, <2>2, <2>3 DEF Policy
  <2>5. AgedPolicy(p) # NoPolicy
    BY <2>4, NoPolicyAssumption
  <2> QED BY <1>2, <2>4, <2>5 DEF Sound, MaybePolicy
<1> QED
  BY <1>1, <1>2

LEMMA AgedAlike ==
  ASSUME NEW a \in MaybePolicy, NEW b \in MaybePolicy
  PROVE  /\ Accepts(AgedPolicy(a), AgedPolicy(b)) <=> Accepts(a, b)
         /\ NeedsWork(AgedPolicy(a)) <=> NeedsWork(a)
BY AgedGeneration DEF Accepts, NeedsWork

LEMMA CooldownWake ==
  ASSUME IInv, WakeInv, CooldownElapses
  PROVE  WakeInv' /\ \A r \in Replica : EventPending(r)' <=> EventPending(r)
<1> DEFINE aged(r) == [i \in DOMAIN watch[r] |-> AgedPolicy(watch[r][i])]
<1>1. /\ store' = AgedPolicy(store) /\ watch' = [r \in Replica |-> aged(r)]
      /\ cache' = [r \in Replica |-> AgedPolicy(cache[r])]
      /\ obj' = [r \in Replica |-> AgedPolicy(obj[r])]
      /\ UNCHANGED <<active, queued, wait, pc>>
  BY DEF CooldownElapses
<1>2. Sound \subseteq MaybePolicy
  BY DEF Sound
<1>3. ASSUME NEW r \in Replica
      PROVE  /\ aged(r) \in Seq(Sound) /\ Len(aged(r)) = Len(watch[r]) /\ Len(watch[r]) \in Nat
             /\ \A i \in 1..Len(watch[r]) : /\ watch[r][i] \in MaybePolicy
                                            /\ aged(r)[i] = AgedPolicy(watch[r][i])
  <2>1. watch[r] \in Seq(Sound)
    BY DEF WakeInv, SoundInv
  <2>2. DOMAIN watch[r] = 1..Len(watch[r]) /\ Len(watch[r]) \in Nat
    BY <2>1
  <2>3. \A i \in DOMAIN watch[r] : watch[r][i] \in Sound
    BY <2>1, ElementOfSeq
  <2>4. aged(r) \in [DOMAIN watch[r] -> Sound]
    BY <1>2, <2>3, AgedGeneration
  <2>5. \A i \in DOMAIN watch[r] : aged(r)[i] = AgedPolicy(watch[r][i])
    OBVIOUS
  <2> HIDE DEF aged
  <2>6. aged(r) \in Seq(Sound) /\ Len(aged(r)) = Len(watch[r])
    BY <2>1, <2>4, MapSeq
  <2> QED BY <1>2, <2>2, <2>3, <2>5, <2>6
<1> HIDE DEF aged
<1>4. SoundInv'
  <2>1. store' \in Sound
    BY <1>1, <1>2, AgedGeneration DEF WakeInv, SoundInv
  <2>2. cache' \in [Replica -> Sound]
    BY <1>1, <1>2, AgedGeneration DEF WakeInv, SoundInv
  <2>3. watch' \in [Replica -> Seq(Sound)]
    BY <1>1, <1>3
  <2> QED BY <2>1, <2>2, <2>3 DEF SoundInv
<1>5. ASSUME NEW r \in Replica
      PROVE  Told(r)' /\ OfItsCache(r)' /\ Woken(r)' /\ (EventPending(r)' <=> EventPending(r))
  <2> DEFINE w == watch[r]
             n == Len(watch[r])
             v == aged(r)
  <2>1. /\ watch'[r] = v /\ cache'[r] = AgedPolicy(cache[r]) /\ obj'[r] = AgedPolicy(obj[r])
        /\ Len(v) = n /\ n \in Nat
    BY <1>1, <1>3
  <2>2. cache[r] \in MaybePolicy /\ obj[r] \in MaybePolicy /\ store \in MaybePolicy
    BY <1>2 DEF WakeInv, SoundInv, IInv, ProcInv, TruthfulCopy
  <2>3. \A i \in 0..n : /\ Version(cache[r], w, i) \in MaybePolicy
                        /\ Version(cache'[r], v, i) = AgedPolicy(Version(cache[r], w, i))
    BY <1>3, <2>1, <2>2 DEF Version
  <2> HIDE DEF v, n, w
  <2>4. \A j \in 1..n : Accepts(Version(cache'[r], v, j - 1), Version(cache'[r], v, j))
                          <=> Accepts(Version(cache[r], w, j - 1), Version(cache[r], w, j))
    <3> SUFFICES ASSUME NEW j \in 1..n
                 PROVE  Accepts(Version(cache'[r], v, j - 1), Version(cache'[r], v, j))
                          <=> Accepts(Version(cache[r], w, j - 1), Version(cache[r], w, j))
      OBVIOUS
    <3>1. j \in 0..n /\ j - 1 \in 0..n
      BY <2>1
    <3> QED BY <2>3, <3>1, AgedAlike
  <2>5. Told(r)'
    <3> SUFFICES ASSUME active[r], NEW i \in 0..n,
                        \A j \in (i + 1)..n : ~Accepts(Version(cache'[r], v, j - 1), Version(cache'[r], v, j))
                 PROVE  ~Accepts(Version(cache'[r], v, i), store')
      BY <1>1, <2>1 DEF Told, LeadsTo
    <3>1. \A j \in (i + 1)..n : j \in 1..n
      BY <2>1
    <3>2. \A j \in (i + 1)..n : ~Accepts(Version(cache[r], w, j - 1), Version(cache[r], w, j))
      BY <2>4, <3>1
    <3>3. ~Accepts(Version(cache[r], w, i), store)
      BY <3>2 DEF WakeInv, Told, LeadsTo, w, n
    <3> QED BY <1>1, <2>2, <2>3, <3>3, AgedAlike
  <2>6. OfItsCache(r)'
    <3>1. pc[r] # "idle" => obj[r] # NoPolicy
      BY DEF IInv, Working
    <3>2. obj[r] # NoPolicy => obj'[r].deleting = obj[r].deleting
      BY <2>1, <2>2, AgedGeneration
    <3> QED BY <1>1, <2>1, <2>2, <3>1, <3>2, AgedAlike DEF WakeInv, OfItsCache
  <2>7. EventPending(r)' <=> EventPending(r)
    <3>1. EventPending(r) <=> Pending(cache[r], w)
      BY <2>1, PendingEvent DEF EventPending, w, n
    <3>2. EventPending(r)' <=> Pending(cache'[r], v)
      BY <2>1, PendingEvent DEF EventPending
    <3>3. Pending(cache[r], w) <=> Pending(cache'[r], v)
      BY <2>1, <2>4 DEF Pending, w, n
    <3> QED BY <3>1, <3>2, <3>3
  <2>8. Woken(r)'
    BY <1>1, <2>2, <2>7, AgedAlike DEF WakeInv, Woken
  <2> QED BY <2>5, <2>6, <2>7, <2>8
<1> QED
  BY <1>4, <1>5 DEF WakeInv

\* AWS, and steps of nobody.
LEMMA ElsewhereWake ==
  ASSUME IInv, WakeInv, UNCHANGED <<planeVars, procVars>>
  PROVE  WakeInv'
<1>1. \A r \in Replica : Turn(r, NeedsWork(store))
  BY Generations DEF Turn, planeVars, procVars, IInv, Working
<1> QED
  BY <1>1, Unstored DEF planeVars, IInv

\* kubectl: a new generation is an event that will be accepted.
LEMMA SomebodyWake ==
  ASSUME IInv, IInv', WakeInv, SomebodyActs
  PROVE  WakeInv'
<1>1. store \in Sound /\ PlaneInv' /\ procVars' = procVars
  BY DEF WakeInv, SoundInv, IInv, SomebodyActs
<1>2. ASSUME NEW new \in TruthfulCopy(updates), new \in Sound, Publish(new, {}),
             UNCHANGED <<active, cache, queued, wait>>
      PROVE  WakeInv'
  <2>1. \A r \in Replica : Turn(r, NeedsWork(new))
    BY <1>1, <1>2, Generations DEF Turn, procVars, IInv, Working
  <2> QED BY <1>1, <1>2, <2>1, Stored
<1>3. store # NoPolicy => store \in Policy /\ store \in TruthfulCopy(updates)
  BY CopyOfPolicy DEF IInv, PlaneInv
<1>4. CASE Delete
  <2>1. store # NoPolicy
    BY <1>4 DEF Delete
  <2>2. CASE store.finalizer
    <3> DEFINE new == [store EXCEPT !.deleting = TRUE]
    <3>1. new \in TruthfulCopy(updates)
      BY <1>3, <2>1, CopyWithMeta DEF Policy
    <3>2. new \in Policy /\ new.finalizer
      BY <1>3, <2>1, <2>2 DEF Policy
    <3>3. new \in Sound
      BY <3>2 DEF Sound, MaybePolicy
    <3>4. Publish(new, {}) /\ UNCHANGED <<active, cache, queued, wait>>
      BY <1>4, <2>2 DEF Delete
    <3> QED BY <1>2, <3>1, <3>3, <3>4
  <2>3. CASE ~store.finalizer
    <3>1. NoPolicy \in TruthfulCopy(updates) /\ NoPolicy \in Sound
      BY NoPolicyIsTruthful DEF Sound, MaybePolicy
    <3>2. Publish(NoPolicy, {}) /\ UNCHANGED <<active, cache, queued, wait>>
      BY <1>4, <2>3 DEF Delete
    <3> QED BY <1>2, <3>1, <3>2
  <2> QED BY <2>2, <2>3
<1>5. ASSUME NEW spec \in Specs, Apply(spec) PROVE WakeInv'
  <2>1. spec \in PolicySpec
    BY SpecsAssumption
  <2>2. CASE store = NoPolicy
    <3>1. Fresh(spec) \in TruthfulCopy(updates)
      BY <2>1, FreshCopy
    <3>2. Fresh(spec) \in Sound
      BY <3>1 DEF Fresh, Sound, TruthfulCopy
    <3>3. Publish(Fresh(spec), {}) /\ UNCHANGED <<active, cache, queued, wait>>
      BY <1>5, <2>2 DEF Apply
    <3> QED BY <1>2, <3>1, <3>2, <3>3
  <2>3. CASE store # NoPolicy
    <3> DEFINE new == [store EXCEPT !.spec = spec]
    <3>1. new \in TruthfulCopy(updates)
      BY <1>3, <2>1, <2>3, CopyWithMeta
    <3>2. /\ new \in Policy /\ new.finalizer = store.finalizer
          /\ new.deleting = store.deleting
      BY <1>3, <2>1, <2>3 DEF Policy
    <3>3. new \in Sound
      BY <1>1, <2>3, <3>2 DEF Sound, MaybePolicy
    <3>4. Publish(new, {}) /\ UNCHANGED <<active, cache, queued, wait>>
      BY <1>5, <2>3 DEF Apply
    <3> QED BY <1>2, <3>1, <3>3, <3>4
  <2> QED BY <2>2, <2>3
<1>6. CASE UNCHANGED planeVars
  BY <1>1, <1>6, ElsewhereWake
<1> QED
  BY <1>4, <1>5, <1>6 DEF SomebodyActs

------------------------------------------------------------------------------
\* Replicas start with the store in their caches and the key in their queues.
LEMMA InitWake ==
  ASSUME IInv, Init
  PROVE  WakeInv
<1>1. PICK spec \in Specs : store = Fresh(spec)
  BY DEF Init, PlaneInit
<1>2. store \in Sound /\ NoPolicy \in Sound /\ <<>> \in Seq(Sound)
  BY <1>1, EmptySeq DEF IInv, PlaneInv, TruthfulCopy, Sound, Fresh, MaybePolicy
<1>3. SoundInv
  BY <1>2 DEF SoundInv, Init, PlaneInit
<1>4. ASSUME NEW r \in Replica PROVE Told(r) /\ OfItsCache(r) /\ Woken(r)
  <2>1. \A i \in 0..Len(<<>>) : Version(store, <<>>, i) = store
    BY DEF Version
  <2>2. Told(r)
    BY <2>1, Generations DEF Init, PlaneInit, Told, LeadsTo
  <2>3. OfItsCache(r) /\ Woken(r)
    BY DEF Init, PlaneInit, OfItsCache, Woken
  <2> QED BY <2>2, <2>3
<1> QED
  BY <1>3, <1>4 DEF WakeInv

LEMMA NextWake ==
  ASSUME IInv, IInv', WakeInv, [Next]_vars
  PROVE  WakeInv'
<1>1. CASE UNCHANGED vars
  BY <1>1, ElsewhereWake DEF vars
<1>2. ASSUME NEW r \in Replica,
             Reconcile(r) \/ Informer(r) \/ Timer(r) \/ BootReplica(r) \/ Crash(r)
      PROVE  WakeInv'
  <2>1. CASE Reconcile(r)
    BY <2>1, ReadingWake, FinalizerWake, ProcessWake, WritingWake DEF Reconcile
  <2> QED BY <1>2, <2>1, InformerWake, TimerWake, BootWake, CrashWake
<1>3. CASE StartAfterPasses \/ AWSMoves \/ \E id \in UpdateId : UpdateEnds(id)
  BY <1>3, ElsewhereWake DEF StartAfterPasses, AWSMoves, UpdateEnds
<1> QED
  BY <1>1, <1>2, <1>3, CooldownWake, SomebodyWake DEF Next

\* The loop never goes to sleep on a policy: for any number of replicas that
\* reconcile at once, any informer lag, and failures of every kind, a running
\* replica that is not working on a policy that needs work has it queued or
\* timed, or is about to be told (Reconcile and its predicate).
THEOREM NoWakeupIsLost == Spec => []NoLostWakeup
<1>1. Init => IInv
  BY InitInv
<1>2. IInv /\ Init => WakeInv
  BY InitWake
<1>3. IInv /\ IInv' /\ WakeInv /\ [Next]_vars => WakeInv'
  BY NextWake
<1>4. WakeInv => NoLostWakeup
  BY DEF WakeInv, Woken, NoLostWakeup
<1> QED
  BY <1>1, <1>2, <1>3, <1>4, Invariant, PTL DEF Spec
=============================================================================
