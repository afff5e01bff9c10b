---------------------------- MODULE LimitsProofs ----------------------------
(***************************************************************************)
(* The limits on what runs at once and how often:                          *)
(*   - the limiter of provider calls, for any number of callers,           *)
(*     workspaces and providers and any limits that NewHierarchical        *)
(*     accepts;                                                            *)
(*   - the admission of requests, for any number of requests, addresses    *)
(*     and credentials and any rates, bursts and pool sizes for which an   *)
(*     idle bucket has refilled.                                           *)
(***************************************************************************)
EXTENDS HierarchicalLimiter, FiniteSetTheorems, TLAPS

\* The counters stay within their limits: a slot is only taken where all three
\* have room, and a release never takes one below zero.
THEOREM LimitsHold == Spec => []TypeOK
<1>1. Init => TypeOK
  BY LimitsAssumption DEF Init, TypeOK
<1>2. TypeOK /\ [Next]_vars => TypeOK'
  <2> SUFFICES ASSUME TypeOK, [Next]_vars PROVE TypeOK'
    OBVIOUS
  <2> USE LimitsAssumption DEF TypeOK
  <2>1. CASE UNCHANGED vars
    BY <2>1 DEF vars
  <2>2. ASSUME NEW c \in Callers, NEW w \in Workspaces, NEW p \in Providers, Call(c, w, p)
        PROVE  TypeOK'
    BY <2>2 DEF Call
  <2>3. ASSUME NEW c \in Callers, Acquire(c) PROVE TypeOK'
    <3>1. workspace[c] \in Workspaces /\ provider[c] \in Providers
      OBVIOUS
    <3>2. active' \in 0 .. GlobalLimit
      BY <2>3 DEF Acquire, Fits
    <3>3. activeByWorkspace' \in [Workspaces -> 0 .. WorkspaceLimit]
      BY <2>3, <3>1 DEF Acquire, Fits
    <3>4. activeByProvider' \in [Providers -> 0 .. ProviderLimit]
      BY <2>3, <3>1 DEF Acquire, Fits
    <3> QED
      BY <2>3, <3>2, <3>3, <3>4 DEF Acquire
  <2>4. ASSUME NEW c \in Callers, Wait(c) PROVE TypeOK'
    BY <2>4 DEF Wait
  <2>5. ASSUME NEW c \in Callers, Wake(c) PROVE TypeOK'
    BY <2>5 DEF Wake
  <2>6. ASSUME NEW c \in Callers, Cancel(c) PROVE TypeOK'
    BY <2>6 DEF Cancel
  <2>7. ASSUME NEW c \in Callers, Release(c) PROVE TypeOK'
    <3>1. workspace[c] \in Workspaces /\ provider[c] \in Providers
      OBVIOUS
    <3>2. active' \in 0 .. GlobalLimit
      BY <2>7, <3>1 DEF Release
    <3>3. activeByWorkspace' \in [Workspaces -> 0 .. WorkspaceLimit]
      BY <2>7, <3>1 DEF Release
    <3>4. activeByProvider' \in [Providers -> 0 .. ProviderLimit]
      BY <2>7, <3>1 DEF Release
    <3> QED
      BY <2>7, <3>2, <3>3, <3>4 DEF Release, StillListening
  <2> QED
    BY <2>1, <2>2, <2>3, <2>4, <2>5, <2>6, <2>7 DEF Next
<1> QED
  BY <1>1, <1>2, PTL DEF Spec

\* Taking a slot leaves no room where there was none: the counters only grow.
LEMMA AcquireKeepsFull ==
  ASSUME TypeOK, NEW c \in Callers, NEW d \in Callers, Acquire(c), ~Fits(d)
  PROVE  ~Fits(d)'
<1>1. /\ workspace[c] \in Workspaces /\ workspace[d] \in Workspaces
      /\ provider[c] \in Providers /\ provider[d] \in Providers
  BY DEF TypeOK
<1>2. active' >= active
  BY DEF Acquire, TypeOK
<1>3. activeByWorkspace'[workspace[d]] >= activeByWorkspace[workspace[d]]
  BY <1>1 DEF Acquire, TypeOK
<1>4. activeByProvider'[provider[d]] >= activeByProvider[provider[d]]
  BY <1>1 DEF Acquire, TypeOK
<1>5. workspace'[d] = workspace[d] /\ provider'[d] = provider[d]
  BY DEF Acquire
<1>6. /\ active' \in Int /\ active \in Int
      /\ activeByWorkspace[workspace[d]] \in Int /\ activeByWorkspace'[workspace[d]] \in Int
      /\ activeByProvider[provider[d]] \in Int /\ activeByProvider'[provider[d]] \in Int
  BY <1>1 DEF Acquire, TypeOK
<1> QED
  BY <1>2, <1>3, <1>4, <1>5, <1>6, LimitsAssumption DEF Fits

\* No caller sleeps on an open channel while there is room for it: only a release
\* makes room, and a release closes the channel of all who wait.
THEOREM WakeupsArrive == Spec => []NoLostWakeup
<1>1. Init => NoLostWakeup
  BY DEF Init, NoLostWakeup
<1>2. TypeOK /\ NoLostWakeup /\ [Next]_vars => NoLostWakeup'
  <2> SUFFICES ASSUME TypeOK, NoLostWakeup, [Next]_vars,
                      NEW d \in Callers, pc'[d] = "waiting", d \in listening'
               PROVE  ~Fits(d)'
    BY DEF NoLostWakeup
  <2>1. CASE UNCHANGED vars
    BY <2>1 DEF vars, NoLostWakeup, Fits
  <2>2. ASSUME NEW c \in Callers, NEW w \in Workspaces, NEW p \in Providers, Call(c, w, p)
        PROVE  ~Fits(d)'
    BY <2>2 DEF Call, NoLostWakeup, Fits, TypeOK
  <2>3. ASSUME NEW c \in Callers, Acquire(c) PROVE ~Fits(d)'
    <3>1. pc[d] = "waiting" /\ d \in listening
      BY <2>3 DEF Acquire, TypeOK
    <3> QED
      BY <2>3, <3>1, AcquireKeepsFull DEF NoLostWakeup
  <2>4. ASSUME NEW c \in Callers, Wait(c) PROVE ~Fits(d)'
    BY <2>4 DEF Wait, NoLostWakeup, Fits, TypeOK
  <2>5. ASSUME NEW c \in Callers, Wake(c) PROVE ~Fits(d)'
    BY <2>5 DEF Wake, NoLostWakeup, Fits, TypeOK
  <2>6. ASSUME NEW c \in Callers, Cancel(c) PROVE ~Fits(d)'
    BY <2>6 DEF Cancel, NoLostWakeup, Fits, TypeOK
  <2>7. ASSUME NEW c \in Callers, Release(c) PROVE ~Fits(d)'
    BY <2>7 DEF Release, StillListening, NoLostWakeup, Fits, TypeOK
  <2> QED
    BY <2>1, <2>2, <2>3, <2>4, <2>5, <2>6, <2>7 DEF Next
<1> QED
  BY <1>1, <1>2, LimitsHold, PTL DEF Spec

-----------------------------------------------------------------------------
(* The counters and the callers at work.                                   *)

\* One more caller of a kind is at work: its count goes up by one.
LEMMA CountAdd ==
  ASSUME NEW S \in SUBSET Callers, NEW c \in Callers, c \notin S
  PROVE  Cardinality(S \cup {c}) = Cardinality(S) + 1
BY LimitsAssumption, FS_Subset, FS_AddElement

\* One caller of a kind fewer is at work: there was one, and the count goes down.
LEMMA CountRemove ==
  ASSUME NEW S \in SUBSET Callers, NEW c \in S
  PROVE  /\ Cardinality(S \ {c}) = Cardinality(S) - 1
         /\ Cardinality(S) > 0
<1>1. IsFiniteSet(S) /\ IsFiniteSet(S \ {c})
  BY LimitsAssumption, FS_Subset, FS_RemoveElement
<1>2. Cardinality(S \ {c}) \in Nat /\ Cardinality(S) \in Nat
  BY <1>1, FS_CardinalityType
<1> QED
  BY <1>1, <1>2, FS_RemoveElement

InWorkspace(w) == {c \in Holders : workspace[c] = w}
WithProvider(p) == {c \in Holders : provider[c] = p}

\* The three counters are the callers at work, in all, by workspace and by
\* provider, so that release never meets a counter that is already zero.
THEOREM CountersAreHolders == Spec => []CountersMatchHolders
<1>1. Init => CountersMatchHolders
  BY FS_EmptySet DEF Init, CountersMatchHolders, Holders
<1>2. TypeOK /\ CountersMatchHolders /\ [Next]_vars => CountersMatchHolders'
  <2> SUFFICES ASSUME TypeOK, CountersMatchHolders, [Next]_vars
               PROVE  CountersMatchHolders'
    OBVIOUS
  <2>a. /\ active = Cardinality(Holders)
        /\ \A w \in Workspaces : activeByWorkspace[w] = Cardinality(InWorkspace(w))
        /\ \A p \in Providers : activeByProvider[p] = Cardinality(WithProvider(p))
    BY DEF CountersMatchHolders, InWorkspace, WithProvider
  <2>b. ASSUME active' = Cardinality(Holders'),
               \A w \in Workspaces : activeByWorkspace'[w] = Cardinality(InWorkspace(w)'),
               \A p \in Providers : activeByProvider'[p] = Cardinality(WithProvider(p)')
        PROVE  CountersMatchHolders'
    BY <2>b DEF CountersMatchHolders, InWorkspace, WithProvider
  <2>c. ASSUME Holders' = Holders,
               \A d \in Holders : workspace'[d] = workspace[d] /\ provider'[d] = provider[d],
               UNCHANGED <<active, activeByWorkspace, activeByProvider>>
        PROVE  CountersMatchHolders'
    <3>1. ASSUME NEW w \in Workspaces PROVE InWorkspace(w)' = InWorkspace(w)
      BY <2>c DEF InWorkspace
    <3>2. ASSUME NEW p \in Providers PROVE WithProvider(p)' = WithProvider(p)
      BY <2>c DEF WithProvider
    <3> QED
      BY <2>a, <2>c, <3>1, <3>2 DEF CountersMatchHolders, InWorkspace, WithProvider
  <2>1. CASE UNCHANGED vars
    BY <2>1, <2>c DEF vars, Holders
  <2>2. ASSUME NEW c \in Callers, NEW w \in Workspaces, NEW p \in Providers, Call(c, w, p)
        PROVE  CountersMatchHolders'
    <3>1. Holders' = Holders /\ c \notin Holders
      BY <2>2 DEF Call, Holders, TypeOK
    <3>2. \A d \in Holders : workspace'[d] = workspace[d] /\ provider'[d] = provider[d]
      BY <2>2, <3>1 DEF Call, Holders, TypeOK
    <3> QED
      BY <2>2, <2>c, <3>1, <3>2 DEF Call
  <2>3. ASSUME NEW c \in Callers, Acquire(c) PROVE CountersMatchHolders'
    <3>0. /\ workspace[c] \in Workspaces /\ provider[c] \in Providers
          /\ workspace' = workspace /\ provider' = provider
      BY <2>3 DEF Acquire, TypeOK
    <3>1. Holders' = Holders \cup {c} /\ c \notin Holders /\ Holders \subseteq Callers
      BY <2>3 DEF Acquire, Holders, TypeOK
    <3>2. active' = Cardinality(Holders')
      BY <2>3, <2>a, <3>1, CountAdd DEF Acquire
    <3>3. ASSUME NEW w \in Workspaces
          PROVE  activeByWorkspace'[w] = Cardinality(InWorkspace(w)')
      <4>1. InWorkspace(w) \subseteq Callers /\ c \notin InWorkspace(w)
        BY <3>1 DEF InWorkspace
      <4>2. CASE w = workspace[c]
        <5>1. InWorkspace(w)' = InWorkspace(w) \cup {c}
          BY <3>0, <3>1, <4>2 DEF InWorkspace
        <5>2. activeByWorkspace'[w] = activeByWorkspace[w] + 1
          BY <2>3, <4>2 DEF Acquire, TypeOK
        <5> QED
          BY <2>a, <4>1, <5>1, <5>2, CountAdd
      <4>3. CASE w # workspace[c]
        <5>1. InWorkspace(w)' = InWorkspace(w)
          BY <3>0, <3>1, <4>3 DEF InWorkspace
        <5>2. activeByWorkspace'[w] = activeByWorkspace[w]
          BY <2>3, <4>3 DEF Acquire, TypeOK
        <5> QED
          BY <2>a, <5>1, <5>2
      <4> QED
        BY <4>2, <4>3
    <3>4. ASSUME NEW p \in Providers
          PROVE  activeByProvider'[p] = Cardinality(WithProvider(p)')
      <4>1. WithProvider(p) \subseteq Callers /\ c \notin WithProvider(p)
        BY <3>1 DEF WithProvider
      <4>2. CASE p = provider[c]
        <5>1. WithProvider(p)' = WithProvider(p) \cup {c}
          BY <3>0, <3>1, <4>2 DEF WithProvider
        <5>2. activeByProvider'[p] = activeByProvider[p] + 1
          BY <2>3, <4>2 DEF Acquire, TypeOK
        <5> QED
          BY <2>a, <4>1, <5>1, <5>2, CountAdd
      <4>3. CASE p # provider[c]
        <5>1. WithProvider(p)' = WithProvider(p)
          BY <3>0, <3>1, <4>3 DEF WithProvider
        <5>2. activeByProvider'[p] = activeByProvider[p]
          BY <2>3, <4>3 DEF Acquire, TypeOK
        <5> QED
          BY <2>a, <5>1, <5>2
      <4> QED
        BY <4>2, <4>3
    <3> QED
      BY <3>2, <3>3, <3>4, <2>b
  <2>7. ASSUME NEW c \in Callers, Release(c) PROVE CountersMatchHolders'
    <3>0. /\ workspace[c] \in Workspaces /\ provider[c] \in Providers
          /\ workspace' = workspace /\ provider' = provider
      BY <2>7 DEF Release, TypeOK
    <3>1. Holders' = Holders \ {c} /\ c \in Holders /\ Holders \subseteq Callers
      BY <2>7 DEF Release, Holders, TypeOK
    <3>2. /\ InWorkspace(workspace[c]) \subseteq Callers /\ c \in InWorkspace(workspace[c])
          /\ WithProvider(provider[c]) \subseteq Callers /\ c \in WithProvider(provider[c])
      BY <3>1 DEF InWorkspace, WithProvider
    <3>3. /\ active > 0 /\ activeByWorkspace[workspace[c]] > 0
          /\ activeByProvider[provider[c]] > 0
      BY Zenon, <2>a, <3>0, <3>1, <3>2, CountRemove
    <3>4. /\ active' = active - 1
          /\ activeByWorkspace' = [activeByWorkspace EXCEPT ![workspace[c]] = @ - 1]
          /\ activeByProvider' = [activeByProvider EXCEPT ![provider[c]] = @ - 1]
      BY <2>7, <3>0, <3>3 DEF Release, TypeOK
    <3>5. active' = Cardinality(Holders')
      BY <2>a, <3>1, <3>4, CountRemove
    <3>6. ASSUME NEW w \in Workspaces
          PROVE  activeByWorkspace'[w] = Cardinality(InWorkspace(w)')
      <4>1. CASE w = workspace[c]
        <5>1. InWorkspace(w)' = InWorkspace(w) \ {c}
          BY <3>0, <3>1, <4>1 DEF InWorkspace
        <5>2. activeByWorkspace'[w] = activeByWorkspace[w] - 1
          BY <3>4, <4>1 DEF TypeOK
        <5> QED
          BY <2>a, <3>2, <4>1, <5>1, <5>2, CountRemove
      <4>2. CASE w # workspace[c]
        <5>1. InWorkspace(w)' = InWorkspace(w)
          BY <3>0, <3>1, <4>2 DEF InWorkspace
        <5>2. activeByWorkspace'[w] = activeByWorkspace[w]
          BY <3>4, <4>2 DEF TypeOK
        <5> QED
          BY <2>a, <5>1, <5>2
      <4> QED
        BY <4>1, <4>2
    <3>7. ASSUME NEW p \in Providers
          PROVE  activeByProvider'[p] = Cardinality(WithProvider(p)')
      <4>1. CASE p = provider[c]
        <5>1. WithProvider(p)' = WithProvider(p) \ {c}
          BY <3>0, <3>1, <4>1 DEF WithProvider
        <5>2. activeByProvider'[p] = activeByProvider[p] - 1
          BY <3>4, <4>1 DEF TypeOK
        <5> QED
          BY <2>a, <3>2, <4>1, <5>1, <5>2, CountRemove
      <4>2. CASE p # provider[c]
        <5>1. WithProvider(p)' = WithProvider(p)
          BY <3>0, <3>1, <4>2 DEF WithProvider
        <5>2. activeByProvider'[p] = activeByProvider[p]
          BY <3>4, <4>2 DEF TypeOK
        <5> QED
          BY <2>a, <5>1, <5>2
      <4> QED
        BY <4>1, <4>2
    <3> QED
      BY <3>5, <3>6, <3>7, <2>b
  <2>4. ASSUME NEW c \in Callers, Wait(c) \/ Wake(c) \/ Cancel(c)
        PROVE  CountersMatchHolders'
    <3>1. Holders' = Holders
      BY <2>4 DEF Wait, Wake, Cancel, Holders, TypeOK
    <3> QED
      BY <2>4, <2>c, <3>1 DEF Wait, Wake, Cancel
  <2> QED
    BY <2>1, <2>2, <2>3, <2>4, <2>7 DEF Next
<1> QED
  BY <1>1, <1>2, LimitsHold, PTL DEF Spec

-----------------------------------------------------------------------------
(* The admission of requests *)

CONSTANTS Requests, Addresses, Credentials, Limits, MaxRateLimitKeys, IdleTime, LargeBodies,
          LargeBodiesPerClient, CanonicalReads, CanonicalReadsPerKey, MaxTime

VARIABLES now, buckets, ideal, pool, request

A == INSTANCE RequestAdmission

-----------------------------------------------------------------------------
(* Slots: the inductive invariant *)

\* What a request that has arrived is, and the keys of a pool.
Arrived == [at : {"arrived", "addressed", "edge", "admitted", "limited", "serving"},
            address : Addresses, credential : Credentials, class : A!Classes]
SlotKeys(p) == IF p = "bodies" THEN Addresses ELSE Credentials

\* Whether q, what a request is at, keeps a slot of p, and for which key.
Keeps(q, p) ==
  /\ q # A!Idle
  /\ \/ p = "bodies" /\ q.class = "large" /\ q.at \in {"admitted", "limited", "serving"}
     \/ p = "reads" /\ q.class = "read" /\ q.at = "serving"
KeyIn(q, p) == IF p = "bodies" THEN q.address ELSE q.credential

Keepers(p) == {r \in Requests : Keeps(request[r], p)}
KeepersFor(p, k) == {r \in Requests : Keeps(request[r], p) /\ KeyIn(request[r], p) = k}

PoolType(p) == [active : 0 .. A!GlobalLimit(p), by : [SlotKeys(p) -> Nat]]

SlotsInv ==
  /\ request \in [Requests -> {A!Idle} \cup Arrived]
  /\ DOMAIN pool = A!Pools
  /\ \A p \in A!Pools : /\ pool[p] \in PoolType(p)
                        /\ pool[p].active = A!Cardinality(Keepers(p))
                        /\ \A k \in SlotKeys(p) : pool[p].by[k] = A!Cardinality(KeepersFor(p, k))

-----------------------------------------------------------------------------
(* Buckets: the inductive invariant *)

\* The values of a bucket of limiter l by time t, and the bucket refilled then.
BucketType(l, t) == [tokens : 0 .. Limits[l].burst, lastSeen : 0 .. t]
Refill(l, b, t) ==
  [tokens |-> A!Min({Limits[l].burst, b.tokens + (t - b.lastSeen) * Limits[l].rate}), lastSeen |-> t]

\* A bucket in the map is the ideal one, and one that is not would be full.
SameOrFull(l, k) ==
  IF k \in DOMAIN buckets[l]
    THEN buckets[l][k] = ideal[l][k]
    ELSE Refill(l, ideal[l][k], now).tokens = Limits[l].burst

MapInv(l) ==
  /\ DOMAIN buckets[l] \subseteq A!KeysOf(l)
  /\ A!IsFiniteSet(DOMAIN buckets[l]) /\ A!Cardinality(DOMAIN buckets[l]) <= MaxRateLimitKeys
  /\ ideal[l] \in [A!KeysOf(l) -> BucketType(l, now)]
  /\ \A k \in A!KeysOf(l) : SameOrFull(l, k)

RatesInv ==
  /\ now \in 0 .. MaxTime
  /\ DOMAIN buckets = A!Limiters /\ DOMAIN ideal = A!Limiters
  /\ \A l \in A!Limiters : MapInv(l)

AdmissionInv == SlotsInv /\ RatesInv

-----------------------------------------------------------------------------
(* Slots: every path through the middlewares *)

\* Finite sets and their sizes, as RequestAdmission has them, are the library's.
LEMMA SameSizes ==
  ASSUME NEW S
  PROVE  A!Cardinality(S) = Cardinality(S) /\ (A!IsFiniteSet(S) <=> IsFiniteSet(S))
<1>1. A!Cardinality(S) = Cardinality(S)  BY Zenon DEF Cardinality, A!Cardinality
<1>2. A!IsFiniteSet(S) <=> IsFiniteSet(S)  BY Zenon DEF IsFiniteSet, A!IsFiniteSet
<1> QED BY <1>1, <1>2

\* One request more, or one fewer, that keeps a slot.
LEMMA OneMore ==
  ASSUME A!AdmissionAssumption, NEW S \in SUBSET Requests, NEW r \in Requests, r \notin S
  PROVE  A!Cardinality(S \cup {r}) = A!Cardinality(S) + 1
BY SameSizes, FS_Subset, FS_AddElement DEF A!AdmissionAssumption

\* Taking one request out of a set of requests takes one from its size.
LEMMA OneFewer ==
  ASSUME A!AdmissionAssumption, NEW S \in SUBSET Requests, NEW r \in S
  PROVE  A!Cardinality(S \ {r}) = A!Cardinality(S) - 1 /\ A!Cardinality(S) \in Nat /\ A!Cardinality(S) > 0
<1>1. A!IsFiniteSet(S) /\ A!IsFiniteSet(S \ {r})
  BY SameSizes, FS_Subset, FS_RemoveElement DEF A!AdmissionAssumption
<1>2. A!Cardinality(S \ {r}) \in Nat /\ A!Cardinality(S) \in Nat
  BY <1>1, FS_CardinalityType, SameSizes
<1> QED BY <1>1, <1>2, FS_RemoveElement, SameSizes

\* No request is zero requests.
LEMMA NoneKeeps ==
  A!Cardinality({}) = 0
BY SameSizes, FS_EmptySet

\* The three things that a step of request r, which is at q after it, does to pool p.
Same(p, r, q) ==
  /\ pool'[p] = pool[p] /\ (Keeps(q, p) <=> Keeps(request[r], p))
  /\ Keeps(q, p) => KeyIn(q, p) = KeyIn(request[r], p)
Takes(p, r, q) ==
  /\ Keeps(q, p) /\ ~Keeps(request[r], p) /\ A!Free(p, KeyIn(q, p)) /\ KeyIn(q, p) \in SlotKeys(p)
  /\ pool'[p] = [pool[p] EXCEPT !.active = @ + 1, !.by[KeyIn(q, p)] = @ + 1]
Gives(p, r, q) ==
  /\ Keeps(request[r], p) /\ ~Keeps(q, p) /\ KeyIn(request[r], p) \in SlotKeys(p)
  /\ pool'[p] = [pool[p] EXCEPT !.active = @ - 1, !.by[KeyIn(request[r], p)] = @ - 1]

\* What pool b is after a slot of key k is taken or given back.
Counted(b, k, m, n) == [b EXCEPT !.active = m, !.by[k] = n]

\* Setting one counter of a pool and its total leaves every other counter of it alone.
LEMMA PoolFields ==
  ASSUME NEW p \in A!Pools, NEW b \in PoolType(p), NEW k \in SlotKeys(p),
         NEW m \in 0 .. A!GlobalLimit(p), NEW n \in Nat
  PROVE  /\ Counted(b, k, m, n) \in PoolType(p)
         /\ Counted(b, k, m, n).active = m /\ Counted(b, k, m, n).by[k] = n
         /\ \A j \in SlotKeys(p) : j # k => Counted(b, k, m, n).by[j] = b.by[j]
<1> DEFINE f == [b.by EXCEPT ![k] = n]
           c == Counted(b, k, m, n)
<1>1. b.by \in [SlotKeys(p) -> Nat]  BY DEF PoolType
<1>2. f \in [SlotKeys(p) -> Nat] /\ f[k] = n /\ \A j \in SlotKeys(p) : j # k => f[j] = b.by[j]  BY <1>1
<1>3. c = [b EXCEPT !.active = m, !.by = f]  BY DEF Counted
<1> HIDE DEF f, c
<1>4. c \in PoolType(p)  BY <1>2, <1>3, Zenon DEF PoolType
<1>5. c.active = m /\ c.by = f  BY <1>3 DEF PoolType
<1> QED BY <1>2, <1>4, <1>5 DEF c

\* Each of them keeps the counters of the pool right.
LEMMA PoolStep ==
  ASSUME A!AdmissionAssumption, SlotsInv, NEW r \in Requests, NEW q,
         request' = [request EXCEPT ![r] = q],
         NEW p \in A!Pools, Same(p, r, q) \/ Takes(p, r, q) \/ Gives(p, r, q)
  PROVE  /\ pool'[p] \in PoolType(p) /\ pool'[p].active = A!Cardinality(Keepers(p)')
         /\ \A k \in SlotKeys(p) : pool'[p].by[k] = A!Cardinality(KeepersFor(p, k)')
<1>1. /\ pool[p] \in PoolType(p) /\ pool[p].active = A!Cardinality(Keepers(p))
      /\ \A k \in SlotKeys(p) : pool[p].by[k] = A!Cardinality(KeepersFor(p, k))
  BY DEF SlotsInv
<1>2. request'[r] = q /\ \A s \in Requests : s # r => request'[s] = request[s]
  BY DEF SlotsInv
<1>3. /\ Keepers(p) \in SUBSET Requests /\ (r \in Keepers(p) <=> Keeps(request[r], p))
      /\ \A k : /\ KeepersFor(p, k) \in SUBSET Requests
                /\ r \in KeepersFor(p, k) <=> Keeps(request[r], p) /\ KeyIn(request[r], p) = k
  BY DEF Keepers, KeepersFor
<1>4. CASE Same(p, r, q)
  <2>1. Keepers(p)' = Keepers(p)  BY <1>2, <1>4 DEF Keepers, Same
  <2>2. \A k : KeepersFor(p, k)' = KeepersFor(p, k)  BY <1>2, <1>4 DEF KeepersFor, Same
  <2>3. pool'[p] = pool[p]  BY <1>4 DEF Same
  <2> QED BY <2>1, <2>2, <2>3, <1>1
<1>5. CASE Takes(p, r, q)
  <2> DEFINE key == KeyIn(q, p)
  <2>1. Keepers(p)' = Keepers(p) \cup {r} /\ r \notin Keepers(p)
    BY <1>2, <1>5, Zenon DEF Keepers, Takes
  <2>2. KeepersFor(p, key)' = KeepersFor(p, key) \cup {r} /\ r \notin KeepersFor(p, key)
    BY <1>2, <1>5, Zenon DEF KeepersFor, Takes
  <2>3. \A k : k # key => KeepersFor(p, k)' = KeepersFor(p, k)
    BY <1>2, <1>5 DEF KeepersFor, Takes
  <2>4. /\ pool'[p] = [pool[p] EXCEPT !.active = @ + 1, !.by[key] = @ + 1] /\ key \in SlotKeys(p)
        /\ pool[p].active < A!GlobalLimit(p) /\ A!GlobalLimit(p) \in Nat
    BY <1>5 DEF Takes, A!Free, A!AdmissionAssumption, A!GlobalLimit
  <2> HIDE DEF key
  <2>5. /\ pool'[p] \in PoolType(p) /\ pool'[p].active = pool[p].active + 1
        /\ pool'[p].by[key] = pool[p].by[key] + 1
        /\ \A k \in SlotKeys(p) : k # key => pool'[p].by[k] = pool[p].by[k]
    <3> DEFINE m == pool[p].active + 1
               n == pool[p].by[key] + 1
               b == pool[p]
               c == pool'[p]
    <3>1. m \in 0 .. A!GlobalLimit(p) /\ n \in Nat  BY <2>4, <1>1 DEF PoolType
    <3>2. c = Counted(b, key, m, n) /\ b \in PoolType(p)  BY <2>4, <1>1 DEF Counted
    <3> HIDE DEF m, n, b, c
    <3>3. /\ c \in PoolType(p) /\ c.active = m /\ c.by[key] = n
          /\ \A j \in SlotKeys(p) : j # key => c.by[j] = b.by[j]
      <4>1. key \in SlotKeys(p)  BY <2>4
      <4> QED BY <4>1, <3>1, <3>2, PoolFields
    <3> QED BY <3>3 DEF m, n, b, c
  <2>6. pool'[p].active = A!Cardinality(Keepers(p)')  BY <2>1, <2>5, <1>1, <1>3, OneMore
  <2>7. pool'[p].by[key] = A!Cardinality(KeepersFor(p, key)')  BY <2>2, <2>4, <2>5, <1>1, <1>3, OneMore
  <2>8. ASSUME NEW k \in SlotKeys(p)  PROVE pool'[p].by[k] = A!Cardinality(KeepersFor(p, k)')
    <3>1. CASE k = key  BY <3>1, <2>7, Zenon
    <3>2. CASE k # key
      <4>1. KeepersFor(p, k)' = KeepersFor(p, k) /\ pool'[p].by[k] = pool[p].by[k]  BY <3>2, <2>3, <2>5
      <4> QED BY <4>1, <1>1
    <3> QED BY <3>1, <3>2
  <2> QED BY <2>5, <2>6, <2>8
<1>6. CASE Gives(p, r, q)
  <2>0. PICK key \in SlotKeys(p) : key = KeyIn(request[r], p)  BY <1>6 DEF Gives
  <2>1. Keepers(p)' = Keepers(p) \ {r} /\ r \in Keepers(p)
    BY <1>2, <1>6 DEF Keepers, Gives
  <2>2. KeepersFor(p, key)' = KeepersFor(p, key) \ {r} /\ r \in KeepersFor(p, key)
    <3>1. r \in KeepersFor(p, key)  BY <2>0, <1>6 DEF KeepersFor, Gives
    <3>2. \A s \in Requests : s \in KeepersFor(p, key)' <=> s \in KeepersFor(p, key) /\ s # r
      BY <1>2, <1>6, Zenon DEF KeepersFor, Gives
    <3> QED BY <3>1, <3>2 DEF KeepersFor
  <2>3. \A k : k # key => KeepersFor(p, k)' = KeepersFor(p, k)
    BY <1>2, <1>6, <2>0, Zenon DEF KeepersFor, Gives
  <2>4. pool'[p] = [pool[p] EXCEPT !.active = @ - 1, !.by[key] = @ - 1] /\ key \in SlotKeys(p)
    BY <1>6, <2>0 DEF Gives
  <2>5. A!GlobalLimit(p) \in Nat  BY DEF A!AdmissionAssumption, A!GlobalLimit
  <2>6. pool[p].active > 0 /\ pool[p].by[key] > 0
    BY <2>1, <2>2, <2>4, <1>1, <1>3, OneFewer, Zenon
  <2>7. /\ pool'[p] \in PoolType(p) /\ pool'[p].active = pool[p].active - 1
        /\ pool'[p].by[key] = pool[p].by[key] - 1
        /\ \A k \in SlotKeys(p) : k # key => pool'[p].by[k] = pool[p].by[k]
    <3> DEFINE m == pool[p].active - 1
               n == pool[p].by[key] - 1
               b == pool[p]
               c == pool'[p]
    <3>1. m \in 0 .. A!GlobalLimit(p) /\ n \in Nat  BY <2>4, <2>5, <2>6, <1>1 DEF PoolType
    <3>2. c = Counted(b, key, m, n) /\ b \in PoolType(p)  BY <2>4, <1>1 DEF Counted
    <3> HIDE DEF m, n, b, c
    <3>3. /\ c \in PoolType(p) /\ c.active = m /\ c.by[key] = n
          /\ \A j \in SlotKeys(p) : j # key => c.by[j] = b.by[j]
      <4>1. key \in SlotKeys(p)  BY <2>4
      <4> QED BY <4>1, <3>1, <3>2, PoolFields
    <3> QED BY <3>3 DEF m, n, b, c
  <2>8. pool'[p].active = A!Cardinality(Keepers(p)')  BY <2>1, <2>7, <1>1, <1>3, OneFewer
  <2>9. pool'[p].by[key] = A!Cardinality(KeepersFor(p, key)')  BY <2>2, <2>4, <2>7, <1>1, <1>3, OneFewer
  <2>10. ASSUME NEW k \in SlotKeys(p)  PROVE pool'[p].by[k] = A!Cardinality(KeepersFor(p, k)')
    <3>1. CASE k = key  BY <3>1, <2>9, Zenon
    <3>2. CASE k # key
      <4>1. KeepersFor(p, k)' = KeepersFor(p, k) /\ pool'[p].by[k] = pool[p].by[k]  BY <3>2, <2>3, <2>7
      <4> QED BY <4>1, <1>1
    <3> QED BY <3>1, <3>2
  <2> QED BY <2>7, <2>8, <2>10, Zenon
<1> QED BY <1>4, <1>5, <1>6

\* So a step of a request keeps the invariant when it does one of them to each pool.
LEMMA RequestStep ==
  ASSUME A!AdmissionAssumption, SlotsInv, NEW r \in Requests, NEW q \in {A!Idle} \cup Arrived,
         request' = [request EXCEPT ![r] = q], DOMAIN pool' = A!Pools,
         \A p \in A!Pools : Same(p, r, q) \/ Takes(p, r, q) \/ Gives(p, r, q)
  PROVE  SlotsInv'
<1>1. request' \in [Requests -> {A!Idle} \cup Arrived]  BY DEF SlotsInv
<1>2. \A p \in A!Pools : /\ pool'[p] \in PoolType(p) /\ pool'[p].active = A!Cardinality(Keepers(p)')
                         /\ \A k \in SlotKeys(p) : pool'[p].by[k] = A!Cardinality(KeepersFor(p, k)')
  BY PoolStep, Zenon
<1> QED BY <1>1, <1>2 DEF SlotsInv

\* A request x that has arrived, and has got as far as "at".
Steps == {"arrived", "addressed", "edge", "admitted", "limited", "serving"}
Moved(x, at) == [x EXCEPT !.at = at]

\* A request that moves on keeps its address, its credential and its class.
LEMMA MovedFields ==
  ASSUME NEW x \in Arrived, NEW at \in Steps
  PROVE  /\ Moved(x, at) \in Arrived /\ Moved(x, at).at = at /\ Moved(x, at) # A!Idle
         /\ Moved(x, at).address = x.address /\ Moved(x, at).credential = x.credential
         /\ Moved(x, at).class = x.class
<1>1. Moved(x, at) \in Arrived  BY Zenon DEF Moved, Arrived, Steps
<1>2. /\ Moved(x, at).at = at /\ Moved(x, at).address = x.address
      /\ Moved(x, at).credential = x.credential /\ Moved(x, at).class = x.class
  BY DEF Moved, Arrived
<1>3. Moved(x, at) # A!Idle  BY <1>2 DEF Steps, A!Idle
<1> QED BY <1>1, <1>2, <1>3

\* A request that is past "idle" has an address, a credential and a class.
LEMMA PastIdle ==
  ASSUME SlotsInv, NEW r \in Requests, request[r].at \in Steps
  PROVE  request[r] \in Arrived /\ request[r] # A!Idle
<1>1. A!Idle.at = "idle"  BY DEF A!Idle
<1> QED BY <1>1 DEF SlotsInv, Steps

\* Before it is admitted, and once it is over, a request keeps no slot.
LEMMA KeepsNone ==
  ASSUME NEW q, q = A!Idle \/ q.at \in {"arrived", "addressed", "edge"}, NEW p
  PROVE  ~Keeps(q, p)
BY DEF Keeps

\* A step of a request that holds no slot before or after it leaves the pools right.
LEMMA SlotlessStep ==
  ASSUME A!AdmissionAssumption, SlotsInv, NEW r \in Requests, NEW q \in {A!Idle} \cup Arrived,
         request' = [request EXCEPT ![r] = q], pool' = pool,
         \A p \in A!Pools : ~Keeps(request[r], p) /\ ~Keeps(q, p)
  PROVE  SlotsInv'
<1>1. \A p \in A!Pools : Same(p, r, q)  BY DEF Same
<1>2. DOMAIN pool' = A!Pools  BY DEF SlotsInv
<1> QED BY Zenon, <1>1, <1>2, RequestStep

\* The deferred releases give back what the request keeps, and nothing else.
LEMMA ReleaseStep ==
  ASSUME A!AdmissionAssumption, SlotsInv, NEW r \in Requests, request[r].at \in Steps,
         A!Release(r), request' = [request EXCEPT ![r] = A!Idle]
  PROVE  SlotsInv'
<1>1. request[r] \in Arrived /\ request[r] # A!Idle  BY PastIdle
<1>2. DOMAIN pool' = A!Pools  BY Zenon DEF A!Release
<1>3. ASSUME NEW p \in A!Pools  PROVE Same(p, r, A!Idle) \/ Gives(p, r, A!Idle)
  <2>1. ~Keeps(A!Idle, p)  BY DEF Keeps
  <2>2. A!Holds(r, p) <=> Keeps(request[r], p)  BY <1>1 DEF A!Holds, Keeps
  <2>3. A!PoolKey(p, r) = KeyIn(request[r], p) /\ KeyIn(request[r], p) \in SlotKeys(p)
    BY <1>1 DEF A!PoolKey, KeyIn, SlotKeys, Arrived
  <2>4. pool'[p] = IF A!Holds(r, p) THEN [pool[p] EXCEPT !.active = @ - 1, !.by[A!PoolKey(p, r)] = @ - 1]
                   ELSE pool[p]
    BY Zenon DEF A!Release
  <2>5. CASE A!Holds(r, p)
    <3>1. pool'[p] = [pool[p] EXCEPT !.active = @ - 1, !.by[KeyIn(request[r], p)] = @ - 1]
      BY <2>3, <2>4, <2>5, Zenon
    <3> QED BY <3>1, <2>1, <2>2, <2>3, <2>5 DEF Gives
  <2>6. CASE ~A!Holds(r, p)
    <3>1. pool'[p] = pool[p]  BY <2>4, <2>6, Zenon
    <3> QED BY <3>1, <2>1, <2>2, <2>6 DEF Same
  <2> QED BY <2>5, <2>6
<1> QED BY Zenon, <1>2, <1>3, RequestStep

\* TryAcquire takes one slot of one pool.
LEMMA AcquireStep ==
  ASSUME A!AdmissionAssumption, SlotsInv, NEW r \in Requests, NEW q \in Arrived,
         request' = [request EXCEPT ![r] = q],
         NEW p \in A!Pools, ~Keeps(request[r], p), Keeps(q, p),
         A!Free(p, KeyIn(q, p)), A!TryAcquire(p, KeyIn(q, p)),
         \A o \in A!Pools : o # p => ~Keeps(request[r], o) /\ ~Keeps(q, o)
  PROVE  SlotsInv'
<1>1. DOMAIN pool' = A!Pools  BY DEF SlotsInv, A!TryAcquire
<1>2. KeyIn(q, p) \in SlotKeys(p)  BY DEF KeyIn, SlotKeys, Arrived
<1>3. /\ pool'[p] = [pool[p] EXCEPT !.active = @ + 1, !.by[KeyIn(q, p)] = @ + 1]
      /\ \A o \in A!Pools : o # p => pool'[o] = pool[o]
  BY DEF SlotsInv, A!TryAcquire
<1>4. Takes(p, r, q)  BY <1>2, <1>3 DEF Takes
<1>5. \A o \in A!Pools : o # p => Same(o, r, q)  BY <1>3 DEF Same
<1> QED BY Zenon, <1>1, <1>4, <1>5, RequestStep

\* A step that leaves the pools alone, of a request that goes on as before.
LEMMA GoOnStep ==
  ASSUME A!AdmissionAssumption, SlotsInv, NEW r \in Requests, request[r].at \in Steps, NEW at \in Steps,
         A!Goto(r, at), pool' = pool,
         \A p \in A!Pools : Keeps(Moved(request[r], at), p) <=> Keeps(request[r], p)
  PROVE  SlotsInv'
<1> DEFINE q == Moved(request[r], at)
<1>1. request[r] \in Arrived  BY PastIdle
<1>2. q \in Arrived /\ q.address = request[r].address /\ q.credential = request[r].credential
  BY <1>1, MovedFields
<1>3. request' = [request EXCEPT ![r] = q]  BY DEF A!Goto, Moved
<1> HIDE DEF q
<1>4. \A p \in A!Pools : Same(p, r, q)  BY <1>2 DEF Same, KeyIn, q
<1>5. DOMAIN pool' = A!Pools  BY DEF SlotsInv
<1> QED BY Zenon, <1>2, <1>3, <1>4, <1>5, RequestStep

\* Every step keeps the counters of the pools right.
LEMMA SlotsStep ==
  ASSUME A!AdmissionAssumption, SlotsInv, A!Next
  PROVE  SlotsInv'
<1>1. ASSUME NEW r \in Requests, NEW a \in Addresses, NEW c \in Credentials, NEW class \in A!Classes,
             A!Arrive(r, a, c, class)
      PROVE  SlotsInv'
  <2> DEFINE q == [at |-> "arrived", address |-> a, credential |-> c, class |-> class]
  <2>1. q \in Arrived /\ q.at = "arrived"  BY DEF Arrived
  <2>2. request[r] = A!Idle /\ request' = [request EXCEPT ![r] = q] /\ pool' = pool  BY <1>1 DEF A!Arrive
  <2> HIDE DEF q
  <2>3. \A p \in A!Pools : ~Keeps(request[r], p) /\ ~Keeps(q, p)  BY <2>1, <2>2, KeepsNone
  <2> QED BY Zenon, <2>1, <2>2, <2>3, SlotlessStep
<1>2. ASSUME NEW r \in Requests, NEW at \in {"addressed", "edge"}, NEW spends \in BOOLEAN, pool' = pool,
             request[r].at \in {"arrived", "addressed", "edge"},
             request' = [request EXCEPT ![r] = IF spends THEN [@ EXCEPT !.at = at] ELSE A!Idle]
      PROVE  SlotsInv'
  <2> DEFINE q == IF spends THEN Moved(request[r], at) ELSE A!Idle
  <2>1. request[r].at \in Steps /\ at \in Steps  BY <1>2 DEF Steps
  <2>2. request[r] \in Arrived  BY <2>1, PastIdle
  <2>3. q \in {A!Idle} \cup Arrived /\ (q = A!Idle \/ q.at \in {"arrived", "addressed", "edge"})
    BY <2>1, <2>2, MovedFields
  <2>4. request' = [request EXCEPT ![r] = q]  BY <1>2 DEF Moved
  <2> HIDE DEF q
  <2>5. \A p \in A!Pools : ~Keeps(request[r], p) /\ ~Keeps(q, p)  BY <2>3, <1>2, KeepsNone
  <2> QED BY Zenon, <2>3, <2>4, <2>5, <1>2, SlotlessStep
<1>3. ASSUME NEW r \in Requests, A!SpendAddress(r)  PROVE SlotsInv'
  <2>1. A!Spends("address", request[r].address) \in BOOLEAN  BY DEF A!Spends
  <2> QED BY Zenon, <2>1, <1>2, <1>3 DEF A!SpendAddress
<1>4. ASSUME NEW r \in Requests, A!SpendCredential(r)  PROVE SlotsInv'
  <2>1. A!Spends("credential", request[r].credential) \in BOOLEAN  BY DEF A!Spends
  <2> QED BY Zenon, <2>1, <1>2, <1>4 DEF A!SpendCredential
<1>5. ASSUME NEW r \in Requests, A!RefuseBody(r)  PROVE SlotsInv'
  <2>1. \A p \in A!Pools : ~Keeps(request[r], p) /\ ~Keeps(A!Idle, p)  BY <1>5, KeepsNone DEF A!RefuseBody
  <2> QED BY Zenon, <2>1, <1>5, SlotlessStep DEF A!RefuseBody
<1>6. ASSUME NEW r \in Requests, A!requestAdmissionMiddleware(r)  PROVE SlotsInv'
  <2> DEFINE q == Moved(request[r], "admitted")
  <2>1. request[r].at = "edge" /\ request[r].at \in Steps /\ "admitted" \in Steps
    BY <1>6 DEF A!requestAdmissionMiddleware, Steps
  <2>2. request[r] \in Arrived  BY <2>1, PastIdle
  <2>3. /\ q \in Arrived /\ q # A!Idle /\ q.at = "admitted" /\ q.address = request[r].address
        /\ q.class = request[r].class
    BY <2>1, <2>2, MovedFields
  <2>4. \A p : ~Keeps(request[r], p)  BY <2>1, KeepsNone
  <2>5. CASE request[r].class = "large" /\ A!Free("bodies", request[r].address)
    <3>1. A!TryAcquire("bodies", request[r].address) /\ request' = [request EXCEPT ![r] = q]
      BY <1>6, <2>5 DEF A!requestAdmissionMiddleware, A!Goto, Moved
    <3> HIDE DEF q
    <3>2. KeyIn(q, "bodies") = request[r].address  BY <2>3 DEF KeyIn
    <3>3. Keeps(q, "bodies") /\ \A o \in A!Pools : o # "bodies" => ~Keeps(q, o)
      BY <2>3, <2>5 DEF Keeps, A!Pools
    <3>4. "bodies" \in A!Pools  BY DEF A!Pools
    <3> QED BY Zenon, <3>1, <3>2, <3>3, <3>4, <2>3, <2>4, <2>5, AcquireStep
  <2>6. CASE request[r].class = "large" /\ ~A!Free("bodies", request[r].address)
    <3>1. pool' = pool /\ request' = [request EXCEPT ![r] = A!Idle]
      BY <1>6, <2>6 DEF A!requestAdmissionMiddleware
    <3> QED BY Zenon, <3>1, <2>4, KeepsNone, SlotlessStep
  <2>7. CASE request[r].class # "large"
    <3>1. pool' = pool /\ request' = [request EXCEPT ![r] = q]
      BY <1>6, <2>7 DEF A!requestAdmissionMiddleware, A!Goto, Moved
    <3> HIDE DEF q
    <3>2. \A p \in A!Pools : ~Keeps(q, p)  BY <2>3, <2>7 DEF Keeps
    <3> QED BY Zenon, <3>1, <3>2, <2>3, <2>4, SlotlessStep
  <2> QED BY <2>5, <2>6, <2>7
<1>7. ASSUME NEW r \in Requests, A!SpendUser(r)  PROVE SlotsInv'
  <2>1. request[r].at = "admitted" /\ request[r].at \in Steps /\ "limited" \in Steps
    BY <1>7 DEF A!SpendUser, Steps
  <2>2. request[r] \in Arrived /\ request[r] # A!Idle  BY <2>1, PastIdle
  <2>3. CASE A!Spends("user", request[r].credential)
    <3>1. A!Goto(r, "limited") /\ pool' = pool  BY <1>7, <2>3 DEF A!SpendUser
    <3>2. /\ Moved(request[r], "limited").at = "limited" /\ Moved(request[r], "limited") # A!Idle
          /\ Moved(request[r], "limited").class = request[r].class
      BY <2>1, <2>2, MovedFields
    <3>3. \A p \in A!Pools : Keeps(Moved(request[r], "limited"), p) <=> Keeps(request[r], p)
      BY <3>2, <2>1, <2>2 DEF Keeps
    <3> QED BY <3>1, <3>3, <2>1, GoOnStep
  <2>4. CASE ~A!Spends("user", request[r].credential)
    <3>1. A!Release(r) /\ request' = [request EXCEPT ![r] = A!Idle]  BY <1>7, <2>4 DEF A!SpendUser
    <3> QED BY Zenon, <3>1, <2>1, ReleaseStep
  <2> QED BY <2>3, <2>4
<1>8. ASSUME NEW r \in Requests, A!requestLimitMiddleware(r)  PROVE SlotsInv'
  <2> DEFINE q == Moved(request[r], "serving")
  <2>1. request[r].at = "limited" /\ request[r].at \in Steps /\ "serving" \in Steps
    BY <1>8 DEF A!requestLimitMiddleware, Steps
  <2>2. request[r] \in Arrived /\ request[r] # A!Idle  BY <2>1, PastIdle
  <2>3. /\ q \in Arrived /\ q # A!Idle /\ q.at = "serving" /\ q.credential = request[r].credential
        /\ q.class = request[r].class
    BY <2>1, <2>2, MovedFields
  <2>4. CASE request[r].class = "read" /\ A!Free("reads", request[r].credential)
    <3>1. A!TryAcquire("reads", request[r].credential) /\ request' = [request EXCEPT ![r] = q]
      BY <1>8, <2>4 DEF A!requestLimitMiddleware, A!Goto, Moved
    <3> HIDE DEF q
    <3>2. KeyIn(q, "reads") = request[r].credential  BY <2>3 DEF KeyIn
    <3>3. \A o \in A!Pools : ~Keeps(request[r], o)  BY <2>1, <2>4 DEF Keeps
    <3>4. Keeps(q, "reads") /\ \A o \in A!Pools : o # "reads" => ~Keeps(q, o)
      BY <2>3, <2>4 DEF Keeps, A!Pools
    <3>5. "reads" \in A!Pools  BY DEF A!Pools
    <3> QED BY Zenon, <3>1, <3>2, <3>3, <3>4, <3>5, <2>3, <2>4, AcquireStep
  <2>5. CASE request[r].class = "read" /\ ~A!Free("reads", request[r].credential)
    <3>1. pool' = pool /\ request' = [request EXCEPT ![r] = A!Idle]
      BY <1>8, <2>5 DEF A!requestLimitMiddleware
    <3>2. \A o \in A!Pools : ~Keeps(request[r], o) /\ ~Keeps(A!Idle, o)  BY <2>1, <2>5 DEF Keeps
    <3> QED BY Zenon, <3>1, <3>2, SlotlessStep
  <2>6. CASE request[r].class # "read"
    <3>1. A!Goto(r, "serving") /\ pool' = pool  BY <1>8, <2>6 DEF A!requestLimitMiddleware
    <3>2. \A p \in A!Pools : Keeps(Moved(request[r], "serving"), p) <=> Keeps(request[r], p)
      BY <2>1, <2>2, <2>3, <2>6 DEF Keeps
    <3> QED BY <3>1, <3>2, <2>1, GoOnStep
  <2> QED BY <2>4, <2>5, <2>6
<1>9. ASSUME NEW r \in Requests, A!End(r)  PROVE SlotsInv'
  <2>1. request[r].at \in Steps /\ A!Release(r) /\ request' = [request EXCEPT ![r] = A!Idle]
    BY <1>9 DEF A!End, Steps
  <2> QED BY Zenon, <2>1, ReleaseStep
<1>10. CASE A!Tick
  BY <1>10 DEF A!Tick, SlotsInv, Keepers, KeepersFor
<1> QED BY <1>1, <1>3, <1>4, <1>5, <1>6, <1>7, <1>8, <1>9, <1>10 DEF A!Next

-----------------------------------------------------------------------------
(* Buckets: what dropping one loses *)

\* The smaller of two numbers.
LEMMA MinOfTwo ==
  ASSUME NEW x \in Nat, NEW y \in Nat
  PROVE  A!Min({x, y}) = IF x <= y THEN x ELSE y
<1>1. \E m \in {x, y} : \A z \in {x, y} : m =< z
  <2>1. CASE x <= y  BY <2>1
  <2>2. CASE y <= x  BY <2>2
  <2> QED BY <2>1, <2>2
<1>2. A!Min({x, y}) \in {x, y} /\ \A z \in {x, y} : A!Min({x, y}) =< z  BY <1>1, Zenon DEF A!Min
<1> QED BY <1>2

\* What accrues over a time is a number, and no less over a longer one.
LEMMA Accrual ==
  ASSUME NEW s \in Nat, NEW t \in Nat, s <= t, NEW rate \in Nat
  PROVE  s * rate \in Nat /\ t * rate \in Nat /\ s * rate <= t * rate
<1>1. s * rate \in Nat /\ t * rate \in Nat  OBVIOUS
<1>2. PICK n \in Nat : t = s + n  BY t - s \in Nat
<1>3. t * rate = s * rate + n * rate /\ n * rate \in Nat  BY <1>2
<1> QED BY <1>1, <1>3

\* A refilled bucket is a bucket, and a full one stays full.
LEMMA Refilling ==
  ASSUME A!AdmissionAssumption, NEW l \in A!Limiters, NEW t \in Nat, NEW b \in BucketType(l, t)
  PROVE  /\ Refill(l, b, t) \in BucketType(l, t) /\ Refill(l, b, t).lastSeen = t
         /\ Refill(l, b, t).tokens >= b.tokens
         /\ b \in BucketType(l, t + 1)
         /\ Refill(l, b, t).tokens = Limits[l].burst => Refill(l, b, t + 1).tokens = Limits[l].burst
         /\ b.lastSeen + IdleTime < t => Refill(l, b, t).tokens = Limits[l].burst
<1> DEFINE burst == Limits[l].burst
           rate == Limits[l].rate
           age == t - b.lastSeen
<1>1. /\ rate \in Nat /\ burst \in Nat /\ IdleTime \in Nat /\ (IdleTime + 1) * rate >= burst
  BY DEF A!AdmissionAssumption
<1>2. b.tokens \in Nat /\ b.tokens <= burst /\ b.lastSeen \in Nat /\ b.lastSeen <= t /\ age \in Nat
  BY <1>1 DEF BucketType
<1>3. (t + 1) - b.lastSeen = age + 1  BY <1>2
<1>4. /\ age * rate \in Nat /\ (age + 1) * rate \in Nat /\ age * rate <= (age + 1) * rate
  BY SMTT(20), <1>1, <1>2, Accrual
<1>5. ASSUME NEW n \in Nat, n * rate \in Nat
      PROVE  A!Min({burst, b.tokens + n * rate}) = IF burst <= b.tokens + n * rate THEN burst ELSE b.tokens + n * rate
  BY SMTT(20), <1>1, <1>2, <1>5, MinOfTwo
<1>6. /\ Refill(l, b, t).tokens = IF burst <= b.tokens + age * rate THEN burst ELSE b.tokens + age * rate
      /\ Refill(l, b, t).lastSeen = t
      /\ Refill(l, b, t) = [tokens |-> Refill(l, b, t).tokens, lastSeen |-> t]
  BY <1>2, <1>4, <1>5 DEF Refill
<1>7. Refill(l, b, t + 1).tokens = IF burst <= b.tokens + (age + 1) * rate THEN burst ELSE b.tokens + (age + 1) * rate
  BY <1>2, <1>3, <1>4, <1>5 DEF Refill
<1> HIDE DEF burst, rate, age
<1>8. Refill(l, b, t).tokens \in 0 .. burst /\ Refill(l, b, t).tokens >= b.tokens
  BY <1>1, <1>2, <1>4, <1>6
<1>9. Refill(l, b, t) \in BucketType(l, t)  BY <1>6, <1>8 DEF BucketType, burst
<1>10. b \in BucketType(l, t + 1)  BY <1>2 DEF BucketType
<1>11. Refill(l, b, t).tokens = burst => Refill(l, b, t + 1).tokens = burst
  BY <1>1, <1>2, <1>4, <1>6, <1>7
<1>12. ASSUME b.lastSeen + IdleTime < t  PROVE Refill(l, b, t).tokens = burst
  <2>1. IdleTime + 1 \in Nat /\ IdleTime + 1 <= age  BY <1>1, <1>2, <1>12 DEF age
  <2>2. (IdleTime + 1) * rate <= age * rate /\ (IdleTime + 1) * rate \in Nat  BY <2>1, <1>1, <1>2, Accrual
  <2> QED BY <2>2, <1>1, <1>2, <1>4, <1>6
<1> QED BY <1>6, <1>8, <1>9, <1>10, <1>11, <1>12 DEF burst

\* Spending a token that is there leaves a bucket.
LEMMA Spending ==
  ASSUME NEW l \in A!Limiters, A!AdmissionAssumption, NEW t, NEW b \in BucketType(l, t),
         NEW spends \in BOOLEAN, spends => b.tokens >= 1
  PROVE  A!Spend(b, spends) \in BucketType(l, t)
<1>1. CASE spends
  <2> DEFINE n == b.tokens - 1
  <2>1. n \in 0 .. Limits[l].burst  BY <1>1 DEF BucketType, A!AdmissionAssumption
  <2>2. A!Spend(b, spends) = [b EXCEPT !.tokens = n]  BY <1>1 DEF A!Spend
  <2> HIDE DEF n
  <2> QED BY <2>1, <2>2, Zenon DEF BucketType
<1>2. CASE ~spends  BY <1>2 DEF A!Spend
<1> QED BY <1>1, <1>2

\* Refilled is Refill at the present time.
LEMMA RefilledNow ==
  ASSUME NEW l, NEW b
  PROVE  A!Refilled(l, b) = Refill(l, b, now)
BY DEF A!Refilled, Refill

\* The bucket that Allow takes a token from is the ideal one.
LEMMA BucketIsIdeal ==
  ASSUME A!AdmissionAssumption, RatesInv, NEW l \in A!Limiters, NEW key \in A!KeysOf(l)
  PROVE  A!BucketOf(l, key) = Refill(l, ideal[l][key], now)
<1>1. MapInv(l) /\ SameOrFull(l, key) /\ now \in Nat  BY DEF RatesInv, MapInv, A!AdmissionAssumption
<1>2. CASE key \in DOMAIN buckets[l]
  BY <1>1, <1>2, RefilledNow DEF A!BucketOf, SameOrFull
<1>3. CASE key \notin DOMAIN buckets[l]
  <2> DEFINE i == Refill(l, ideal[l][key], now)
             f == Refill(l, A!Full(l), now)
  <2>1. A!Full(l) \in BucketType(l, now) /\ A!Full(l).tokens = Limits[l].burst
    BY <1>1 DEF A!Full, BucketType, A!AdmissionAssumption
  <2>2. f \in BucketType(l, now) /\ f.tokens >= Limits[l].burst  BY <2>1, <1>1, Refilling
  <2>3. f.tokens = Limits[l].burst  BY <2>2 DEF BucketType, A!AdmissionAssumption
  <2>4. i.tokens = Limits[l].burst  BY <1>1, <1>3 DEF SameOrFull
  <2>5. f = [tokens |-> f.tokens, lastSeen |-> now] /\ i = [tokens |-> i.tokens, lastSeen |-> now]
    BY DEF Refill
  <2>6. A!BucketOf(l, key) = f  BY SMTT(20), <1>3, RefilledNow DEF A!BucketOf
  <2> HIDE DEF f, i
  <2>7. A!BucketOf(l, key) = i  BY SMTT(20), <2>3, <2>4, <2>5, <2>6
  <2> QED BY <2>7 DEF i
<1> QED BY <1>2, <1>3

\* The keys that stay are keys of the map, and those that go are stale.
LEMMA KeptKeys ==
  ASSUME A!AdmissionAssumption, RatesInv, NEW l \in A!Limiters, NEW key \in A!KeysOf(l)
  PROVE  /\ A!Kept(l, key) \subseteq DOMAIN buckets[l] /\ A!IsFiniteSet(A!Kept(l, key))
         /\ A!Cardinality(A!Kept(l, key)) <= MaxRateLimitKeys
         /\ \A k \in DOMAIN buckets[l] \ A!Kept(l, key) : buckets[l][k].lastSeen + IdleTime < now
         /\ key \in DOMAIN buckets[l] => A!Kept(l, key) = DOMAIN buckets[l]
<1>1. A!IsFiniteSet(DOMAIN buckets[l]) /\ A!Cardinality(DOMAIN buckets[l]) <= MaxRateLimitKeys
  BY DEF RatesInv, MapInv
<1>2. A!Kept(l, key) \subseteq DOMAIN buckets[l]  BY DEF A!Kept
<1>3. /\ A!IsFiniteSet(A!Kept(l, key)) /\ A!Cardinality(A!Kept(l, key)) <= A!Cardinality(DOMAIN buckets[l])
      /\ A!Cardinality(A!Kept(l, key)) \in Nat /\ A!Cardinality(DOMAIN buckets[l]) \in Nat
  BY <1>1, <1>2, FS_Subset, FS_CardinalityType, SameSizes
<1>4. A!Cardinality(A!Kept(l, key)) <= MaxRateLimitKeys  BY <1>1, <1>3 DEF A!AdmissionAssumption
<1>5. \A k \in DOMAIN buckets[l] \ A!Kept(l, key) : buckets[l][k].lastSeen + IdleTime < now
  BY DEF A!Kept, A!Stale
<1> QED BY <1>2, <1>3, <1>4, <1>5 DEF A!Kept

\* One key more in a finite map that is not full.
LEMMA OneMoreKey ==
  ASSUME NEW S, A!IsFiniteSet(S), A!Cardinality(S) < MaxRateLimitKeys, NEW k, k \notin S, A!AdmissionAssumption
  PROVE  A!IsFiniteSet(S \cup {k}) /\ A!Cardinality(S \cup {k}) <= MaxRateLimitKeys
<1>1. A!Cardinality(S) \in Nat  BY SameSizes, FS_CardinalityType
<1>2. A!IsFiniteSet(S \cup {k}) /\ A!Cardinality(S \cup {k}) = A!Cardinality(S) + 1
  BY SMTT(20), SameSizes, FS_AddElement
<1> QED BY <1>1, <1>2 DEF A!AdmissionAssumption

\* Allow keeps each bucket of the map equal to the ideal one, and drops only those
\* that would be full.
LEMMA AllowStep ==
  ASSUME A!AdmissionAssumption, RatesInv, NEW l \in A!Limiters, NEW key \in A!KeysOf(l), A!Allow(l, key), now' = now
  PROVE  RatesInv'
<1> DEFINE s == A!Spends(l, key)
           i == Refill(l, ideal[l][key], now)
           kept == A!Kept(l, key)
           n == A!Spend(i, s)
<1>1. MapInv(l) /\ now \in Nat  BY DEF RatesInv, A!AdmissionAssumption
<1>2. ideal[l] \in [A!KeysOf(l) -> BucketType(l, now)] /\ ideal[l][key] \in BucketType(l, now)
  BY <1>1 DEF MapInv
<1>3. A!BucketOf(l, key) = i /\ A!Refilled(l, ideal[l][key]) = i  BY BucketIsIdeal, RefilledNow
<1>4. i \in BucketType(l, now) /\ n \in BucketType(l, now) /\ s \in BOOLEAN /\ (s => A!HasRoom(l, key))
  <2>1. i \in BucketType(l, now)  BY <1>1, <1>2, Refilling
  <2>2. s \in BOOLEAN /\ (s => A!HasRoom(l, key) /\ i.tokens >= 1)  BY <1>3 DEF A!Spends
  <2> HIDE DEF s, i
  <2>3. n \in BucketType(l, now)  BY <2>1, <2>2, Spending
  <2> QED BY <2>1, <2>2, <2>3
<1>5. /\ DOMAIN buckets' = A!Limiters /\ \A o \in A!Limiters : o # l => buckets'[o] = buckets[o]
      /\ A!HasRoom(l, key) =>
           buckets'[l] = [k \in kept \cup {key} |-> IF k = key THEN n ELSE buckets[l][k]]
      /\ ~A!HasRoom(l, key) => buckets'[l] = [k \in kept |-> buckets[l][k]]
  BY <1>3 DEF A!Allow, RatesInv
<1>6. /\ DOMAIN ideal' = A!Limiters /\ \A o \in A!Limiters : o # l => ideal'[o] = ideal[o]
      /\ ideal'[l] = [ideal[l] EXCEPT ![key] = n]
  BY SMTT(20), <1>3 DEF A!Allow, RatesInv
<1> HIDE DEF s, i, kept, n
<1>7. /\ ideal'[l] \in [A!KeysOf(l) -> BucketType(l, now)] /\ ideal'[l][key] = n
      /\ \A k \in A!KeysOf(l) : k # key => ideal'[l][k] = ideal[l][k]
  BY <1>2, <1>4, <1>6
<1>8. /\ kept \subseteq DOMAIN buckets[l] /\ A!IsFiniteSet(kept) /\ A!Cardinality(kept) <= MaxRateLimitKeys
      /\ \A k \in DOMAIN buckets[l] \ kept : buckets[l][k].lastSeen + IdleTime < now
      /\ key \in DOMAIN buckets[l] => kept = DOMAIN buckets[l]
  BY KeptKeys DEF kept
<1>9. DOMAIN buckets'[l] = IF A!HasRoom(l, key) THEN kept \cup {key} ELSE kept  BY <1>5
<1>10. /\ DOMAIN buckets'[l] \subseteq A!KeysOf(l) /\ A!IsFiniteSet(DOMAIN buckets'[l])
       /\ A!Cardinality(DOMAIN buckets'[l]) <= MaxRateLimitKeys
  <2>1. DOMAIN buckets'[l] \subseteq A!KeysOf(l)  BY <1>1, <1>8, <1>9 DEF MapInv
  <2>2. CASE ~A!HasRoom(l, key) \/ key \in kept
    <3>1. DOMAIN buckets'[l] = kept  BY SMTT(20), <2>2, <1>9
    <3> QED BY <3>1, <2>1, <1>8
  <2>3. CASE A!HasRoom(l, key) /\ key \notin kept
    <3>1. A!Cardinality(kept) < MaxRateLimitKeys  BY <2>3, <1>8 DEF A!HasRoom, kept
    <3>2. DOMAIN buckets'[l] = kept \cup {key}  BY <2>3, <1>9
    <3> QED BY <3>1, <3>2, <2>1, <2>3, <1>8, OneMoreKey
  <2> QED BY SMTT(20), <2>2, <2>3
<1>11. ASSUME NEW k \in A!KeysOf(l)  PROVE SameOrFull(l, k)'
  <2>1. SameOrFull(l, k)  BY SMTT(20), <1>1 DEF MapInv
  <2>2. CASE k = key /\ A!HasRoom(l, key)
    <3>1. k \in DOMAIN buckets'[l] /\ buckets'[l][k] = n /\ ideal'[l][k] = n  BY <2>2, <1>5, <1>7, <1>9
    <3> QED BY SMTT(20), <3>1 DEF SameOrFull
  <2>3. CASE k = key /\ ~A!HasRoom(l, key)
    <3>1. k \notin DOMAIN buckets[l]  BY <2>3 DEF A!HasRoom
    <3>2. i.tokens = Limits[l].burst  BY <3>1, <2>1, <2>3 DEF SameOrFull, i
    <3>3. n = i  BY <2>3, <1>4 DEF n, A!Spend
    <3>4. Refill(l, i, now).tokens \in 0 .. Limits[l].burst /\ Refill(l, i, now).tokens >= i.tokens
      BY Zenon, <1>1, <1>4, Refilling DEF BucketType
    <3>5. Refill(l, i, now).tokens = Limits[l].burst  BY SMTT(20), <3>2, <3>4 DEF A!AdmissionAssumption
    <3>6. k \notin DOMAIN buckets'[l]  BY SMTT(20), <3>1, <2>3, <1>8, <1>9
    <3>7. ideal'[l][k] = i  BY SMTT(20), <3>3, <2>3, <1>7
    <3> QED BY <3>5, <3>6, <3>7 DEF SameOrFull
  <2>4. CASE k # key /\ k \in kept
    <3>1. k \in DOMAIN buckets'[l] /\ buckets'[l][k] = buckets[l][k] /\ ideal'[l][k] = ideal[l][k]
      BY SMTT(20), <2>4, <1>5, <1>7, <1>9
    <3> QED BY SMTT(20), <3>1, <2>1, <2>4, <1>8 DEF SameOrFull
  <2>5. CASE k # key /\ k \notin kept
    <3>1. k \notin DOMAIN buckets'[l] /\ ideal'[l][k] = ideal[l][k]  BY SMTT(20), <2>5, <1>7, <1>9
    <3>2. Refill(l, ideal[l][k], now).tokens = Limits[l].burst
      <4>1. CASE k \in DOMAIN buckets[l]
        <5>1. ideal[l][k].lastSeen + IdleTime < now  BY SMTT(20), <4>1, <2>1, <2>5, <1>8 DEF SameOrFull
        <5>2. ideal[l][k] \in BucketType(l, now)  BY SMTT(20), <1>2
        <5> QED BY SMTT(20), <5>1, <5>2, <1>1, Refilling
      <4>2. CASE k \notin DOMAIN buckets[l]  BY SMTT(20), <4>2, <2>1 DEF SameOrFull
      <4> QED BY SMTT(20), <4>1, <4>2
    <3> QED BY SMTT(20), <3>1, <3>2 DEF SameOrFull
  <2> QED BY SMTT(20), <2>2, <2>3, <2>4, <2>5
<1>12. MapInv(l)'  BY SMTT(20), <1>7, <1>10, <1>11 DEF MapInv
<1>13. ASSUME NEW o \in A!Limiters, o # l  PROVE MapInv(o)'
  <2>1. MapInv(o) /\ buckets'[o] = buckets[o] /\ ideal'[o] = ideal[o]  BY <1>5, <1>6, <1>13 DEF RatesInv
  <2> QED BY SMTT(20), <2>1 DEF MapInv, SameOrFull
<1>14. now' \in 0 .. MaxTime  BY DEF RatesInv
<1> QED BY SMTT(20), <1>5, <1>6, <1>12, <1>13, <1>14 DEF RatesInv

\* Time fills every bucket further.
LEMMA RatesTick ==
  ASSUME A!AdmissionAssumption, RatesInv, A!Tick
  PROVE  RatesInv'
<1>1. now \in Nat /\ now' = now + 1 /\ now < MaxTime /\ buckets' = buckets /\ ideal' = ideal
  BY DEF A!Tick, RatesInv, A!AdmissionAssumption
<1>2. now' \in 0 .. MaxTime  BY <1>1 DEF A!AdmissionAssumption
<1>3. ASSUME NEW l \in A!Limiters  PROVE MapInv(l)'
  <2>1. MapInv(l)  BY SMTT(20) DEF RatesInv
  <2>2. ASSUME NEW k \in A!KeysOf(l)
        PROVE  ideal[l][k] \in BucketType(l, now') /\ SameOrFull(l, k)'
    <3>1. ideal[l][k] \in BucketType(l, now) /\ SameOrFull(l, k)  BY <2>1 DEF MapInv
    <3>2. /\ ideal[l][k] \in BucketType(l, now')
          /\ Refill(l, ideal[l][k], now).tokens = Limits[l].burst
               => Refill(l, ideal[l][k], now').tokens = Limits[l].burst
      BY Zenon, <3>1, <1>1, Refilling
    <3> QED BY <3>1, <3>2, <1>1 DEF SameOrFull
  <2> QED BY SMTT(20), <2>1, <2>2, <1>1 DEF MapInv
<1> QED BY <1>1, <1>2, <1>3 DEF RatesInv

\* Every step keeps the buckets right.
LEMMA RatesStep ==
  ASSUME A!AdmissionAssumption, SlotsInv, RatesInv, A!Next
  PROVE  RatesInv'
<1>1. "address" \in A!Limiters /\ "credential" \in A!Limiters /\ "user" \in A!Limiters  BY DEF A!Limiters
<1>2. ASSUME NEW r \in Requests, request[r].at \in Steps
      PROVE  /\ request[r].address \in A!KeysOf("address") /\ request[r].credential \in A!KeysOf("credential")
             /\ request[r].credential \in A!KeysOf("user")
  <2>1. request[r] \in Arrived  BY <1>2, PastIdle
  <2> QED BY <2>1 DEF Arrived, A!KeysOf
<1>3. ASSUME NEW r \in Requests, A!SpendAddress(r)  PROVE RatesInv'
  <2>1. request[r].at \in Steps /\ A!Allow("address", request[r].address) /\ now' = now
    BY <1>3 DEF A!SpendAddress, Steps
  <2> QED BY <2>1, <1>1, <1>2, AllowStep
<1>4. ASSUME NEW r \in Requests, A!SpendCredential(r)  PROVE RatesInv'
  <2>1. request[r].at \in Steps /\ A!Allow("credential", request[r].credential) /\ now' = now
    BY <1>4 DEF A!SpendCredential, Steps
  <2> QED BY <2>1, <1>1, <1>2, AllowStep
<1>5. ASSUME NEW r \in Requests, A!SpendUser(r)  PROVE RatesInv'
  <2>1. request[r].at \in Steps /\ A!Allow("user", request[r].credential) /\ now' = now
    BY SMTT(20), <1>5 DEF A!SpendUser, Steps
  <2> QED BY <2>1, <1>1, <1>2, AllowStep
<1>6. ASSUME UNCHANGED <<now, buckets, ideal>>  PROVE RatesInv'
  <2>1. \A l \in A!Limiters : MapInv(l)'  BY <1>6 DEF RatesInv, MapInv, SameOrFull
  <2> QED BY <2>1, <1>6 DEF RatesInv
<1>7. CASE A!Tick  BY <1>7, RatesTick
<1>8. ASSUME NEW r \in Requests,
             \/ \E a \in Addresses, c \in Credentials, class \in A!Classes : A!Arrive(r, a, c, class)
             \/ A!RefuseBody(r) \/ A!requestAdmissionMiddleware(r) \/ A!requestLimitMiddleware(r) \/ A!End(r)
      PROVE  RatesInv'
  <2>1. UNCHANGED <<now, buckets, ideal>>
    BY <1>8 DEF A!Arrive, A!RefuseBody, A!requestAdmissionMiddleware, A!requestLimitMiddleware, A!End
  <2> QED BY <2>1, <1>6
<1> QED BY <1>3, <1>4, <1>5, <1>7, <1>8 DEF A!Next

-----------------------------------------------------------------------------
(* The theorems *)

\* No request is in and every bucket is full.
LEMMA AdmissionInit ==
  ASSUME A!AdmissionAssumption, A!Init
  PROVE  AdmissionInv
<1>1. SlotsInv
  <2>1. request \in [Requests -> {A!Idle} \cup Arrived] /\ DOMAIN pool = A!Pools  BY DEF A!Init
  <2>2. ASSUME NEW p \in A!Pools  PROVE /\ Keepers(p) = {} /\ \A k : KeepersFor(p, k) = {}
    BY DEF A!Init, Keepers, KeepersFor, Keeps
  <2>3. ASSUME NEW p \in A!Pools
        PROVE  /\ pool[p] \in PoolType(p) /\ pool[p].active = 0
               /\ \A k \in SlotKeys(p) : pool[p].by[k] = 0
    <3>1. pool[p] = [active |-> 0, by |-> [k \in SlotKeys(p) |-> 0]]  BY DEF A!Init, SlotKeys
    <3>2. A!GlobalLimit(p) \in Nat  BY DEF A!AdmissionAssumption, A!GlobalLimit
    <3> QED BY <3>1, <3>2 DEF PoolType
  <2> QED BY Zenon, <2>1, <2>2, <2>3, NoneKeeps DEF SlotsInv
<1>2. RatesInv
  <2>1. now = 0 /\ DOMAIN buckets = A!Limiters /\ DOMAIN ideal = A!Limiters  BY SMTT(20) DEF A!Init
  <2>2. ASSUME NEW l \in A!Limiters  PROVE MapInv(l)
    <3>1. DOMAIN buckets[l] = {}  BY DEF A!Init
    <3>2. A!IsFiniteSet({}) /\ A!Cardinality({}) <= MaxRateLimitKeys
      BY SameSizes, FS_EmptySet DEF A!AdmissionAssumption
    <3>3. A!Full(l) \in BucketType(l, now) /\ A!Full(l).tokens = Limits[l].burst
      BY <2>1 DEF A!Full, BucketType, A!AdmissionAssumption
    <3>4. ideal[l] = [k \in A!KeysOf(l) |-> A!Full(l)]  BY DEF A!Init
    <3>5. /\ Refill(l, A!Full(l), now).tokens \in 0 .. Limits[l].burst
          /\ Refill(l, A!Full(l), now).tokens >= Limits[l].burst
      BY Zenon, <3>3, <2>1, Refilling DEF BucketType
    <3>6. Refill(l, A!Full(l), now).tokens = Limits[l].burst  BY <3>5 DEF A!AdmissionAssumption
    <3>7. \A k \in A!KeysOf(l) : SameOrFull(l, k)  BY <3>1, <3>4, <3>6 DEF SameOrFull
    <3> QED BY <3>1, <3>2, <3>3, <3>4, <3>7 DEF MapInv
  <2> QED BY <2>1, <2>2 DEF RatesInv, A!AdmissionAssumption
<1> QED BY <1>1, <1>2 DEF AdmissionInv

\* Every step keeps both halves of the invariant.
LEMMA AdmissionStep ==
  ASSUME A!AdmissionAssumption, AdmissionInv, [A!Next]_(A!vars)
  PROVE  AdmissionInv'
<1>1. CASE A!Next  BY SMTT(20), <1>1, SlotsStep, RatesStep DEF AdmissionInv
<1>2. CASE UNCHANGED A!vars
  <2>1. SlotsInv'  BY SMTT(20), <1>2 DEF A!vars, AdmissionInv, SlotsInv, Keepers, KeepersFor
  <2>2. \A l \in A!Limiters : MapInv(l)'  BY <1>2 DEF A!vars, AdmissionInv, RatesInv, MapInv, SameOrFull
  <2>3. RatesInv'  BY <2>2, <1>2 DEF A!vars, AdmissionInv, RatesInv
  <2> QED BY SMTT(20), <2>1, <2>3 DEF AdmissionInv
<1> QED BY <1>1, <1>2

\* The invariant of the admission middlewares holds in every reachable state.
LEMMA AdmissionInvHolds ==
  ASSUME A!AdmissionAssumption
  PROVE  A!Spec => []AdmissionInv
<1>1. A!Init => AdmissionInv  BY AdmissionInit
<1>2. AdmissionInv /\ [A!Next]_(A!vars) => AdmissionInv'  BY AdmissionStep
<1> QED BY <1>1, <1>2, PTL DEF A!Spec

\* The counters of the large-body and canonical-read pools are the requests that
\* hold a slot: no path through the middlewares leaks one or gives one back twice.
THEOREM SlotsStayMatched ==
  ASSUME A!AdmissionAssumption
  PROVE  A!Spec => []A!SlotsMatchRequests
<1>1. ASSUME AdmissionInv  PROVE A!SlotsMatchRequests
  <2> SUFFICES ASSUME NEW p \in A!Pools
               PROVE  LET holders == {r \in Requests : request[r] # A!Idle /\ A!Holds(r, p)}
                      IN  /\ pool[p].active = A!Cardinality(holders)
                          /\ \A k \in DOMAIN pool[p].by :
                               pool[p].by[k] = A!Cardinality({r \in holders : A!PoolKey(p, r) = k})
    BY DEF A!SlotsMatchRequests
  <2> DEFINE holders == {r \in Requests : request[r] # A!Idle /\ A!Holds(r, p)}
  <2>1. holders = Keepers(p)  BY DEF A!Holds, Keepers, Keeps
  <2>2. \A k : {r \in holders : A!PoolKey(p, r) = k} = KeepersFor(p, k)
    <3>1. \A r : A!PoolKey(p, r) = KeyIn(request[r], p)  BY DEF A!PoolKey, KeyIn
    <3>2. \A r : r \in holders <=> r \in Requests /\ Keeps(request[r], p)  BY <2>1 DEF Keepers
    <3> HIDE DEF holders
    <3>3. ASSUME NEW k, NEW r
          PROVE  r \in {q \in holders : A!PoolKey(p, q) = k} <=> r \in KeepersFor(p, k)
      BY <3>1, <3>2 DEF KeepersFor
    <3> QED BY <3>3, Zenon
  <2>3. DOMAIN pool[p].by = SlotKeys(p)  BY <1>1 DEF AdmissionInv, SlotsInv, PoolType
  <2> HIDE DEF holders
  <2>4. pool[p].active = A!Cardinality(holders)  BY <2>1, <1>1 DEF AdmissionInv, SlotsInv
  <2>5. \A k \in DOMAIN pool[p].by : pool[p].by[k] = A!Cardinality({r \in holders : A!PoolKey(p, r) = k})
    <3>1. \A k \in SlotKeys(p) : pool[p].by[k] = A!Cardinality(KeepersFor(p, k))
      BY SMTT(20), <1>1 DEF AdmissionInv, SlotsInv
    <3> QED BY <3>1, <2>2, <2>3, Zenon
  <2> QED BY <2>4, <2>5 DEF holders
<1> QED BY <1>1, AdmissionInvHolds, PTL

\* Dropping idle buckets from a full map never gives a key more than its rate,
\* because a bucket is dropped only when it would have been full.
THEOREM DroppingStaysHarmless ==
  ASSUME A!AdmissionAssumption
  PROVE  A!Spec => []A!DroppingIsHarmless
<1>1. ASSUME AdmissionInv, NEW l \in A!Limiters, NEW k \in A!KeysOf(l)
      PROVE  /\ k \in DOMAIN buckets[l] => A!Refilled(l, buckets[l][k]).tokens <= A!Refilled(l, ideal[l][k]).tokens
             /\ k \notin DOMAIN buckets[l] => A!Full(l).tokens <= A!Refilled(l, ideal[l][k]).tokens
  <2>1. RatesInv /\ MapInv(l) /\ SameOrFull(l, k) /\ now \in Nat
    BY SMTT(20), <1>1 DEF AdmissionInv, RatesInv, MapInv, A!AdmissionAssumption
  <2>2. ideal[l][k] \in BucketType(l, now)  BY <2>1 DEF MapInv
  <2>3. Refill(l, ideal[l][k], now).tokens \in 0 .. Limits[l].burst
    BY Zenon, <2>1, <2>2, Refilling DEF BucketType
  <2>4. A!Full(l).tokens = Limits[l].burst  BY DEF A!Full
  <2> QED BY SMTT(20), <2>1, <2>3, <2>4, RefilledNow DEF SameOrFull, A!AdmissionAssumption
<1>2. AdmissionInv => A!DroppingIsHarmless
  BY <1>1 DEF A!DroppingIsHarmless
<1> QED BY <1>2, AdmissionInvHolds, PTL

=============================================================================
