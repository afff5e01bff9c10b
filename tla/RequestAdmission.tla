-------------------------- MODULE RequestAdmission --------------------------
(***************************************************************************)
(* How requests are admitted before and after authentication               *)
(* (internal/server/request_limits.go).  A request spends a token of its   *)
(* address's bucket, then one of its credential's, takes a slot of the     *)
(* large-body pool if its class needs one, and after authentication spends *)
(* a token of its user's bucket and takes a slot of the canonical-read     *)
(* pool.  What it holds it gives back when it ends, in the reverse order,  *)
(* on every path.  Buckets live in maps of bounded size: a full map drops  *)
(* the buckets that have been idle, and refuses a new key if none is.      *)
(*                                                                         *)
(* Tokens are whole and the rate is per tick of the clock.  For each       *)
(* bucket the model also keeps an ideal one that is never dropped.         *)
(***************************************************************************)
EXTENDS Naturals, FiniteSets, FiniteSetsExt

CONSTANTS
    Requests,
    Addresses,              \* client addresses
    Credentials,            \* each belongs to a user of its own
    Limits,                 \* rate and burst of the three limiters, by name
    MaxRateLimitKeys,       \* maxRateLimitKeys
    IdleTime,               \* after which a bucket may be dropped
    LargeBodies,            \* maxConcurrentLargeBodies
    LargeBodiesPerClient,   \* maxConcurrentLargeBodiesPerClient
    CanonicalReads,         \* maxConcurrentCanonicalReads
    CanonicalReadsPerKey,   \* maxConcurrentCanonicalReadsPerKey
    MaxTime                 \* bounds the behaviours

Limiters == {"address", "credential", "user"}
Pools == {"bodies", "reads"}

\* The classes of requests that differ here: small, with a large body, and a heavy
\* read of canonical pages.
Classes == {"small", "large", "read"}

KeyOf(limiter, a, c) == IF limiter = "address" THEN a ELSE c
KeysOf(limiter) == IF limiter = "address" THEN Addresses ELSE Credentials

AdmissionAssumption ==
    /\ IsFiniteSet(Requests)
    /\ {MaxRateLimitKeys, IdleTime, MaxTime} \subseteq Nat
    /\ {LargeBodies, LargeBodiesPerClient, CanonicalReads, CanonicalReadsPerKey} \subseteq Nat
    /\ \A l \in Limiters : Limits[l].rate \in Nat /\ Limits[l].burst \in Nat \ {0}
    \* A bucket that may be dropped has refilled: ten minutes at the rates of the code.
    /\ \A l \in Limiters : (IdleTime + 1) * Limits[l].rate >= Limits[l].burst

VARIABLES
    now,
    buckets,      \* for each limiter, the buckets of its map
    ideal,        \* for each limiter and key, the bucket that is never dropped
    pool,         \* the counters of the pools: active, and by key
    request       \* where each request is, its address, credential and class

vars == <<now, buckets, ideal, pool, request>>

Idle == [at |-> "idle"]
Full(limiter) == [tokens |-> Limits[limiter].burst, lastSeen |-> now]

-----------------------------------------------------------------------------
(* Token buckets.                                                          *)

Refilled(limiter, bucket) ==
    [tokens |-> Min({Limits[limiter].burst, bucket.tokens + (now - bucket.lastSeen) * Limits[limiter].rate}),
     lastSeen |-> now]

\* Every bucket but those of the last tick.
BugStale(limiter) == {k \in DOMAIN buckets[limiter] : buckets[limiter][k].lastSeen < now}

Stale(limiter) == {k \in DOMAIN buckets[limiter] : buckets[limiter][k].lastSeen + IdleTime < now}

\* The map once a full one has dropped its idle buckets for the sake of a new key.
Kept(limiter, key) ==
    IF key \notin DOMAIN buckets[limiter] /\ Cardinality(DOMAIN buckets[limiter]) >= MaxRateLimitKeys
      THEN DOMAIN buckets[limiter] \ Stale(limiter)
      ELSE DOMAIN buckets[limiter]

HasRoom(limiter, key) ==
    key \in DOMAIN buckets[limiter] \/ Cardinality(Kept(limiter, key)) < MaxRateLimitKeys

BucketOf(limiter, key) ==
    Refilled(limiter, IF key \in DOMAIN buckets[limiter] THEN buckets[limiter][key] ELSE Full(limiter))

Spends(limiter, key) == HasRoom(limiter, key) /\ BucketOf(limiter, key).tokens >= 1

Spend(bucket, spends) == IF spends THEN [bucket EXCEPT !.tokens = @ - 1] ELSE bucket

\* The call of Allow, and of its ideal.
Allow(limiter, key) ==
    LET kept == Kept(limiter, key)
        bucket == Spend(BucketOf(limiter, key), Spends(limiter, key))
    IN  /\ buckets' = [buckets EXCEPT ![limiter] =
                         IF HasRoom(limiter, key)
                           THEN [k \in kept \cup {key} |-> IF k = key THEN bucket ELSE buckets[limiter][k]]
                           ELSE [k \in kept |-> buckets[limiter][k]]]
        /\ ideal' = [ideal EXCEPT ![limiter][key] = Spend(Refilled(limiter, @), Spends(limiter, key))]

-----------------------------------------------------------------------------
(* Slots.                                                                  *)

GlobalLimit(p) == IF p = "bodies" THEN LargeBodies ELSE CanonicalReads
KeyLimit(p) == IF p = "bodies" THEN LargeBodiesPerClient ELSE CanonicalReadsPerKey
PoolKey(p, r) == IF p = "bodies" THEN request[r].address ELSE request[r].credential

Free(p, key) == pool[p].active < GlobalLimit(p) /\ pool[p].by[key] < KeyLimit(p)

TryAcquire(p, key) == pool' = [pool EXCEPT ![p].active = @ + 1, ![p].by[key] = @ + 1]

Goto(r, at) == request' = [request EXCEPT ![r].at = at]

\* The release functions that the request has deferred, each run once.
Holds(r, p) ==
    \/ p = "bodies" /\ request[r].class = "large" /\ request[r].at \in {"admitted", "limited", "serving"}
    \/ p = "reads" /\ request[r].class = "read" /\ request[r].at = "serving"

\* The large-body slot is forgotten by a request that is refused after authentication.
BugRelease(r) ==
    pool' = [p \in Pools |->
               IF Holds(r, p) /\ request[r].at = "serving"
                 THEN [pool[p] EXCEPT !.active = @ - 1, !.by[PoolKey(p, r)] = @ - 1]
                 ELSE pool[p]]

Release(r) ==
    pool' = [p \in Pools |->
               IF Holds(r, p)
                 THEN [pool[p] EXCEPT !.active = @ - 1, !.by[PoolKey(p, r)] = @ - 1]
                 ELSE pool[p]]

-----------------------------------------------------------------------------
(* A request.                                                              *)

Arrive(r, a, c, class) ==
    /\ request[r] = Idle
    /\ request' = [request EXCEPT ![r] = [at |-> "arrived", address |-> a, credential |-> c, class |-> class]]
    /\ UNCHANGED <<now, buckets, ideal, pool>>

\* requestAdmissionMiddleware spends a token of the address, then of the credential.
SpendAddress(r) ==
    /\ request[r].at = "arrived"
    /\ Allow("address", request[r].address)
    /\ request' = [request EXCEPT ![r] = IF Spends("address", request[r].address)
                                           THEN [@ EXCEPT !.at = "addressed"] ELSE Idle]
    /\ UNCHANGED <<now, pool>>

SpendCredential(r) ==
    /\ request[r].at = "addressed"
    /\ Allow("credential", request[r].credential)
    /\ request' = [request EXCEPT ![r] = IF Spends("credential", request[r].credential)
                                           THEN [@ EXCEPT !.at = "edge"] ELSE Idle]
    /\ UNCHANGED <<now, pool>>

\* A body over the limit of its class is refused before a slot is taken; so is a
\* compressed one.
RefuseBody(r) ==
    /\ request[r].at = "edge"
    /\ request' = [request EXCEPT ![r] = Idle]
    /\ UNCHANGED <<now, buckets, ideal, pool>>

requestAdmissionMiddleware(r) ==
    /\ request[r].at = "edge"
    /\ IF request[r].class = "large"
         THEN IF Free("bodies", request[r].address)
                THEN TryAcquire("bodies", request[r].address) /\ Goto(r, "admitted")
                ELSE request' = [request EXCEPT ![r] = Idle] /\ UNCHANGED pool
         ELSE Goto(r, "admitted") /\ UNCHANGED pool
    /\ UNCHANGED <<now, buckets, ideal>>

\* After authentication, requestLimitMiddleware spends a token of the user.
SpendUser(r) ==
    /\ request[r].at = "admitted"
    /\ Allow("user", request[r].credential)
    /\ IF Spends("user", request[r].credential)
         THEN Goto(r, "limited") /\ UNCHANGED pool
         ELSE Release(r) /\ request' = [request EXCEPT ![r] = Idle]
    /\ UNCHANGED now

requestLimitMiddleware(r) ==
    /\ request[r].at = "limited"
    /\ IF request[r].class = "read"
         THEN IF Free("reads", request[r].credential)
                THEN TryAcquire("reads", request[r].credential) /\ Goto(r, "serving")
                ELSE request' = [request EXCEPT ![r] = Idle] /\ UNCHANGED pool
         ELSE Goto(r, "serving") /\ UNCHANGED pool
    /\ UNCHANGED <<now, buckets, ideal>>

\* Authentication refuses the request, or the handler returns or panics.
End(r) ==
    /\ request[r].at \in {"admitted", "serving"}
    /\ Release(r)
    /\ request' = [request EXCEPT ![r] = Idle]
    /\ UNCHANGED <<now, buckets, ideal>>

Tick ==
    /\ now < MaxTime
    /\ now' = now + 1
    /\ UNCHANGED <<buckets, ideal, pool, request>>

Init ==
    /\ now = 0
    /\ buckets = [l \in Limiters |-> [k \in {} |-> 0]]
    /\ ideal = [l \in Limiters |-> [k \in KeysOf(l) |-> Full(l)]]
    /\ pool = [p \in Pools |-> [active |-> 0, by |-> [k \in IF p = "bodies" THEN Addresses ELSE Credentials |-> 0]]]
    /\ request = [r \in Requests |-> Idle]

Next ==
    \/ \E r \in Requests :
         \/ \E a \in Addresses, c \in Credentials, class \in Classes : Arrive(r, a, c, class)
         \/ SpendAddress(r) \/ SpendCredential(r) \/ RefuseBody(r) \/ requestAdmissionMiddleware(r)
         \/ SpendUser(r) \/ requestLimitMiddleware(r) \/ End(r)
    \/ Tick

Spec == Init /\ [][Next]_vars

-----------------------------------------------------------------------------
(* Properties.                                                             *)

\* No limiter remembers more keys than its map holds, no bucket has more tokens than
\* its burst, and no pool is fuller than its global limit.
TypeOK ==
    /\ now \in 0..MaxTime
    /\ \A l \in Limiters :
         /\ DOMAIN buckets[l] \subseteq KeysOf(l) /\ Cardinality(DOMAIN buckets[l]) <= MaxRateLimitKeys
         /\ \A k \in DOMAIN buckets[l] : buckets[l][k].tokens \in 0..Limits[l].burst
    /\ \A p \in Pools : pool[p].active \in 0..GlobalLimit(p)

\* Dropping the buckets of a full map never lets a key have more than its rate: a
\* bucket that comes back full is one that would have been full had it been kept.
DroppingIsHarmless ==
    \A l \in Limiters : \A k \in KeysOf(l) :
        LET b == IF k \in DOMAIN buckets[l] THEN Refilled(l, buckets[l][k]) ELSE Full(l)
        IN  \* A key that is not in the map would be given a full bucket only when the
            \* map has room for it.
            HasRoom(l, k) => b.tokens <= Refilled(l, ideal[l][k]).tokens

\* The counters of a pool are the requests that hold one of its slots, so that no
\* path through the middlewares keeps or gives back a slot twice.
SlotsMatchRequests ==
    \A p \in Pools :
        LET holders == {r \in Requests : request[r] # Idle /\ Holds(r, p)} IN
        /\ pool[p].active = Cardinality(holders)
        /\ \A k \in DOMAIN pool[p].by :
             pool[p].by[k] = Cardinality({r \in holders : PoolKey(p, r) = k})
=============================================================================
