----------------------------- MODULE JWKSCache -----------------------------
(***************************************************************************)
(* The signing keys of an external issuer, as jwksKey caches them          *)
(* (internal/auth/external_jwt.go).  Requests look a key up under a mutex; *)
(* those that find neither the key nor a reason not to ask share one fetch *)
(* of the issuer's key set, and look again when it returns.  The issuer    *)
(* publishes and withdraws keys meanwhile, and a fetch may fail.           *)
(*                                                                         *)
(* Time passes while a fetch is out.  The steps of a request around its    *)
(* fetch take none: they wait for the mutex only.                          *)
(***************************************************************************)
EXTENDS Naturals, FiniteSets

CONSTANTS
    Requests,
    Kids,
    CacheTTL,       \* jwksCacheTTL
    Cooldown,       \* jwksRefreshCooldown
    NegativeTTL,    \* jwksNegativeCacheTTL
    FetchTime,      \* the timeout of fetchJWKS
    MaxMisses,      \* maxJWKSNegativeMisses
    MaxTime         \* bounds the behaviours

JWKSAssumption ==
    /\ 0 \notin Kids
    /\ {CacheTTL, Cooldown, NegativeTTL, FetchTime, MaxMisses, MaxTime} \subseteq Nat
    /\ Cooldown < CacheTTL

VARIABLES
    now,
    published,      \* the keys of the issuer's key set
    changed,        \* when each key was last published or withdrawn
    failed,         \* when a fetch last failed
    cache,          \* the entry of the issuer's URL
    flight,         \* the fetch that is out
    request,        \* where each request is, and the key it asks for
    verdict         \* what a request was told in the last step, if one was told anything

vars == <<now, published, changed, failed, cache, flight, request, verdict>>

Nothing == [kid |-> 0, told |-> "nothing"]
Idle == [at |-> "idle", kid |-> 0]

\* No key, no miss, and neither instant set: the zero entry of the map.
Empty == [keys |-> {}, misses |-> [k \in Kids |-> 0], expiresAt |-> 0, refreshAfter |-> 0]

Grounded == [out |-> FALSE, sampled |-> FALSE, keys |-> {}, began |-> 0]

-----------------------------------------------------------------------------
(* The entry.  A miss is kept until an instant; a passed one is no miss.   *)

pruneJWKSNegativeMisses(misses) == [k \in Kids |-> IF now < misses[k] THEN misses[k] ELSE 0]

Missed(entry) == {k \in Kids : entry.misses[k] # 0}

recordJWKSNegativeMiss(entry, kid) ==
    LET pruned == [entry EXCEPT !.misses = pruneJWKSNegativeMisses(@)] IN
    IF kid \notin Missed(pruned) /\ Cardinality(Missed(pruned)) >= MaxMisses
      THEN pruned
      ELSE [pruned EXCEPT !.misses[kid] = now + NegativeTTL]

Cached(kid) == now < cache.expiresAt /\ kid \in cache.keys

Cooling == now < cache.refreshAfter

Answer(r, asked, told) ==
    /\ request' = [request EXCEPT ![r] = Idle]
    /\ verdict' = [kid |-> asked, told |-> told]

Goto(r, at) ==
    /\ request' = [request EXCEPT ![r].at = at]
    /\ verdict' = Nothing

-----------------------------------------------------------------------------
(* A request.                                                              *)

\* The first look, under the mutex.
jwksKey(r, kid) ==
    LET pruned == [cache EXCEPT !.misses = pruneJWKSNegativeMisses(@)] IN
    /\ request[r].at = "idle"
    /\ \/ /\ Cached(kid)
          /\ cache' = pruned
          /\ Answer(r, kid, "key")
       \/ /\ ~Cached(kid) /\ kid \in Missed(pruned)
          /\ cache' = pruned
          /\ Answer(r, kid, "unknown")
       \/ /\ ~Cached(kid) /\ kid \notin Missed(pruned) /\ Cooling
          /\ cache' = recordJWKSNegativeMiss(cache, kid)
          /\ Answer(r, kid, "unknown")
       \/ /\ ~Cached(kid) /\ kid \notin Missed(pruned) /\ ~Cooling
          /\ cache' = pruned
          /\ request' = [request EXCEPT ![r] = [at |-> "refresh", kid |-> kid]]
          /\ verdict' = Nothing
    /\ UNCHANGED <<now, published, changed, failed, flight>>

\* A fetch that does not check the cooldown again.
BugRefresh(r) ==
    /\ request[r].at = "refresh"
    /\ IF flight.out
         THEN /\ Goto(r, "waiting")
              /\ UNCHANGED flight
         ELSE /\ flight' = [Grounded EXCEPT !.out = TRUE, !.began = now]
              /\ Goto(r, "waiting")
    /\ UNCHANGED <<now, published, changed, failed, cache>>

\* It joins the fetch that is out, or begins one unless another has just ended.
Refresh(r) ==
    /\ request[r].at = "refresh"
    /\ \/ /\ flight.out
          /\ Goto(r, "waiting")
          /\ UNCHANGED flight
       \/ /\ ~flight.out /\ Cooling
          /\ Goto(r, "again")
          /\ UNCHANGED flight
       \/ /\ ~flight.out /\ ~Cooling
          /\ flight' = [Grounded EXCEPT !.out = TRUE, !.began = now]
          /\ Goto(r, "waiting")
    /\ UNCHANGED <<now, published, changed, failed, cache>>

\* The issuer answers with the keys of that instant.
Sample ==
    /\ flight.out /\ ~flight.sampled
    /\ flight' = [flight EXCEPT !.sampled = TRUE, !.keys = published]
    /\ verdict' = Nothing
    /\ UNCHANGED <<now, published, changed, failed, cache, request>>

Waiting == {r \in Requests : request[r].at = "waiting"}

Fetched(entry) ==
    [keys |-> flight.keys,
     misses |-> [k \in Kids |-> IF k \in flight.keys THEN 0 ELSE pruneJWKSNegativeMisses(entry.misses)[k]],
     expiresAt |-> now + CacheTTL,
     refreshAfter |-> now + Cooldown]

\* The keys replace the cached ones, and every request that waited looks again.
fetchJWKS ==
    /\ flight.out /\ flight.sampled /\ flight.keys # {}
    /\ cache' = Fetched(cache)
    /\ flight' = Grounded
    /\ request' = [r \in Requests |-> IF r \in Waiting THEN [request[r] EXCEPT !.at = "again"] ELSE request[r]]
    /\ verdict' = Nothing
    /\ UNCHANGED <<now, published, changed, failed>>

\* The fetch times out, is canceled with the request that began it, or brings no
\* usable key set.  The cached keys stay, and every request that waited fails.
FetchFails ==
    /\ flight.out
    /\ cache' = [cache EXCEPT !.misses = pruneJWKSNegativeMisses(@), !.refreshAfter = now + Cooldown]
    /\ flight' = Grounded
    /\ failed' = now
    /\ request' = [r \in Requests |-> IF r \in Waiting THEN Idle ELSE request[r]]
    /\ verdict' = Nothing
    /\ UNCHANGED <<now, published, changed>>

\* The second look.
LookAgain(r) ==
    /\ request[r].at = "again"
    /\ IF Cached(request[r].kid)
         THEN /\ Answer(r, request[r].kid, "key")
              /\ UNCHANGED cache
         ELSE /\ Answer(r, request[r].kid, "unknown")
              /\ cache' = recordJWKSNegativeMiss(cache, request[r].kid)
    /\ UNCHANGED <<now, published, changed, failed, flight>>

-----------------------------------------------------------------------------
(* The issuer and the clock.                                               *)

Publish(kid) ==
    /\ kid \notin published
    /\ published' = published \cup {kid}
    /\ changed' = [changed EXCEPT ![kid] = now]
    /\ verdict' = Nothing
    /\ UNCHANGED <<now, failed, cache, flight, request>>

Withdraw(kid) ==
    /\ kid \in published
    /\ published' = published \ {kid}
    /\ changed' = [changed EXCEPT ![kid] = now]
    /\ verdict' = Nothing
    /\ UNCHANGED <<now, failed, cache, flight, request>>

Tick ==
    /\ now < MaxTime
    /\ \A r \in Requests : request[r].at \in {"idle", "waiting"}
    /\ flight.out => now < flight.began + FetchTime
    /\ now' = now + 1
    /\ verdict' = Nothing
    /\ UNCHANGED <<published, changed, failed, cache, flight, request>>

Init ==
    /\ now = 1
    /\ published \in SUBSET Kids
    /\ changed = [k \in Kids |-> 1]
    /\ failed = 0
    /\ cache = Empty /\ flight = Grounded
    /\ request = [r \in Requests |-> Idle] /\ verdict = Nothing

Next ==
    \/ \E r \in Requests, kid \in Kids : jwksKey(r, kid)
    \/ \E r \in Requests : Refresh(r) \/ LookAgain(r)
    \/ Sample \/ fetchJWKS \/ FetchFails
    \/ \E kid \in Kids : Publish(kid) \/ Withdraw(kid)
    \/ Tick

Spec == Init /\ [][Next]_vars

-----------------------------------------------------------------------------
(* Properties.                                                             *)

\* Times, keys and waiting requests are of their types, and no more misses are
\* remembered than maxJWKSNegativeMisses allows.
TypeOK ==
    /\ now \in 1..MaxTime /\ failed \in 0..MaxTime
    /\ published \subseteq Kids /\ changed \in [Kids -> 1..MaxTime]
    /\ cache.keys \subseteq Kids /\ Cardinality(Missed(cache)) <= MaxMisses
    /\ \A r \in Requests : request[r].at \in {"idle", "refresh", "waiting", "again"}

\* Of every step: the issuer is not asked again until the cooldown after the last answer, good or
\* bad, has passed, whatever key names the requests ask for.
FetchesAreSpaced == flight'.out /\ ~flight.out => now >= cache.refreshAfter

\* A key is accepted for at most the lifetime of the cache, and one fetch, after the
\* issuer has withdrawn it.
WithdrawnKeysExpire ==
    verdict.told = "key" =>
        verdict.kid \in published \/ now - changed[verdict.kid] < CacheTTL + FetchTime

\* A key that the issuer publishes is refused as unknown for at most one fetch, one
\* cooldown and one remembered miss, unless fetches have failed since: misses that are
\* recorded while the cooldown lasts do not renew each other.
PublishedKeysAreFound ==
    verdict.told = "unknown" =>
        \/ verdict.kid \notin published \/ failed >= changed[verdict.kid]
        \/ now - changed[verdict.kid] < FetchTime + Cooldown + NegativeTTL
=============================================================================
