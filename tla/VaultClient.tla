---------------------------- MODULE VaultClient ----------------------------
(***************************************************************************)
(* The Vault client every process shares.  Calls take a login token from a *)
(* cache guarded by a mutex, renewed or replaced shortly before it ends;   *)
(* the client learns a lease's length when the answer arrives, so its idea *)
(* of the end is late by the time the answer took.  Reads are retried with *)
(* a growing delay; writes and deletes are not.                            *)
(*                                                                         *)
(* Vault and the Google credential source are external: they answer, or    *)
(* fail, within the HTTP client's timeout.  A static token, which skips    *)
(* all of this, is left out.                                               *)
(***************************************************************************)
EXTENDS Integers, Sequences, FiniteSets, FiniteSetsExt

CONSTANTS Callers,
          Timeout,       \* of one HTTP request
          Margin,        \* a token this close to its end is not handed out
          Lease,         \* length of a lease Vault grants
          MaxTTL,        \* no renewal reaches past this age
          MaxAttempts,   \* attempts of one read
          InitialDelay, MaxDelay,
          MaxTokens,     \* bound on logins
          MaxTime        \* bound on the clock

VaultClientAssumption ==
  /\ {Timeout, Margin, Lease, MaxTTL, MaxAttempts, InitialDelay, MaxDelay, MaxTokens} \subseteq Nat \ {0}
  /\ MaxTime \in Nat
  /\ Margin >= 2 * Timeout
  /\ Lease > 2 * Timeout
  /\ Lease <= MaxTTL

VARIABLES now,
          issued,   \* Vault's tokens: sequence of [ends, limit, renewable]
          cached,   \* [token, expires]; token 0 is no token
          mu,       \* the caller holding the mutex, or Nobody
          admin,    \* the caller whose admin token source is installed, or Nobody
          call      \* caller -> [pc, op, attempt, since, token, source, lease]

vars == <<now, issued, cached, mu, admin, call>>

Nobody == "nobody"
Idle == [pc |-> "idle", op |-> "none", attempt |-> 0, since |-> 0, token |-> 0, source |-> Nobody, lease |-> 0]

Alive(token) == now < issued[token].ends
OnTheWire == {c \in Callers : call[c].pc \in {"renew", "renewed", "login", "granted", "request"}}

Begin(c, op) ==
  /\ call[c].pc = "idle"
  /\ call' = [call EXCEPT ![c] = [Idle EXCEPT !.pc = "auth", !.op = op, !.attempt = 1]]
  /\ UNCHANGED <<now, issued, cached, mu, admin>>

-----------------------------------------------------------------------------
(* authToken: the mutex is held from the look at the cache to its update *)

BugFresh(expires) == now < expires

Fresh(expires) == now + Margin < expires

BugMayAuth(c) == TRUE

MayAuth(c) == mu = Nobody

authToken(c) ==
  /\ call[c].pc = "auth"
  /\ MayAuth(c)
  /\ \/ /\ cached.token # 0
        /\ Fresh(cached.expires)
        /\ call' = [call EXCEPT ![c].pc = "admin", ![c].token = cached.token]
        /\ UNCHANGED mu
     \/ /\ cached.token # 0
        /\ ~Fresh(cached.expires)
        /\ issued[cached.token].renewable
        /\ mu' = c
        /\ call' = [call EXCEPT ![c].pc = "renew", ![c].token = cached.token, ![c].since = now]
     \/ /\ \/ cached.token = 0
           \/ cached.token # 0 /\ ~Fresh(cached.expires) /\ ~issued[cached.token].renewable
        /\ mu' = c
        /\ call' = [call EXCEPT ![c].pc = "login", ![c].since = now]
  /\ UNCHANGED <<now, issued, cached, admin>>

Install(c, token, expires) ==
  /\ cached' = [token |-> token, expires |-> expires]
  /\ mu' = Nobody
  /\ call' = [call EXCEPT ![c].pc = "admin", ![c].token = token]

\* Vault extends a living token, never past its limit.
VaultRenews(c) ==
  /\ call[c].pc = "renew"
  /\ Alive(call[c].token)
  /\ LET t == call[c].token
         ends == Min({now + Lease, issued[t].limit})
     IN  /\ issued' = [issued EXCEPT ![t].ends = ends]
         /\ call' = [call EXCEPT ![c].pc = "renewed", ![c].lease = ends - now]
  /\ UNCHANGED <<now, cached, mu, admin>>

renewSelf(c) ==
  /\ call[c].pc = "renewed"
  /\ Fresh(now + call[c].lease)
  /\ Install(c, call[c].token, now + call[c].lease)
  /\ UNCHANGED <<now, issued, admin>>

\* Refused, lost, or granted for too short a time: log in instead.
RenewalFails(c) ==
  /\ \/ call[c].pc = "renew"
     \/ call[c].pc = "renewed" /\ ~Fresh(now + call[c].lease)
  /\ call' = [call EXCEPT ![c].pc = "login", ![c].since = now]
  /\ UNCHANGED <<now, issued, cached, mu, admin>>

VaultGrants(c) ==
  /\ call[c].pc = "login"
  /\ Len(issued) < MaxTokens
  /\ \E renewable \in BOOLEAN :
       issued' = Append(issued, [ends |-> now + Lease, limit |-> now + MaxTTL, renewable |-> renewable])
  /\ call' = [call EXCEPT ![c].pc = "granted", ![c].token = Len(issued'), ![c].lease = Lease]
  /\ UNCHANGED <<now, cached, mu, admin>>

loginWithGCP(c) ==
  /\ call[c].pc = "granted"
  /\ Install(c, call[c].token, now + call[c].lease)
  /\ UNCHANGED <<now, issued, admin>>

-----------------------------------------------------------------------------
(* Answers and retries *)

isRetryable(status) == status \in {"busy", "unavailable"}

\* 250 ms, 500 ms, 1 s, 2 s
Delay(attempt) == Min({InitialDelay * 2 ^ (attempt - 1), MaxDelay})

\* The attempt ends with this status; a read may be tried again.
retry(c, status) ==
  call' = [call EXCEPT ![c] =
    IF @.op = "read" /\ isRetryable(status) /\ @.attempt < MaxAttempts
    THEN [Idle EXCEPT !.pc = "wait", !.op = "read", !.attempt = call[c].attempt, !.since = now]
    ELSE Idle]

LoginFails(c) ==
  /\ call[c].pc \in {"login", "granted"}
  /\ \E status \in {"refused", "unavailable", "lost"} : retry(c, status)
  /\ mu' = Nobody
  /\ UNCHANGED <<now, issued, cached, admin>>

\* The first caller to find no admin token source installs one; the mutex is
\* free while it looks for credentials.
adminAccessToken(c) ==
  /\ call[c].pc = "admin"
  /\ call' = [call EXCEPT ![c].pc = IF admin = Nobody THEN "credentials" ELSE "request",
                          ![c].source = admin, ![c].since = now]
  /\ UNCHANGED <<now, issued, cached, mu, admin>>

BugInstalled(c) == c

Installed(c) == IF admin = Nobody THEN c ELSE admin

FindDefaultCredentials(c) ==
  /\ call[c].pc = "credentials"
  /\ mu = Nobody
  /\ admin' = IF admin = Nobody THEN c ELSE admin
  /\ call' = [call EXCEPT ![c].pc = "request", ![c].source = Installed(c)]
  /\ UNCHANGED <<now, issued, cached, mu>>

addAdminHeaderFails(c) ==
  /\ call[c].pc \in {"admin", "credentials"}
  /\ retry(c, "lost")
  /\ UNCHANGED <<now, issued, cached, mu, admin>>

VaultAnswers(c) ==
  /\ call[c].pc = "request"
  /\ \E status \in (IF Alive(call[c].token) THEN {"ok", "missing", "busy", "unavailable", "lost"} ELSE {"refused"}) :
       retry(c, status)
  /\ UNCHANGED <<now, issued, cached, mu, admin>>

RetryElapses(c) ==
  /\ call[c].pc = "wait"
  /\ now >= call[c].since + Delay(call[c].attempt)
  /\ call' = [call EXCEPT ![c].pc = "auth", ![c].attempt = @ + 1]
  /\ UNCHANGED <<now, issued, cached, mu, admin>>

Cancel(c) ==
  /\ call[c].pc = "wait"
  /\ call' = [call EXCEPT ![c] = Idle]
  /\ UNCHANGED <<now, issued, cached, mu, admin>>

\* An HTTP request ends within the client's timeout; looking for credentials
\* and handing a token on take no time worth counting.
Tick ==
  /\ now < MaxTime
  /\ \A c \in Callers : call[c].pc \notin {"admin", "credentials"}
  /\ \A c \in OnTheWire : now - call[c].since < Timeout
  /\ now' = now + 1
  /\ UNCHANGED <<issued, cached, mu, admin, call>>

-----------------------------------------------------------------------------
Init ==
  /\ now = 0
  /\ issued = <<>>
  /\ cached = [token |-> 0, expires |-> 0]
  /\ mu = Nobody
  /\ admin = Nobody
  /\ call = [c \in Callers |-> Idle]

Next ==
  \/ \E c \in Callers :
       \/ \E op \in {"read", "write"} : Begin(c, op)
       \/ authToken(c) \/ VaultRenews(c) \/ renewSelf(c) \/ RenewalFails(c)
       \/ VaultGrants(c) \/ loginWithGCP(c) \/ LoginFails(c)
       \/ adminAccessToken(c) \/ FindDefaultCredentials(c) \/ addAdminHeaderFails(c)
       \/ VaultAnswers(c) \/ RetryElapses(c) \/ Cancel(c)
  \/ Tick

Spec == Init /\ [][Next]_vars

-----------------------------------------------------------------------------
\* The clock, the tokens Vault issued, the cached one and the locks are of their types.
TypeOK ==
  /\ now \in 0 .. MaxTime
  /\ Len(issued) <= MaxTokens
  /\ cached.token \in 0 .. Len(issued)
  /\ {mu, admin} \subseteq Callers \cup {Nobody}
  /\ \A c \in Callers : call[c].attempt \in 0 .. MaxAttempts

\* The margin pays for the client's late idea of a lease's end: a token on
\* its way to Vault in a read, write or delete is still valid there when the
\* request's time is over, also when it was cached, renewed or just granted.
TokensOutliveRequests ==
  \A c \in Callers : call[c].pc \in {"admin", "credentials", "request"} => Alive(call[c].token)

\* One caller at a time renews or logs in, whoever waits meanwhile, and all
\* of them send admin tokens of the one source that was installed.
OneLoginAtATime ==
  /\ \A c, d \in {e \in Callers : call[e].pc \in {"renew", "renewed", "login", "granted"}} : c = d
  /\ \A c \in Callers : call[c].pc = "request" => call[c].source = admin
============================================================================
