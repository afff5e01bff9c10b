---------------------------- MODULE Identities ----------------------------
(***************************************************************************)
(* Users, workspaces, memberships, login sessions and API keys             *)
(* (internal/store/identity.go, identity_workspaces.go, api_keys.go).      *)
(*                                                                         *)
(* Every mutation is one MySQL transaction: it locks the workspace row,    *)
(* the user row or both, reads the counts its decision needs and writes.   *)
(* API replicas run these transactions concurrently, so a transaction is   *)
(* modelled in the steps in which another one can interleave: each lock,   *)
(* the read, and the write with its commit.  A transaction may also stop   *)
(* at any step (a lost connection, a canceled request) and is rolled back. *)
(*                                                                         *)
(* The name locks of a login are hashes of the subject and of the email,   *)
(* taken in ascending order: subjects and emails are numbers, and a hash   *)
(* is its number.                                                          *)
(***************************************************************************)
EXTENDS Naturals, FiniteSets, FiniteSetsExt, TLC

CONSTANTS
    Procs,           \* requests in flight, over all replicas
    Operations,      \* bound: the kinds of request an instance explores
    MaxUsers,        \* bound: user rows that can be created
    MaxWorkspaces,   \* bound: workspace rows that can be created
    Emails,          \* email addresses (numbers)
    Subjects,        \* Google subjects (numbers, disjoint from Emails)
    Roles,           \* workspace roles, "admin" among them
    MaxAccess,       \* MaxWorkspaceAccessPerUser
    MaxMembers,      \* MaxWorkspaceMembers
    MaxSessions,     \* MaxAuthSessionsPerUser
    MaxKeys,         \* MaxAPIKeysPerWorkspace
    MaxAttempts      \* attempts of EnsureGoogleUser (16 in the code)

IdentitiesAssumption ==
    /\ "admin" \in Roles /\ Emails \cap Subjects = {} /\ 0 \notin Emails \cup Subjects
    /\ {MaxUsers, MaxWorkspaces, MaxAccess, MaxMembers, MaxSessions, MaxKeys, MaxAttempts} \subseteq Nat \ {0}

None == "none"
Free == "free"
NoUser == [email |-> 0, subject |-> 0]
UserIDs == 1..MaxUsers
WorkspaceIDs == 1..MaxWorkspaces

VARIABLES
    users,      \* [UserIDs -> user row, or NoUser]; 0 stands for a NULL column
    roles,      \* [WorkspaceIDs -> [UserIDs -> role, or None]]: workspace_members
    made,       \* the workspaces that exist
    sessions,   \* [UserIDs -> [live, expired]]: counts of auth_sessions rows
    keys,       \* [WorkspaceIDs -> [UserIDs -> count]]: api_keys by creator
    wlock,      \* [WorkspaceIDs -> holder of the row lock, or Free]
    ulock,      \* [UserIDs -> holder of the row lock, or Free]
    nlock,      \* [Emails \cup Subjects -> holder of the name lock, or Free]
    tx          \* [Procs -> the transaction a request is in, or Idle]

vars == <<users, roles, made, sessions, keys, wlock, ulock, nlock, tx>>

Idle == [op |-> "idle", at |-> "idle", w |-> 0, u |-> 0, email |-> 0, subject |-> 0,
         role |-> None, made |-> FALSE, attempt |-> 0, seen |-> <<>>]

----------------------------------------------------------------------------
(* The queries the transactions are made of.                               *)

CountWorkspaceAdmins(w) == Cardinality({u \in UserIDs : roles[w][u] = "admin"})

CountWorkspaceMembers(w) == Cardinality({u \in UserIDs : roles[w][u] # None})

AccessOf(u) == {w \in made : roles[w][u] # None}

CountWorkspaceAccessByUser(u) == Cardinality(AccessOf(u))

GetDefaultWorkspaceByUserID(u) == IF AccessOf(u) = {} THEN 0 ELSE Min(AccessOf(u))

CountAuthSessionsForUser(u) == sessions[u].live + sessions[u].expired

CountAPIKeysByWorkspace(w) == FoldSet(LAMBDA u, n : n + keys[w][u], 0, UserIDs)

LockUserByGoogleSubject(s) == {u \in UserIDs : users[u] # NoUser /\ users[u].subject = s}

LockUserByEmail(e) == {u \in UserIDs : users[u] # NoUser /\ users[u].email = e}

\* The row a login works on: by subject, else by email, else none.
UserOfProfile(s, e) ==
    IF LockUserByGoogleSubject(s) # {} THEN LockUserByGoogleSubject(s) ELSE LockUserByEmail(e)

FreeUserIDs == {u \in UserIDs : users[u] = NoUser}

NewUserID == Min(FreeUserIDs)

\* INSERT of a user row, and the upsert that reserves an invited address.
CreateUser(u, s, e) == users' = [users EXCEPT ![u] = [email |-> e, subject |-> s]]

EnsureUserByEmail(e) == LockUserByEmail(e)

\* The unique keys of users: a second row with the email or the subject.
Duplicate(u, s, e) ==
    \E v \in UserIDs \ {u} : users[v] # NoUser /\ (users[v].email = e \/ (s # 0 /\ users[v].subject = s))

UpdateUserAuthProfile(u, s, e) == [users EXCEPT ![u] = [email |-> e, subject |-> s]]

SetRole(w, u, r) == roles' = [roles EXCEPT ![w][u] = r]

----------------------------------------------------------------------------
(* Locks.                                                                   *)

\* Everything the transaction of p holds is given back, whatever its outcome.
Release(p) ==
    /\ wlock' = [w \in WorkspaceIDs |-> IF wlock[w] = p THEN Free ELSE wlock[w]]
    /\ ulock' = [u \in UserIDs |-> IF ulock[u] = p THEN Free ELSE ulock[u]]
    /\ nlock' = [n \in Emails \cup Subjects |-> IF nlock[n] = p THEN Free ELSE nlock[n]]

\* identityConvergenceLockNames: ascending, so that no two logins wait for each other.
NextName(p) ==
    LET held == {n \in {tx[p].subject, tx[p].email} : nlock[n] = p}
    IN  {tx[p].subject, tx[p].email} \ held

NextLock(p) == Min(NextName(p))

LockNames(p) ==
    /\ tx[p].at = "names"
    /\ nlock[NextLock(p)] = Free
    /\ nlock' = [nlock EXCEPT ![NextLock(p)] = p]
    /\ tx' = [tx EXCEPT ![p].at = IF Cardinality(NextName(p)) = 1 THEN "user" ELSE "names"]
    /\ UNCHANGED <<users, roles, made, sessions, keys, wlock, ulock>>

BugLockWorkspace(p) ==
    /\ tx[p].at = "workspace"
    /\ tx' = [tx EXCEPT ![p].at = IF tx[p].op = "add" THEN "user" ELSE "read"]
    /\ UNCHANGED <<users, roles, made, sessions, keys, wlock, ulock, nlock>>

\* LockWorkspace: the FOR UPDATE read that serializes every membership change.
LockWorkspace(p) ==
    /\ tx[p].at = "workspace"
    /\ wlock[tx[p].w] = Free
    /\ wlock' = [wlock EXCEPT ![tx[p].w] = p]
    /\ tx' = [tx EXCEPT ![p].at = IF tx[p].op = "add" THEN "user" ELSE "read"]
    /\ UNCHANGED <<users, roles, made, sessions, keys, ulock, nlock>>

\* The rows the user step of p may lock; a login and an invitation find theirs by key.
Candidates(p) ==
    CASE tx[p].op = "login" -> UserOfProfile(tx[p].subject, tx[p].email)
      [] tx[p].op = "add" -> EnsureUserByEmail(tx[p].email)
      [] OTHER -> {tx[p].u}

BugLockUser(p) ==
    /\ tx[p].at = "user"
    /\ \E u \in Candidates(p) : tx' = [tx EXCEPT ![p].u = u, ![p].at = "read"]
    /\ UNCHANGED <<users, roles, made, sessions, keys, wlock, ulock, nlock>>

\* LockUserForIdentityAdmission, and the locking reads by subject and by email.
LockUser(p) ==
    /\ tx[p].at = "user"
    /\ \E u \in Candidates(p) :
        /\ ulock[u] = Free
        /\ ulock' = [ulock EXCEPT ![u] = p]
        /\ tx' = [tx EXCEPT ![p].u = u, ![p].at = "read"]
    /\ UNCHANGED <<users, roles, made, sessions, keys, wlock, nlock>>

\* No such row: a login creates it, an invitation reserves it without a subject.
\* The row is locked by its creator until the transaction ends.
InsertUser(p) ==
    /\ tx[p].at = "user" /\ Candidates(p) = {}
    /\ FreeUserIDs # {}
    /\ CreateUser(NewUserID, tx[p].subject, tx[p].email)
    /\ ulock' = [ulock EXCEPT ![NewUserID] = p]
    /\ tx' = [tx EXCEPT ![p].u = NewUserID, ![p].made = TRUE, ![p].at = "read"]
    /\ UNCHANGED <<roles, made, sessions, keys, wlock, nlock>>

----------------------------------------------------------------------------
(* The read: the first plain SELECT of the transaction fixes what its later *)
(* plain reads see, so all the counts are of this moment.                   *)

Snapshot(p) ==
    LET w == tx[p].w u == tx[p].u op == tx[p].op
    IN  [admins  |-> IF op \in {"role", "remove"} THEN CountWorkspaceAdmins(w) ELSE 0,
         members |-> IF op = "add" THEN CountWorkspaceMembers(w) ELSE 0,
         keys    |-> IF op = "key" THEN CountAPIKeysByWorkspace(w) ELSE 0,
         access  |-> IF op \in {"add", "create"} THEN CountWorkspaceAccessByUser(u) ELSE 0,
         default |-> IF op = "login" THEN GetDefaultWorkspaceByUserID(u) ELSE 0]

Read(p) ==
    /\ tx[p].at = "read"
    /\ tx' = [tx EXCEPT ![p].seen = Snapshot(p), ![p].at = "write"]
    /\ UNCHANGED <<users, roles, made, sessions, keys, wlock, ulock, nlock>>

----------------------------------------------------------------------------
(* The writes.                                                              *)

End(p) == Release(p) /\ tx' = [tx EXCEPT ![p] = Idle]

\* The transaction of p ends without a write; a row it inserted is gone.
Rollback(p) ==
    /\ users' = IF tx[p].made THEN [users EXCEPT ![tx[p].u] = NoUser] ELSE users
    /\ UNCHANGED <<roles, made, sessions, keys>>

Abort(p) == tx[p].at \notin {"idle"} /\ Rollback(p) /\ End(p)

Writing(p, op) == tx[p].op = op /\ tx[p].at = "write"

\* ensureGoogleIdentity: the profile is written over the row, and a user without
\* any workspace gets one.
CompleteLogin(p) ==
    LET u == tx[p].u w == Min(WorkspaceIDs \ made)
    IN  /\ Writing(p, "login")
        /\ ~Duplicate(u, tx[p].subject, tx[p].email)
        /\ users' = UpdateUserAuthProfile(u, tx[p].subject, tx[p].email)
        /\ IF tx[p].seen.default # 0
           THEN UNCHANGED <<made, roles>>
           ELSE /\ WorkspaceIDs \ made # {}
                /\ made' = made \cup {w}
                /\ SetRole(w, u, "admin")
        /\ End(p)
        /\ UNCHANGED <<sessions, keys>>

\* A duplicate key rolls the attempt back; EnsureGoogleUser starts over, a bounded
\* number of times.
RetryLogin(p) ==
    /\ Writing(p, "login")
    /\ Duplicate(tx[p].u, tx[p].subject, tx[p].email)
    /\ Rollback(p) /\ Release(p)
    /\ tx' = [tx EXCEPT ![p] =
                IF tx[p].attempt + 1 < MaxAttempts
                THEN [Idle EXCEPT !.op = "login", !.at = "names", !.email = tx[p].email,
                                  !.subject = tx[p].subject, !.attempt = tx[p].attempt + 1]
                ELSE Idle]

\* CreateSession: expired rows go, then the oldest until there is room.
Admitted(u) ==
    [live |-> IF sessions[u].live >= MaxSessions THEN MaxSessions ELSE sessions[u].live + 1,
     expired |-> 0]

CreateSession(p) ==
    /\ Writing(p, "session")
    /\ sessions' = [sessions EXCEPT ![tx[p].u] = Admitted(tx[p].u)]
    /\ End(p)
    /\ UNCHANGED <<users, roles, made, keys>>

CreateWorkspaceForUser(p) ==
    LET w == Min(WorkspaceIDs \ made)
    IN  /\ Writing(p, "create")
        /\ tx[p].seen.access < MaxAccess
        /\ WorkspaceIDs \ made # {}
        /\ made' = made \cup {w}
        /\ SetRole(w, tx[p].u, "admin")
        /\ End(p)
        /\ UNCHANGED <<users, sessions, keys>>

AddWorkspaceMemberByEmail(p) ==
    /\ Writing(p, "add")
    /\ tx[p].seen.members < MaxMembers /\ tx[p].seen.access < MaxAccess
    /\ roles[tx[p].w][tx[p].u] = None      \* else a duplicate key
    /\ SetRole(tx[p].w, tx[p].u, tx[p].role)
    /\ End(p)
    /\ UNCHANGED <<users, made, sessions, keys>>

\* An administrator may step down or leave only while another one stays.
KeepsAdmin(p) == roles[tx[p].w][tx[p].u] = "admin" /\ tx[p].role # "admin" => tx[p].seen.admins > 1

UpdateWorkspaceMemberRole(p) ==
    /\ Writing(p, "role")
    /\ roles[tx[p].w][tx[p].u] # None
    /\ KeepsAdmin(p)
    /\ SetRole(tx[p].w, tx[p].u, tx[p].role)
    /\ End(p)
    /\ UNCHANGED <<users, made, sessions, keys>>

RemoveWorkspaceMember(p) ==
    /\ Writing(p, "remove")
    /\ roles[tx[p].w][tx[p].u] # None
    /\ KeepsAdmin(p)
    /\ SetRole(tx[p].w, tx[p].u, None)
    /\ End(p)
    /\ UNCHANGED <<users, made, sessions, keys>>

\* APIKeyStore.Create: the creator must be a member when the key is written.
CreateAPIKey(p) ==
    /\ Writing(p, "key")
    /\ roles[tx[p].w][tx[p].u] # None
    /\ tx[p].seen.keys < MaxKeys
    /\ keys' = [keys EXCEPT ![tx[p].w][tx[p].u] = @ + 1]
    /\ End(p)
    /\ UNCHANGED <<users, roles, made, sessions>>

----------------------------------------------------------------------------
(* Requests, and the statements that need no transaction.                   *)

Begin(p, op, at, w, u, e, s, r) ==
    /\ op \in Operations /\ tx[p] = Idle
    /\ tx' = [tx EXCEPT ![p] = [Idle EXCEPT !.op = op, !.at = at, !.w = w, !.u = u,
                                            !.email = e, !.subject = s, !.role = r]]
    /\ UNCHANGED <<users, roles, made, sessions, keys, wlock, ulock, nlock>>

Committed(u) == users[u] # NoUser /\ \A q \in Procs : ~(tx[q].made /\ tx[q].u = u)

BeginLogin(p) == \E e \in Emails, s \in Subjects : Begin(p, "login", "names", 0, 0, e, s, None)

BeginForUser(p) ==
    \E u \in UserIDs, op \in {"session", "create"} :
        Committed(u) /\ Begin(p, op, "user", 0, u, 0, 0, None)

BeginAdd(p) ==
    \E w \in made, e \in Emails, r \in Roles : Begin(p, "add", "workspace", w, 0, e, 0, r)

BeginForMember(p) ==
    \E w \in made, u \in UserIDs : Committed(u) /\
        \/ \E r \in Roles : Begin(p, "role", "workspace", w, u, 0, 0, r)
        \/ Begin(p, "remove", "workspace", w, u, 0, 0, None)
        \/ Begin(p, "key", "workspace", w, u, 0, 0, None)

DeleteAPIKey ==
    /\ \E w \in made, u \in UserIDs : keys[w][u] > 0 /\ keys' = [keys EXCEPT ![w][u] = @ - 1]
    /\ UNCHANGED <<users, roles, made, sessions, wlock, ulock, nlock, tx>>

\* DeleteSession, and the hourly RetainExpiredSessions.
DeleteSession ==
    /\ \E u \in UserIDs :
        \/ sessions[u].live > 0 /\ sessions' = [sessions EXCEPT ![u].live = @ - 1]
        \/ sessions[u].expired > 0 /\ sessions' = [sessions EXCEPT ![u].expired = 0]
    /\ UNCHANGED <<users, roles, made, keys, wlock, ulock, nlock, tx>>

ExpireSession ==
    /\ \E u \in UserIDs : sessions[u].live > 0 /\
        sessions' = [sessions EXCEPT ![u] = [live |-> @.live - 1, expired |-> @.expired + 1]]
    /\ UNCHANGED <<users, roles, made, keys, wlock, ulock, nlock, tx>>

----------------------------------------------------------------------------
\* One signed-in administrator of one workspace.
Init ==
    /\ users = [u \in UserIDs |-> IF u = 1 THEN [email |-> Min(Emails), subject |-> Min(Subjects)] ELSE NoUser]
    /\ roles = [w \in WorkspaceIDs |-> [u \in UserIDs |-> IF w = 1 /\ u = 1 THEN "admin" ELSE None]]
    /\ made = {1}
    /\ sessions = [u \in UserIDs |-> [live |-> 0, expired |-> 0]]
    /\ keys = [w \in WorkspaceIDs |-> [u \in UserIDs |-> 0]]
    /\ wlock = [w \in WorkspaceIDs |-> Free]
    /\ ulock = [u \in UserIDs |-> Free]
    /\ nlock = [n \in Emails \cup Subjects |-> Free]
    /\ tx = [p \in Procs |-> Idle]

Next ==
    \/ \E p \in Procs :
        \/ BeginLogin(p) \/ BeginForUser(p) \/ BeginAdd(p) \/ BeginForMember(p)
        \/ LockNames(p) \/ LockWorkspace(p) \/ LockUser(p) \/ InsertUser(p) \/ Read(p)
        \/ CompleteLogin(p) \/ RetryLogin(p) \/ CreateSession(p) \/ CreateWorkspaceForUser(p)
        \/ AddWorkspaceMemberByEmail(p) \/ UpdateWorkspaceMemberRole(p)
        \/ RemoveWorkspaceMember(p) \/ CreateAPIKey(p) \/ Abort(p)
    \/ DeleteAPIKey \/ DeleteSession \/ ExpireSession

Spec == Init /\ [][Next]_vars

----------------------------------------------------------------------------
\* The rows and the locks have the shape the schema gives them.
TypeOK ==
    /\ users \in [UserIDs -> [email : Emails, subject : Subjects \cup {0}] \cup {NoUser}]
    /\ roles \in [WorkspaceIDs -> [UserIDs -> Roles \cup {None}]]
    /\ made \subseteq WorkspaceIDs
    /\ \A u \in UserIDs : sessions[u] \in [live : Nat, expired : Nat]
    /\ wlock \in [WorkspaceIDs -> Procs \cup {Free}]
    /\ ulock \in [UserIDs -> Procs \cup {Free}]
    /\ nlock \in [Emails \cup Subjects -> Procs \cup {Free}]

\* "A workspace must retain at least one administrator", whatever demotions and
\* removals run at the same time.
AdminsRemain == \A w \in made : CountWorkspaceAdmins(w) >= 1

\* The admission limits of the catalogs hold under concurrent requests: members of
\* a workspace, workspaces of a user, sessions of a user and keys of a workspace.
CatalogsBounded ==
    /\ \A w \in made : CountWorkspaceMembers(w) <= MaxMembers /\ CountAPIKeysByWorkspace(w) <= MaxKeys
    /\ \A u \in UserIDs : CountWorkspaceAccessByUser(u) <= MaxAccess /\ CountAuthSessionsForUser(u) <= MaxSessions

\* An email or a subject never names two users, and a membership belongs to a user.
OneIdentity ==
    /\ \A u \in UserIDs : users[u] # NoUser => ~Duplicate(u, users[u].subject, users[u].email)
    /\ \A w \in WorkspaceIDs, u \in UserIDs : roles[w][u] # None => users[u] # NoUser /\ w \in made

\* The request that holds the lock p waits for; Free when p need not wait.
WaitsFor(p) ==
    CASE tx[p].at = "names" -> nlock[NextLock(p)]
      [] tx[p].at = "workspace" -> wlock[tx[p].w]
      [] tx[p].at = "user" /\ Candidates(p) # {} -> ulock[CHOOSE u \in Candidates(p) : TRUE]
      [] OTHER -> Free

\* No two requests hold what the other one waits for: name locks are outside the
\* database's deadlock detection and would block both logins until they time out.
NoWaitCycle == \A p, q \in Procs : p # q => ~(WaitsFor(p) = q /\ WaitsFor(q) = p)

\* Of every step: a login opens a workspace only for a user who has none at that moment.
DefaultOnlyWhenNone ==
    \A p \in Procs : Writing(p, "login") /\ tx'[p] = Idle /\ made' # made
        => CountWorkspaceAccessByUser(tx[p].u) = 0
============================================================================
