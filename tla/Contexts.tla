------------------------------ MODULE Contexts ------------------------------
(***************************************************************************)
(* Processing contexts and selection rules (internal/store/contexts.go,    *)
(* internal/app/contexts.go, internal/server/connect_contexts.go).         *)
(*                                                                         *)
(* Replicas seed the system catalog at startup, each step in a transaction *)
(* of its own under one advisory lock.  Requests create, change and delete *)
(* the contexts of a workspace, add rules, resolve, and record work that   *)
(* links a context.  The schema has no foreign keys: a writer of a link    *)
(* holds a share lock on the context until it commits, and a deletion      *)
(* holds the exclusive one while it clears the links.                      *)
(***************************************************************************)
EXTENDS Naturals, FiniteSets, FiniteSetsExt, Sequences, SequencesExt

CONSTANTS
    Replicas,       \* API instances that start up
    Procs,          \* requests in flight
    Operations,     \* the requests: a subset of AllOperations
    Users,          \* users that may be members of the workspace
    Catalog,        \* systemContexts: the names of the built-in catalog, its default first
    Retired,        \* retiredSystemContextNames
    LinkKinds,      \* records with a context link: OCR runs, jobs, batches, provider audits
    Versions,       \* what a context says, as far as it is told apart
    MaxRules,       \* MaxSelectionRulesPerWorkspace
    MaxContexts     \* bound: contexts ever made

AllOperations == {"create", "update", "delete", "rule", "use", "resolve", "remove"}

ContextsAssumption ==
    /\ Operations \subseteq AllOperations
    /\ Catalog # <<>> /\ IsInjective(Catalog) /\ Retired \cap ToSet(Catalog) = {}
    /\ {MaxRules, MaxContexts} \subseteq Nat \ {0}

VARIABLES
    contexts,   \* [ids -> contexts row, or NoContext]
    issued,     \* the last id given to a context
    rules,      \* context_selection_rules, by priority: the context of each
    links,      \* [LinkKinds -> the context a committed record links, or 0]
    members,    \* the users that are members of the workspace
    serving,    \* a replica of this or of an earlier release takes requests
    boot,       \* [Replicas -> how far its startup is]
    catalogLock,\* holder of the advisory lock, or Free
    xlock,      \* [ids -> the transaction with the row's exclusive lock, or Free]
    slock,      \* [ids -> the transactions with a share lock]
    wlock,      \* holder of the workspace row lock, or Free
    mlock,      \* [Users -> holder of the membership row lock, or Free]
    tx,         \* [Procs -> the request's state]
    verdict     \* the answer a resolution has just given, or "none"

rows == <<contexts, issued, rules, links, members>>
locks == <<xlock, slock, wlock, mlock>>
seeding == <<boot, catalogLock, serving>>
vars == <<rows, locks, seeding, tx, verdict>>

Free == "free"
System == "system"
IDs == 1..MaxContexts
NoContext == [scope |-> "none", name |-> "none", default |-> FALSE, version |-> 0, owner |-> "none"]
Idle == [op |-> "idle", at |-> "idle", c |-> 0, u |-> "none", d |-> FALSE, v |-> 0, seen |-> <<>>, free |-> FALSE]

----------------------------------------------------------------------------
(* The queries.                                                             *)

Live == {c \in IDs : contexts[c] # NoContext}

InScope(scope) == {c \in Live : contexts[c].scope = scope}

GetSystemContextByName(name) ==
    LET named == {c \in InScope(System) : contexts[c].name = name}
    IN IF named = {} THEN 0 ELSE CHOOSE c \in named : TRUE

DefaultsOf(scope) == {c \in InScope(scope) : contexts[c].default}

HasDefaultContext == DefaultsOf(System) # {}

\* The workspace's default before the system's; 0 when there is neither.
GetDefaultForWorkspace ==
    LET own == DefaultsOf("workspace")
        found == IF own # {} THEN own ELSE DefaultsOf(System)
    IN IF found = {} THEN 0 ELSE CHOOSE c \in found : TRUE

ClearDefaultContextsForScope(table, scope, except) ==
    [c \in IDs |-> IF table[c].scope = scope /\ c # except THEN [table[c] EXCEPT !.default = FALSE] ELSE table[c]]

UpdateContext(table, c, default, version) ==
    [table EXCEPT ![c].default = default, ![c].version = version]

\* Ids are not used again.
NextID == issued + 1

CreateContext(table, c, scope, name, default, version, owner) ==
    [table EXCEPT ![c] = [scope |-> scope, name |-> name, default |-> default, version |-> version, owner |-> owner]]

CountSelectionRulesForWorkspace == Len(rules)

OfOthers(gone, r) == r \notin gone

DeleteSelectionRulesForContext(gone) == SelectSeq(rules, LAMBDA r : OfOthers(gone, r))

\* The links of OCR runs, jobs, upload batches and provider audits.
ClearContextLinks(gone) == [k \in LinkKinds |-> IF links[k] \in gone THEN 0 ELSE links[k]]

clearContextReferences(gone) ==
    rules' = DeleteSelectionRulesForContext(gone) /\ links' = ClearContextLinks(gone)

Unlocked(c, p) == xlock[c] \in {Free, p} /\ slock[c] \subseteq {p}

----------------------------------------------------------------------------
(* Startup: EnsureSystemContexts runs EnsureSystemContext for each name of  *)
(* the catalog, then ReplaceSystemDefault.                                  *)

Steps == Len(Catalog) + 1

NameAt(step) == IF step <= Len(Catalog) THEN Catalog[step] ELSE Catalog[1]

BugCatalogLock(r) == catalogLock' = catalogLock

\* GET_LOCK waits; a wait of 30 s fails the startup, as Crash does.
withSystemContextCatalogLock(r) == catalogLock = Free /\ catalogLock' = r

\* The transaction begins under the lock, and its first read fixes its snapshot.
SeedRead(r) ==
    /\ boot[r].at = "start" /\ boot[r].step <= Steps
    /\ withSystemContextCatalogLock(r)
    /\ boot' = [boot EXCEPT ![r].at = "write", ![r].seen = GetSystemContextByName(NameAt(boot[r].step)),
                            ![r].has = HasDefaultContext]
    /\ UNCHANGED <<rows, locks, serving, tx, verdict>>

SeedNext(r, at) ==
    /\ boot' = [boot EXCEPT ![r] = [@ EXCEPT !.at = at, !.step = @ + 1, !.seen = 0, !.has = FALSE]]
    /\ catalogLock' = IF catalogLock = r THEN Free ELSE catalogLock

\* A name or a default that a unique key refuses.
Collides(r, default) ==
    \/ GetSystemContextByName(NameAt(boot[r].step)) # 0
    \/ default /\ DefaultsOf(System) # {}

\* An existing row keeps the default flag only if it has it; a new one takes it
\* only where no default exists.
EnsureSystemContext(r) ==
    LET step == boot[r].step
        found == boot[r].seen
        default == step = 1 /\ IF found # 0 THEN contexts[found].default ELSE ~boot[r].has
    IN /\ boot[r].at = "write" /\ step <= Len(Catalog)
       /\ IF found # 0
          THEN /\ Unlocked(found, r)
               /\ contexts' = UpdateContext(contexts, found, default, 1) /\ UNCHANGED issued
               /\ SeedNext(r, "start")
          ELSE /\ NextID \in IDs
               /\ IF Collides(r, default)
                  THEN SeedNext(r, "failed") /\ UNCHANGED <<contexts, issued>>
                  ELSE /\ contexts' = CreateContext(contexts, NextID, System, NameAt(step), default, 1, "none")
                       /\ issued' = NextID
                       /\ SeedNext(r, "start")
       /\ UNCHANGED <<rules, links, members, locks, serving, tx, verdict>>

\* The old default is cleared, the new one promoted and the retired presets deleted
\* with their references, in one transaction.
ReplaceSystemDefault(r) ==
    LET found == boot[r].seen
        id == IF found # 0 THEN found ELSE NextID
        cleared == ClearDefaultContextsForScope(contexts, System, found)
        promoted == IF found # 0 THEN UpdateContext(cleared, id, TRUE, 1)
                    ELSE CreateContext(cleared, id, System, Catalog[1], TRUE, 1, "none")
        gone == {c \in InScope(System) : contexts[c].name \in Retired}
    IN /\ boot[r].at = "write" /\ boot[r].step = Steps /\ id \in IDs
       /\ \A c \in gone \cup DefaultsOf(System) \cup {id} : Unlocked(c, r)
       /\ contexts' = [c \in IDs |-> IF c \in gone THEN NoContext ELSE promoted[c]]
       /\ issued' = IF found # 0 THEN issued ELSE id
       /\ clearContextReferences(gone)
       /\ SeedNext(r, "ready") /\ serving' = TRUE
       /\ UNCHANGED <<members, locks, tx, verdict>>

\* The process dies or its startup fails, and the next one starts over.
Crash(r) ==
    /\ boot[r].at \in {"start", "write"}
    /\ boot' = [boot EXCEPT ![r] = [at |-> "start", step |-> 1, seen |-> 0, has |-> FALSE]]
    /\ catalogLock' = IF catalogLock = r THEN Free ELSE catalogLock
    /\ UNCHANGED <<rows, locks, serving, tx, verdict>>

----------------------------------------------------------------------------
(* Requests.                                                                *)

Release(p) ==
    /\ xlock' = [c \in IDs |-> IF xlock[c] = p THEN Free ELSE xlock[c]]
    /\ slock' = [c \in IDs |-> slock[c] \ {p}]
    /\ wlock' = IF wlock = p THEN Free ELSE wlock
    /\ mlock' = [u \in Users |-> IF mlock[u] = p THEN Free ELSE mlock[u]]

End(p) == Release(p) /\ tx' = [tx EXCEPT ![p] = Idle]

\* Refused, or the connection was lost: the transaction rolls back.
Abort(p) == tx[p] # Idle /\ End(p) /\ UNCHANGED rows

Goto(p, at) == tx' = [tx EXCEPT ![p].at = at]

Begin(p, op, c, u, d, v) ==
    /\ tx[p] = Idle /\ serving /\ op \in Operations
    /\ tx' = [tx EXCEPT ![p] = [Idle EXCEPT !.op = op, !.c = c, !.u = u, !.d = d, !.v = v,
          !.at = CASE op = "create" -> "member" [] op \in {"rule", "remove"} -> "workspace"
                   [] op \in {"update", "delete"} -> "exclusive" [] op = "use" -> "share" [] OTHER -> "list"]]
    /\ UNCHANGED <<rows, locks>>

LockWorkspace(p) ==
    /\ tx[p].at = "workspace" /\ wlock = Free
    /\ wlock' = p
    /\ Goto(p, IF tx[p].op = "rule" THEN "read" ELSE "member")
    /\ UNCHANGED <<xlock, slock, mlock, rows>>

\* A creation locks the membership row of its author, a removal the one it deletes.
LockWorkspaceMemberRole(p) ==
    LET u == tx[p].u
    IN /\ tx[p].at = "member" /\ mlock[u] = Free /\ u \in members
       /\ mlock' = [mlock EXCEPT ![u] = p]
       /\ Goto(p, "write")
       /\ UNCHANGED <<xlock, slock, wlock, rows>>

\* LockContextForWorkspaceDelete: a context of the workspace, never a system one.
LockContextForWorkspaceDelete(p) ==
    LET c == tx[p].c
    IN /\ tx[p].at = "exclusive" /\ c \in InScope("workspace") /\ Unlocked(c, p)
       /\ xlock' = [xlock EXCEPT ![c] = p]
       /\ Goto(p, "write")
       /\ UNCHANGED <<slock, wlock, mlock, rows>>

BugLockForUse(p) ==
    /\ tx[p].at = "share" /\ tx[p].c \in Live
    /\ Goto(p, "write") /\ UNCHANGED <<locks, rows>>

\* A locking read: it waits for a deletion in progress, and then finds no row.
LockContextForUse(p) ==
    LET c == tx[p].c
    IN /\ tx[p].at = "share" /\ c \in Live /\ xlock[c] = Free
       /\ slock' = [slock EXCEPT ![c] = @ \cup {p}]
       /\ Goto(p, "write")
       /\ UNCHANGED <<xlock, wlock, mlock, rows>>

\* Under the workspace row the rules are authorized and counted; the first of the two
\* plain reads fixes the snapshot of both.
WorkspaceCanWriteContext(p) ==
    /\ tx[p].at = "read" /\ tx[p].c \in InScope("workspace")
    /\ tx' = [tx EXCEPT ![p].at = "share", ![p].free = CountSelectionRulesForWorkspace < MaxRules]
    /\ UNCHANGED <<locks, rows>>

Writing(p, op) == tx[p].op = op /\ tx[p].at = "write"

\* The default of the scope gives way first; its row must not be locked by another.
Create(p) ==
    LET t == tx[p]
        cleared == IF t.d THEN ClearDefaultContextsForScope(contexts, "workspace", 0) ELSE contexts
    IN /\ Writing(p, "create") /\ NextID \in IDs
       /\ t.d => \A c \in DefaultsOf("workspace") : Unlocked(c, p)
       /\ contexts' = CreateContext(cleared, NextID, "workspace", "none", t.d, t.v, t.u)
       /\ issued' = NextID
       /\ End(p) /\ UNCHANGED <<rules, links, members>>

\* An UPDATE that changes nothing affects no row, and the request fails.
updateContext(p) ==
    LET t == tx[p]
        cleared == IF t.d THEN ClearDefaultContextsForScope(contexts, "workspace", t.c) ELSE contexts
        updated == UpdateContext(cleared, t.c, t.d, t.v)
    IN /\ Writing(p, "update")
       /\ t.d => \A c \in DefaultsOf("workspace") : Unlocked(c, p)
       /\ contexts' = IF updated[t.c] # contexts[t.c] THEN updated ELSE contexts
       /\ End(p) /\ UNCHANGED <<issued, rules, links, members>>

BugDeleteContext(p) ==
    /\ Writing(p, "delete")
    /\ contexts' = [contexts EXCEPT ![tx[p].c] = NoContext]
    /\ links' = ClearContextLinks({tx[p].c}) /\ End(p) /\ UNCHANGED <<issued, rules, members>>

deleteContext(p) ==
    /\ Writing(p, "delete")
    /\ clearContextReferences({tx[p].c})
    /\ contexts' = [contexts EXCEPT ![tx[p].c] = NoContext]
    /\ End(p) /\ UNCHANGED <<issued, members>>

\* Rules have a priority: a new one may come anywhere in the order.
CreateRuleForWorkspace(p) ==
    /\ Writing(p, "rule") /\ tx[p].free
    /\ \E i \in 1..Len(rules) + 1 : rules' = InsertAt(rules, i, tx[p].c)
    /\ End(p) /\ UNCHANGED <<contexts, issued, links, members>>

DeleteRuleForWorkspace(i) ==
    /\ rules[i] \in InScope("workspace")
    /\ rules' = RemoveAt(rules, i)
    /\ UNCHANGED <<contexts, issued, links, members, locks, tx>>

\* An ingest, a job, a batch, an OCR run or an audit commits with its link.
RecordUse(p) ==
    /\ Writing(p, "use")
    /\ \E k \in LinkKinds : links' = [links EXCEPT ![k] = tx[p].c]
    /\ End(p) /\ UNCHANGED <<contexts, issued, rules, members>>

RemoveWorkspaceMember(p) ==
    /\ Writing(p, "remove")
    /\ members' = members \ {tx[p].u}
    /\ End(p) /\ UNCHANGED <<contexts, issued, rules, links>>

\* ResolveForWorkspace reads the rules that match, in order, ...
ListSelectionRulesForWorkspaceResolution(p) ==
    /\ tx[p].at = "list"
    /\ \E matching \in SUBSET DOMAIN rules :
           LET Matches(i) == i \in matching
               picked == SelectSeq([i \in DOMAIN rules |-> i], Matches)
           IN tx' = [tx EXCEPT ![p].at = "get", ![p].seen = [i \in DOMAIN picked |-> rules[picked[i]]]]
    /\ UNCHANGED <<rows, locks>> /\ verdict' = "none"

\* ... takes the first whose context is still there, and skips the others, ...
GetForWorkspace(p) ==
    /\ tx[p].at = "get" /\ tx[p].seen # <<>>
    /\ IF Head(tx[p].seen) \in Live
       THEN End(p) /\ verdict' = "context"
       ELSE tx' = [tx EXCEPT ![p].seen = Tail(@)] /\ UNCHANGED locks /\ verdict' = "none"
    /\ UNCHANGED rows

\* ... and falls back on the default.
ResolveDefault(p) ==
    /\ tx[p].at = "get" /\ tx[p].seen = <<>>
    /\ verdict' = IF GetDefaultForWorkspace = 0 THEN "error" ELSE "context"
    /\ End(p) /\ UNCHANGED rows

----------------------------------------------------------------------------
\* A new database, or one an earlier release seeded: its default is retired now,
\* and it may have had presets that are in the catalog still.
Seeded(present) ==
    [c \in IDs |-> IF c = 1 THEN CreateContext([i \in IDs |-> NoContext], 1, System, CHOOSE n \in Retired : TRUE,
                                               TRUE, 0, "none")[1]
                   ELSE IF c - 1 \in present THEN CreateContext([i \in IDs |-> NoContext], c, System, Catalog[c - 1],
                                                                FALSE, 0, "none")[c]
                   ELSE NoContext]

Init ==
    /\ \/ contexts = [c \in IDs |-> NoContext] /\ serving = FALSE /\ issued = 0
       \/ Retired # {} /\ serving = TRUE /\ \E n \in 0..1 : contexts = Seeded(1..n) /\ issued = n + 1
    /\ rules = <<>> /\ links = [k \in LinkKinds |-> 0] /\ members = Users
    /\ boot = [r \in Replicas |-> [at |-> "start", step |-> 1, seen |-> 0, has |-> FALSE]]
    /\ catalogLock = Free
    /\ xlock = [c \in IDs |-> Free] /\ slock = [c \in IDs |-> {}]
    /\ wlock = Free /\ mlock = [u \in Users |-> Free]
    /\ tx = [p \in Procs |-> Idle] /\ verdict = "none"

Start(r) == SeedRead(r) \/ EnsureSystemContext(r) \/ ReplaceSystemDefault(r) \/ Crash(r)

Request(p) ==
    \/ \E u \in Users, d \in BOOLEAN, v \in Versions : Begin(p, "create", 0, u, d, v)
    \/ \E c \in InScope("workspace"), d \in BOOLEAN, v \in Versions : Begin(p, "update", c, "none", d, v)
    \/ \E c \in InScope("workspace"), op \in {"delete", "rule"} : Begin(p, op, c, "none", FALSE, 0)
    \/ \E c \in Live : Begin(p, "use", c, "none", FALSE, 0)
    \/ \E u \in members : Begin(p, "remove", 0, u, FALSE, 0)
    \/ Begin(p, "resolve", 0, "none", FALSE, 0)
    \/ LockWorkspace(p) \/ LockWorkspaceMemberRole(p) \/ LockContextForWorkspaceDelete(p)
    \/ LockContextForUse(p) \/ WorkspaceCanWriteContext(p)
    \/ Create(p) \/ updateContext(p) \/ deleteContext(p) \/ CreateRuleForWorkspace(p)
    \/ RecordUse(p) \/ RemoveWorkspaceMember(p) \/ Abort(p)

Resolve(p) == ListSelectionRulesForWorkspaceResolution(p) \/ GetForWorkspace(p) \/ ResolveDefault(p)

Next ==
    \/ \E r \in Replicas : Start(r)
    \/ \E p \in Procs : Request(p) /\ UNCHANGED seeding /\ verdict' = "none"
    \/ \E p \in Procs : Resolve(p) /\ UNCHANGED seeding
    \/ \E i \in DOMAIN rules : DeleteRuleForWorkspace(i) /\ UNCHANGED seeding /\ verdict' = "none"

Spec == Init /\ [][Next]_vars

----------------------------------------------------------------------------
(* Properties.                                                              *)

\* Rows, links, locks and requests keep their shapes.
TypeOK ==
    /\ \A c \in Live : contexts[c].scope \in {System, "workspace"} /\ contexts[c].default \in BOOLEAN
    /\ issued \in 0..MaxContexts /\ \A c \in Live : c <= issued
    /\ rules \in Seq(IDs) /\ links \in [LinkKinds -> 0..MaxContexts] /\ members \subseteq Users
    /\ \A r \in Replicas : boot[r].at \in {"start", "write", "ready", "failed"} /\ boot[r].step \in 1..Steps + 1
    /\ xlock \in [IDs -> Procs \cup {Free}] /\ slock \in [IDs -> SUBSET Procs]
    /\ catalogLock \in Replicas \cup {Free} /\ verdict \in {"none", "context", "error"}

\* Every rule and every link names a context that exists, however deletions, the
\* retirement of presets and the writers of links interleave
\* (clearContextReferences, LockContextForUse).
NoDanglingLinks ==
    /\ ToSet(rules) \subseteq Live
    /\ \A k \in LinkKinds : links[k] # 0 => links[k] \in Live

\* Racing creates never take a workspace over MaxSelectionRulesPerWorkspace, which
\* every resolution would then answer with an error (boundedSelectionRules).
RulesBounded == Len(rules) <= MaxRules

\* A scope has at most one default, whatever replicas and requests promote.
OneDefaultPerScope == \A s \in {System, "workspace"} : Cardinality(DefaultsOf(s)) <= 1

\* Replicas that start together, or again after a crash, never meet a unique key of
\* the catalog (withSystemContextCatalogLock), and each one that is ready leaves
\* exactly the catalog: all its names, none retired, its first the default.
CatalogConverges ==
    /\ \A r \in Replicas : boot[r].at # "failed"
    /\ (\E r \in Replicas : boot[r].at = "ready") =>
           /\ {contexts[c].name : c \in InScope(System)} = ToSet(Catalog)
           /\ {contexts[c].name : c \in DefaultsOf(System)} = {Catalog[1]}

\* Once requests are taken, a resolution always finds a context: a deleted one is
\* skipped, and an upgrade replaces the default without a gap.
ResolutionAnswers == verdict # "error"

\* The audit of AuditRelationshipIntegrity: the author of a context is a member of
\* its workspace.
ContextOwnersAreMembers == \A c \in InScope("workspace") : contexts[c].owner \in members
=============================================================================
