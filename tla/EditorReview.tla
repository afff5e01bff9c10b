---------------------------- MODULE EditorReview ----------------------------
(***************************************************************************)
(* The editor review handoff (internal/auth/editor_review.go,              *)
(* internal/store/editor_review.go): an integration issues a one-time link *)
(* for an item image, a browser redeems it for a session scoped to that    *)
(* image, and item deletion, logout and retention remove both halves.      *)
(*                                                                         *)
(* Grants, redemptions and role changes lock the workspace row; a deletion *)
(* locks the image and then deletes sessions and grants, statement by      *)
(* statement, without the workspace row.  The issuer and the image are     *)
(* read by plain SELECTs: what they saw may be gone when the write comes.  *)
(***************************************************************************)
EXTENDS Naturals, FiniteSets, FiniteSetsExt, Sequences, SequencesExt

CONSTANTS
    Procs,          \* requests in flight
    Images,         \* item images of the workspace
    MaxIssued,      \* bound: links ever issued
    MaxTokens,      \* MaxActiveEditorReviewTokensPerWorkspace
    MaxSessions,    \* MaxActiveEditorReviewSessionsPerWorkspace
    TokenTTL,       \* lifetime of a link
    SessionTTL,     \* the longest lifetime of a session (8 h)
    RetainFor,      \* how long an expired grant is kept (8 h)
    MaxTime         \* bound: the clock

EditorReviewAssumption ==
    {MaxIssued, MaxTokens, MaxSessions, TokenTTL, SessionTTL, RetainFor, MaxTime} \subseteq Nat \ {0}

Free == "free"
TokenIDs == 1..MaxIssued
NoToken == [image |-> "none", expires |-> 0, redeemed |-> FALSE]

VARIABLES
    images,     \* the item images that exist
    role,       \* the issuer's role in the workspace: "write", "read" or "none"
    tokens,     \* [TokenIDs -> editor_review_tokens row, or NoToken]
    claims,     \* [TokenIDs -> the signed link: its image and expiry, or NoToken]
    sessions,   \* editor_review_sessions rows, oldest first
    opened,     \* [TokenIDs -> sessions ever opened with the link]
    wlock,      \* holder of the workspace row lock, or Free
    tlock,      \* [TokenIDs -> holder of the grant's row lock, or Free]
    ilock,      \* [Images -> the deletion that holds the image, or Free]
    tx,         \* [Procs -> the transaction a request is in, or Idle]
    now

vars == <<images, role, tokens, claims, sessions, opened, wlock, tlock, ilock, tx, now>>
rows == <<images, role, tokens, claims, sessions, opened, now>>

Idle == [op |-> "idle", at |-> "idle", t |-> 0, image |-> "none", can |-> FALSE, seen |-> 0, dead |-> {}]

----------------------------------------------------------------------------
(* The queries.                                                             *)

reviewIssuerRoleCanWrite(r) == r \in {"admin", "write"}

CountActiveEditorReviewTokens ==
    Cardinality({t \in TokenIDs : tokens[t] # NoToken /\ ~tokens[t].redeemed /\ tokens[t].expires > now})

ActiveSession(s) == s.expires > now

DeleteExpiredEditorReviewSessions == SelectSeq(sessions, ActiveSession)

CountActiveEditorReviewSessions == Len(DeleteExpiredEditorReviewSessions)

\* DeleteOldestEditorReviewSession, n times.
DeleteOldestEditorReviewSession(ss, n) == SubSeq(ss, n + 1, Len(ss))

BugMarkRedeemed(t) == tokens[t] # NoToken

MarkEditorReviewTokenRedeemed(t) == tokens[t] # NoToken /\ ~tokens[t].redeemed /\ tokens[t].expires > now

CreateEditorReviewSession(t) ==
    [token |-> t, image |-> tokens[t].image, expires |-> now + SessionTTL]

\* The rows of an image that the deletion statements match.
SessionsOfImage(i) == {s \in ToSet(sessions) : s.image = i}

TokensOfImage(i) == {t \in TokenIDs : tokens[t] # NoToken /\ tokens[t].image = i}

----------------------------------------------------------------------------
(* Transactions.                                                            *)

Release(p) ==
    /\ wlock' = IF wlock = p THEN Free ELSE wlock
    /\ tlock' = [t \in TokenIDs |-> IF tlock[t] = p THEN Free ELSE tlock[t]]
    /\ ilock' = [i \in Images |-> IF ilock[i] = p THEN Free ELSE ilock[i]]

End(p) == Release(p) /\ tx' = [tx EXCEPT ![p] = Idle]

\* A check failed, the connection was lost or the request canceled.
Abort(p) == tx[p] # Idle /\ End(p) /\ UNCHANGED rows

BugLockWorkspace(p) ==
    /\ tx[p].at = "workspace"
    /\ tx' = [tx EXCEPT ![p].at = CASE tx[p].op = "redeem" -> "token" [] tx[p].op = "grant" -> "read"
                                    [] OTHER -> "write"]
    /\ UNCHANGED <<wlock, tlock, ilock>> /\ UNCHANGED rows

LockWorkspace(p) ==
    /\ tx[p].at = "workspace" /\ wlock = Free
    /\ wlock' = p
    /\ tx' = [tx EXCEPT ![p].at = CASE tx[p].op = "redeem" -> "token" [] tx[p].op = "grant" -> "read"
                                    [] OTHER -> "write"]
    /\ UNCHANGED <<tlock, ilock>> /\ UNCHANGED rows

\* The locking read of the grant sees its current row: spent, expired and foreign
\* grants are refused here.
LockEditorReviewTokenByHash(p) ==
    /\ tx[p].at = "token" /\ tlock[tx[p].t] = Free
    /\ MarkEditorReviewTokenRedeemed(tx[p].t)
    /\ tlock' = [tlock EXCEPT ![tx[p].t] = p]
    /\ tx' = [tx EXCEPT ![p].at = "read"]
    /\ UNCHANGED <<wlock, ilock>> /\ UNCHANGED rows

\* GetWorkspaceAccess and GetItemImageForWorkspace, and the count of the same snapshot.
ReadIssuerAndImage(p) ==
    /\ tx[p].at = "read"
    /\ tx' = [tx EXCEPT ![p].at = "write",
                        ![p].can = reviewIssuerRoleCanWrite(role) /\ tx[p].image \in images,
                        ![p].seen = IF tx[p].op = "grant" THEN CountActiveEditorReviewTokens
                                    ELSE CountActiveEditorReviewSessions]
    /\ UNCHANGED <<wlock, tlock, ilock>> /\ UNCHANGED rows

Writing(p, op) == tx[p].op = op /\ tx[p].at = "write"

\* The signer issues the link, CreateEditorReviewGrant stores it.
CreateEditorReviewGrant(p) ==
    LET t == Min({n \in TokenIDs : claims[n] = NoToken})
        g == [image |-> tx[p].image, expires |-> now + TokenTTL, redeemed |-> FALSE]
    IN  /\ Writing(p, "grant") /\ tx[p].can /\ tx[p].seen < MaxTokens
        /\ \E n \in TokenIDs : claims[n] = NoToken
        /\ tokens' = [tokens EXCEPT ![t] = g]
        /\ claims' = [claims EXCEPT ![t] = g]
        /\ End(p)
        /\ UNCHANGED <<images, role, sessions, opened, now>>

\* The grant is spent, expired sessions go, the oldest ones make room, the session
\* is inserted; a count that concurrent logouts made stale refuses the redemption.
RedeemEditorReviewGrant(p) ==
    LET t == tx[p].t
        live == DeleteExpiredEditorReviewSessions
        evict == IF tx[p].seen >= MaxSessions THEN tx[p].seen - MaxSessions + 1 ELSE 0
    IN  /\ Writing(p, "redeem") /\ tx[p].can /\ MarkEditorReviewTokenRedeemed(t)
        /\ evict <= Len(live)
        /\ tokens' = [tokens EXCEPT ![t].redeemed = TRUE]
        /\ sessions' = Append(DeleteOldestEditorReviewSession(live, evict), CreateEditorReviewSession(t))
        /\ opened' = [opened EXCEPT ![t] = @ + 1]
        /\ End(p)
        /\ UNCHANGED <<images, role, claims, now>>

\* UpdateWorkspaceMemberRole or RemoveWorkspaceMember on the issuer (module Identities).
ChangeIssuerRole(p) ==
    /\ Writing(p, "role")
    /\ role' \in {"write", "read", "none"} \ {role}
    /\ End(p)
    /\ UNCHANGED <<images, tokens, claims, sessions, opened, now>>

----------------------------------------------------------------------------
(* DeleteItemImageForWorkspace, READ COMMITTED: each statement sees what is  *)
(* committed when it runs, and waits for a grant a redemption holds.        *)

LockItemImageForCleanup(p) ==
    /\ tx[p].at = "image" /\ tx[p].image \in images /\ ilock[tx[p].image] = Free
    /\ ilock' = [ilock EXCEPT ![tx[p].image] = p]
    /\ tx' = [tx EXCEPT ![p].at = "sessions"]
    /\ UNCHANGED <<wlock, tlock>> /\ UNCHANGED rows

DeleteEditorReviewSessionsForItem(p) ==
    /\ tx[p].at = "sessions"
    /\ tx' = [tx EXCEPT ![p].at = "tokens", ![p].dead = SessionsOfImage(tx[p].image)]
    /\ UNCHANGED <<wlock, tlock, ilock>> /\ UNCHANGED rows

DeleteEditorReviewTokensForItem(p) ==
    /\ tx[p].at = "tokens"
    /\ \A t \in TokensOfImage(tx[p].image) : tlock[t] = Free
    /\ tlock' = [t \in TokenIDs |-> IF t \in TokensOfImage(tx[p].image) THEN p ELSE tlock[t]]
    /\ tx' = [tx EXCEPT ![p].at = "commit"]
    /\ UNCHANGED <<wlock, ilock>> /\ UNCHANGED rows

DeleteItemImageForWorkspace(p) ==
    /\ tx[p].at = "commit"
    /\ images' = images \ {tx[p].image}
    /\ sessions' = SelectSeq(sessions, LAMBDA s : s \notin tx[p].dead)
    /\ tokens' = [t \in TokenIDs |-> IF tlock[t] = p THEN NoToken ELSE tokens[t]]
    /\ End(p)
    /\ UNCHANGED <<role, claims, opened, now>>

----------------------------------------------------------------------------
(* Requests, and what needs no transaction.                                 *)

Begin(p, op, at, t, i) ==
    /\ tx[p] = Idle
    /\ tx' = [tx EXCEPT ![p] = [Idle EXCEPT !.op = op, !.at = at, !.t = t, !.image = i]]
    /\ UNCHANGED <<wlock, tlock, ilock>> /\ UNCHANGED rows

CreateEditorReviewToken(p) == \E i \in images : Begin(p, "grant", "workspace", 0, i)

\* editorReviewTokenSigner.consume: a genuine link that is not past its expiry.
handleEditorReviewRedeem(p) ==
    \E t \in TokenIDs : claims[t] # NoToken /\ now < claims[t].expires /\
        Begin(p, "redeem", "workspace", t, claims[t].image)

BeginRoleChange(p) == Begin(p, "role", "workspace", 0, "none")

BeginDelete(p) == \E i \in images : Begin(p, "delete", "image", 0, i)

DeleteEditorReviewSession ==
    /\ \E n \in DOMAIN sessions : sessions' = RemoveAt(sessions, n)
    /\ UNCHANGED <<images, role, tokens, claims, opened, wlock, tlock, ilock, tx, now>>

BugRetained(t) == tokens[t] # NoToken /\ tokens[t].expires <= now

\* DeleteRetainedEditorReviewTokensBatch: only grants whose sessions are all over.
Retained(t) == tokens[t] # NoToken /\ tokens[t].expires + RetainFor <= now

retainExpiredEditorReviewState ==
    /\ \A t \in TokenIDs : Retained(t) => tlock[t] = Free
    /\ sessions' = DeleteExpiredEditorReviewSessions
    /\ tokens' = [t \in TokenIDs |-> IF Retained(t) THEN NoToken ELSE tokens[t]]
    /\ <<sessions', tokens'>> # <<sessions, tokens>>
    /\ UNCHANGED <<images, role, claims, opened, wlock, tlock, ilock, tx, now>>

Tick ==
    /\ now < MaxTime
    /\ now' = now + 1
    /\ UNCHANGED <<images, role, tokens, claims, sessions, opened, wlock, tlock, ilock, tx>>

----------------------------------------------------------------------------
Init ==
    /\ images = Images /\ role = "write"
    /\ tokens = [t \in TokenIDs |-> NoToken]
    /\ claims = [t \in TokenIDs |-> NoToken]
    /\ sessions = <<>>
    /\ opened = [t \in TokenIDs |-> 0]
    /\ wlock = Free
    /\ tlock = [t \in TokenIDs |-> Free]
    /\ ilock = [i \in Images |-> Free]
    /\ tx = [p \in Procs |-> Idle]
    /\ now = 0

Next ==
    \/ \E p \in Procs :
        \/ CreateEditorReviewToken(p) \/ handleEditorReviewRedeem(p) \/ BeginRoleChange(p) \/ BeginDelete(p)
        \/ LockWorkspace(p) \/ LockEditorReviewTokenByHash(p) \/ ReadIssuerAndImage(p)
        \/ CreateEditorReviewGrant(p) \/ RedeemEditorReviewGrant(p) \/ ChangeIssuerRole(p)
        \/ LockItemImageForCleanup(p) \/ DeleteEditorReviewSessionsForItem(p)
        \/ DeleteEditorReviewTokensForItem(p) \/ DeleteItemImageForWorkspace(p) \/ Abort(p)
    \/ DeleteEditorReviewSession \/ retainExpiredEditorReviewState \/ Tick

Spec == Init /\ [][Next]_vars

----------------------------------------------------------------------------
\* The rows have the shape the schema gives them.
TypeOK ==
    /\ images \subseteq Images /\ now \in 0..MaxTime
    /\ \A t \in TokenIDs : tokens[t] # NoToken => tokens[t].image = claims[t].image
    /\ wlock \in Procs \cup {Free} /\ tlock \in [TokenIDs -> Procs \cup {Free}]

\* "A concurrent replay can observe neither an unconsumed grant nor a partially
\* created session": a link opens at most one session, however often and however
\* concurrently it is followed, and the workspace limits hold under concurrent
\* grants and redemptions.
RedeemedOnce ==
    /\ \A t \in TokenIDs : opened[t] <= 1
    /\ CountActiveEditorReviewTokens <= MaxTokens
    /\ CountActiveEditorReviewSessions <= MaxSessions

\* Of every step: a grant is written, and a session opened, only while its issuer can write: the
\* role change that would have refused it waits for the same workspace row.
WrittenByWriters ==
    (\E t \in TokenIDs : claims'[t] # claims[t] \/ opened'[t] # opened[t])
        => reviewIssuerRoleCanWrite(role)

\* Of every step: retention never takes the grant away under a session that is still in use.
RetentionKeepsParents ==
    \A t \in TokenIDs : tokens[t] # NoToken /\ tokens'[t] = NoToken /\ images' = images
        => \A s \in ToSet(sessions) : s.token = t => ~ActiveSession(s)

\* The relationship audit's 'editor_review_tokens.resource_tuple' and
\* 'editor_review_sessions.resource_tuple': every grant has its image, and every
\* session its grant and its image.
ReviewTuplesHold ==
    /\ \A t \in TokenIDs : tokens[t] # NoToken => tokens[t].image \in images
    /\ \A s \in ToSet(sessions) : s.image \in images /\ tokens[s.token] # NoToken
============================================================================
