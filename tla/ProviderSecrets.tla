-------------------------- MODULE ProviderSecrets --------------------------
(***************************************************************************)
(* The lifecycle of a provider secret across two systems: its locator row  *)
(* in MySQL and its material in Vault (internal/auth/connect_auth.go,      *)
(* provider_secret_cleanup.go, internal/store/provider_secrets.go).  No    *)
(* transaction spans both, so every order of the two systems' steps, every *)
(* failure between them and every crash of a request is a step here.       *)
(*                                                                         *)
(* A write whose request timed out may still be carried out by Vault; with *)
(* LateWrites it may be carried out at any later time, otherwise it is     *)
(* decided by the time the client gives up.                                *)
(***************************************************************************)
EXTENDS Naturals, FiniteSets

CONSTANTS
    Secrets,       \* locators: one Create request each
    Cleaners,      \* reconcilers and delete requests in flight
    MaxSecrets,    \* MaxProviderSecretsPerWorkspace
    LateWrites     \* a timed-out write may land after the client gave up

ProviderSecretsAssumption == MaxSecrets \in Nat \ {0} /\ LateWrites \in BOOLEAN

NoRow == "none"
Nothing == [s |-> NoRow, at |-> "idle"]

VARIABLES
    row,       \* [Secrets -> lifecycle_state, or NoRow]
    stale,     \* the pending_write rows older than providerSecretPendingGrace
    vault,     \* the secrets whose material is in Vault
    flight,    \* the writes that Vault may still carry out
    request,   \* [Secrets -> where the Create request is]
    cleaner    \* [Cleaners -> the secret it removes, and its next step]

vars == <<row, stale, vault, flight, request, cleaner>>

----------------------------------------------------------------------------
(* The state-fenced statements on the locator.                              *)

CountProviderSecretsByWorkspace == Cardinality({s \in Secrets : row[s] # NoRow})

Transition(s, from, to) ==
    /\ row[s] = from
    /\ row' = [row EXCEPT ![s] = to]

BugActivate(s) == row[s] # NoRow /\ row' = [row EXCEPT ![s] = "active"]

ActivateProviderSecret(s) == Transition(s, "pending_write", "active")

MarkPendingProviderSecretCleanup(s) == Transition(s, "pending_write", "cleanup_pending")

MarkActiveProviderSecretCleanup(s) == Transition(s, "active", "cleanup_pending")

\* Deleting a row that is gone, or active, affects nothing and is tolerated.
DeleteInactiveProviderSecret(s) ==
    row' = [row EXCEPT ![s] = IF row[s] = "active" THEN "active" ELSE NoRow]

ListProviderSecretCleanupCandidates ==
    {s \in Secrets : row[s] = "cleanup_pending" \/ (row[s] = "pending_write" /\ s \in stale)}

\* What a provider call can use: the locator is visible and Vault has the value.
ListProviderSecretsVisibleToUser == {s \in Secrets : row[s] = "active"}

Goto(s, step) == request' = [request EXCEPT ![s] = step]

----------------------------------------------------------------------------
(* CreateProviderSecret: locator first, then the material, then activation.  *)

\* ProviderSecretStore.Create, one transaction under the workspace lock.
Create(s) ==
    /\ request[s] = "new"
    /\ CountProviderSecretsByWorkspace < MaxSecrets
    /\ row' = [row EXCEPT ![s] = "pending_write"]
    /\ Goto(s, "write")
    /\ UNCHANGED <<stale, vault, flight, cleaner>>

BugWriteSucceeds(s) ==
    /\ request[s] = "write"
    /\ Goto(s, "activate")
    /\ UNCHANGED <<row, stale, vault, flight, cleaner>>

WriteSucceeds(s) ==
    /\ request[s] = "write"
    /\ vault' = vault \cup {s}
    /\ Goto(s, "activate")
    /\ UNCHANGED <<row, stale, flight, cleaner>>

\* An error says nothing of whether Vault carried the write out.
WriteFails(s) ==
    /\ request[s] = "write"
    /\ \/ UNCHANGED <<vault, flight>>
       \/ vault' = vault \cup {s} /\ UNCHANGED flight
       \/ LateWrites /\ flight' = flight \cup {s} /\ UNCHANGED vault
    /\ Goto(s, "schedule")
    /\ UNCHANGED <<row, stale, cleaner>>

LateWrite(s) ==
    /\ s \in flight
    /\ vault' = vault \cup {s} /\ flight' = flight \ {s}
    /\ UNCHANGED <<row, stale, request, cleaner>>

\* Activate: the answer of the UPDATE may be lost; GetLifecycle then tells.
Activate(s) ==
    /\ request[s] = "activate"
    /\ \/ ActivateProviderSecret(s) /\ Goto(s, "done")
       \/ UNCHANGED row /\ Goto(s, "schedule")
    /\ UNCHANGED <<stale, vault, flight, cleaner>>

\* scheduleProviderSecretCleanup: Vault is left alone unless the transition is confirmed.
scheduleProviderSecretCleanup(s) ==
    /\ request[s] = "schedule"
    /\ \/ MarkPendingProviderSecretCleanup(s) /\ Goto(s, "vault")
       \/ UNCHANGED row /\ Goto(s, "done")
    /\ UNCHANGED <<stale, vault, flight, cleaner>>

\* cleanupTrackedProviderSecret on the request's own behalf, best effort.
CleanupByRequest(s) ==
    /\ \/ /\ request[s] = "vault"
          /\ vault' = vault \ {s} /\ Goto(s, "row") /\ UNCHANGED row
       \/ /\ request[s] = "row"
          /\ DeleteInactiveProviderSecret(s) /\ Goto(s, "done") /\ UNCHANGED vault
    /\ UNCHANGED <<stale, flight, cleaner>>

\* The process dies, or the request is canceled, wherever it is.
Crash(s) ==
    /\ request[s] \notin {"new", "done"}
    /\ Goto(s, "done")
    /\ UNCHANGED <<row, stale, vault, cleaner>>
    /\ flight' = IF request[s] = "write" /\ LateWrites THEN flight \cup {s} ELSE flight

----------------------------------------------------------------------------
(* Removal.                                                                 *)

Take(c, s) == cleaner' = [cleaner EXCEPT ![c] = [s |-> s, at |-> "vault"]]

DeleteProviderSecret(c) ==
    /\ cleaner[c] = Nothing
    /\ \E s \in ListProviderSecretsVisibleToUser : MarkActiveProviderSecretCleanup(s) /\ Take(c, s)
    /\ UNCHANGED <<stale, vault, flight, request>>

\* ReconcileProviderSecretCleanups lists its candidates first and handles each one
\* later: the row may have moved on meanwhile.
ReconcileList(c) ==
    /\ cleaner[c] = Nothing
    /\ \E s \in ListProviderSecretCleanupCandidates :
        cleaner' = [cleaner EXCEPT ![c] = [s |-> s, at |-> IF row[s] = "pending_write" THEN "mark" ELSE "vault"]]
    /\ UNCHANGED <<row, stale, vault, flight, request>>

ReconcileMark(c) ==
    /\ cleaner[c].at = "mark"
    /\ \/ MarkPendingProviderSecretCleanup(cleaner[c].s) /\ Take(c, cleaner[c].s)
       \/ UNCHANGED row /\ cleaner' = [cleaner EXCEPT ![c] = Nothing]
    /\ UNCHANGED <<stale, vault, flight, request>>

\* cleanupTrackedProviderSecret: material first, then the locator.
BugCleanupVault(c) ==
    /\ cleaner[c].at = "vault"
    /\ DeleteInactiveProviderSecret(cleaner[c].s)
    /\ cleaner' = [cleaner EXCEPT ![c].at = "row"]
    /\ UNCHANGED <<stale, vault, flight, request>>

CleanupVault(c) ==
    /\ cleaner[c].at = "vault"
    /\ vault' = vault \ {cleaner[c].s}
    /\ cleaner' = [cleaner EXCEPT ![c].at = "row"]
    /\ UNCHANGED <<row, stale, flight, request>>

CleanupRow(c) ==
    /\ cleaner[c].at = "row"
    /\ DeleteInactiveProviderSecret(cleaner[c].s)
    /\ cleaner' = [cleaner EXCEPT ![c] = Nothing]
    /\ UNCHANGED <<stale, vault, flight, request>>

\* Vault or MySQL fails, or the worker stops: the locator stays for the next run.
CleanupFails(c) ==
    /\ cleaner[c] # Nothing
    /\ cleaner' = [cleaner EXCEPT ![c] = Nothing]
    /\ UNCHANGED <<row, stale, vault, flight, request>>

\* The grace period outlasts the ten seconds a request waits for Vault.
GraceElapses(s) ==
    /\ row[s] = "pending_write" /\ s \notin stale /\ request[s] # "write"
    /\ stale' = stale \cup {s}
    /\ UNCHANGED <<row, vault, flight, request, cleaner>>

----------------------------------------------------------------------------
Init ==
    /\ row = [s \in Secrets |-> NoRow]
    /\ stale = {} /\ vault = {} /\ flight = {}
    /\ request = [s \in Secrets |-> "new"]
    /\ cleaner = [c \in Cleaners |-> Nothing]

Next ==
    \/ \E s \in Secrets :
        \/ Create(s) \/ WriteSucceeds(s) \/ WriteFails(s) \/ LateWrite(s) \/ Activate(s)
        \/ scheduleProviderSecretCleanup(s) \/ CleanupByRequest(s) \/ Crash(s) \/ GraceElapses(s)
    \/ \E c \in Cleaners :
        \/ DeleteProviderSecret(c) \/ ReconcileList(c) \/ ReconcileMark(c)
        \/ CleanupVault(c) \/ CleanupRow(c) \/ CleanupFails(c)

Spec == Init /\ [][Next]_vars

----------------------------------------------------------------------------
\* Lifecycle states are those of the column's enumeration.
TypeOK ==
    /\ row \in [Secrets -> {NoRow, "pending_write", "active", "cleanup_pending"}]
    /\ stale \subseteq Secrets /\ vault \subseteq Secrets /\ flight \subseteq Secrets

\* "Never an untracked live credential in Vault": material in Vault always has a
\* locator from which it can be found and removed.
MaterialIsTracked == \A s \in vault : row[s] # NoRow

\* A secret a provider call can pick has its material: it becomes visible only
\* after the write succeeded and is hidden before the material is removed, even
\* when a reconciler works from a list made before the activation.
VisibleIsUsable == ListProviderSecretsVisibleToUser \subseteq vault

\* Of every step: a removed secret stays removed: no late step of a request or of a second worker
\* brings its locator back.
RemovalIsFinal ==
    \A s \in Secrets : row[s] = "cleanup_pending" => row'[s] \in {"cleanup_pending", NoRow}
============================================================================
