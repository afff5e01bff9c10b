------------------------ MODULE HierarchicalLimiter ------------------------
(***************************************************************************)
(* The process-wide gate of expensive work                                 *)
(* (internal/worklimit/hierarchical.go): one mutex, a global counter, a    *)
(* counter for each workspace and each provider, and a channel that every  *)
(* release closes and replaces to wake those who wait.                     *)
(*                                                                         *)
(* One action is one critical section.  A channel is only ever compared    *)
(* with the present one, so it is modelled by the set of the waiters that  *)
(* captured the channel still open.                                        *)
(***************************************************************************)
EXTENDS Integers, FiniteSets

CONSTANTS
    Callers,         \* goroutines
    Workspaces, Providers,
    GlobalLimit, WorkspaceLimit, ProviderLimit

\* NewHierarchical refuses anything else.
ASSUME LimitsAssumption ==
    /\ IsFiniteSet(Callers)
    /\ GlobalLimit \in Nat \ {0} /\ WorkspaceLimit \in Nat \ {0} /\ ProviderLimit \in Nat \ {0}
    /\ WorkspaceLimit <= GlobalLimit /\ ProviderLimit <= GlobalLimit

VARIABLES
    active,             \* the three counters
    activeByWorkspace,
    activeByProvider,
    listening,          \* waiters whose channel is not closed
    pc,                 \* where each caller is
    workspace, provider \* what each caller asked for

vars == <<active, activeByWorkspace, activeByProvider, listening, pc, workspace, provider>>

\* The counters are numbers within the limits that NewHierarchical was given, and
\* every caller is in a known place.
TypeOK ==
    /\ active \in 0 .. GlobalLimit
    /\ activeByWorkspace \in [Workspaces -> 0 .. WorkspaceLimit]
    /\ activeByProvider \in [Providers -> 0 .. ProviderLimit]
    /\ listening \subseteq Callers
    /\ pc \in [Callers -> {"idle", "trying", "waiting", "holding"}]
    /\ workspace \in [Callers -> Workspaces]
    /\ provider \in [Callers -> Providers]

Init ==
    /\ active = 0
    /\ activeByWorkspace = [w \in Workspaces |-> 0]
    /\ activeByProvider = [p \in Providers |-> 0]
    /\ listening = {}
    /\ pc = [c \in Callers |-> "idle"]
    /\ workspace \in [Callers -> Workspaces]
    /\ provider \in [Callers -> Providers]

Call(c, w, p) ==
    /\ pc[c] = "idle"
    /\ pc' = [pc EXCEPT ![c] = "trying"]
    /\ workspace' = [workspace EXCEPT ![c] = w]
    /\ provider' = [provider EXCEPT ![c] = p]
    /\ UNCHANGED <<active, activeByWorkspace, activeByProvider, listening>>

Fits(c) ==
    /\ active < GlobalLimit
    /\ activeByWorkspace[workspace[c]] < WorkspaceLimit
    /\ activeByProvider[provider[c]] < ProviderLimit

Acquire(c) ==
    /\ pc[c] = "trying" /\ Fits(c)
    /\ active' = active + 1
    /\ activeByWorkspace' = [activeByWorkspace EXCEPT ![workspace[c]] = @ + 1]
    /\ activeByProvider' = [activeByProvider EXCEPT ![provider[c]] = @ + 1]
    /\ pc' = [pc EXCEPT ![c] = "holding"]
    /\ UNCHANGED <<listening, workspace, provider>>

\* The channel is captured in the critical section that found no room.
Wait(c) ==
    /\ pc[c] = "trying" /\ ~Fits(c)
    /\ pc' = [pc EXCEPT ![c] = "waiting"]
    /\ listening' = listening \cup {c}
    /\ UNCHANGED <<active, activeByWorkspace, activeByProvider, workspace, provider>>

Wake(c) ==
    /\ pc[c] = "waiting" /\ c \notin listening
    /\ pc' = [pc EXCEPT ![c] = "trying"]
    /\ UNCHANGED <<active, activeByWorkspace, activeByProvider, listening, workspace, provider>>

\* ctx.Done: the caller leaves without a slot.
Cancel(c) ==
    /\ pc[c] = "waiting"
    /\ pc' = [pc EXCEPT ![c] = "idle"]
    /\ listening' = listening \ {c}
    /\ UNCHANGED <<active, activeByWorkspace, activeByProvider, workspace, provider>>

BugStillListening(c) == {d \in listening : workspace[d] # workspace[c]}
\* close(l.changed) wakes all, whatever they wait for.
StillListening(c) == {}

BugRelease(c) ==
    /\ pc[c] = "holding"
    /\ active' = active - 1
    /\ activeByWorkspace' = [activeByWorkspace EXCEPT ![workspace[c]] = @ - 1]
    /\ UNCHANGED activeByProvider
    /\ listening' = StillListening(c)
    /\ pc' = [pc EXCEPT ![c] = "idle"]
    /\ UNCHANGED <<workspace, provider>>

\* The counters are only touched when none of the three is zero.  The release
\* function runs once; a second call does nothing.
Release(c) ==
    /\ pc[c] = "holding"
    /\ IF active <= 0 \/ activeByWorkspace[workspace[c]] <= 0 \/ activeByProvider[provider[c]] <= 0
       THEN UNCHANGED <<active, activeByWorkspace, activeByProvider, listening>>
       ELSE /\ active' = active - 1
            /\ activeByWorkspace' = [activeByWorkspace EXCEPT ![workspace[c]] = @ - 1]
            /\ activeByProvider' = [activeByProvider EXCEPT ![provider[c]] = @ - 1]
            /\ listening' = StillListening(c)
    /\ pc' = [pc EXCEPT ![c] = "idle"]
    /\ UNCHANGED <<workspace, provider>>

Next ==
    \E c \in Callers :
        \/ \E w \in Workspaces, p \in Providers : Call(c, w, p)
        \/ Acquire(c) \/ Wait(c) \/ Wake(c) \/ Cancel(c) \/ Release(c)

Spec == Init /\ [][Next]_vars

\* Goroutines run, and work that holds a slot ends.
Fairness ==
    \A c \in Callers : /\ WF_vars((Acquire(c) \/ Wait(c) \/ Wake(c)))
                       /\ WF_vars(Release(c))

FairSpec == Spec /\ Fairness

-----------------------------------------------------------------------------
(* Properties.                                                             *)

Holders == {c \in Callers : pc[c] = "holding"}

\* The counters are exactly the callers at work: no slot leaks with a canceled
\* waiter, and no caller that waits holds a part of its quota.
CountersMatchHolders ==
    /\ active = Cardinality(Holders)
    /\ \A w \in Workspaces :
         activeByWorkspace[w] = Cardinality({c \in Holders : workspace[c] = w})
    /\ \A p \in Providers :
         activeByProvider[p] = Cardinality({c \in Holders : provider[c] = p})

\* No wake-up is lost: a caller that sleeps on a channel nobody closed has no
\* room now, so it never sleeps through the release it waits for.
NoLostWakeup ==
    \A c \in Callers : pc[c] = "waiting" /\ c \in listening => ~Fits(c)

\* Every waiter is woken: the slots it lacks are held by somebody, and the first
\* of them to be released wakes it, in whatever workspace or provider that was.
WaitersWake ==
    \A c \in Callers : pc[c] = "waiting" ~> pc[c] # "waiting"

=============================================================================
