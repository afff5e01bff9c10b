------------------------- MODULE MCServiceProgress --------------------------
(***************************************************************************)
(* That what was started comes to an end, for small instances of upload   *)
(* batches, idempotency keys, manifest imports, webhooks, the event stream *)
(* and the limiter, and what the event stream promises on the way.         *)
(* A behaviour runs one of them, the focus, and the others stay as they     *)
(* were started: no progress of one depends on another, so the product of  *)
(* their states would say no more than their sum.  Fairness is that of the *)
(* component's own module.                                                 *)
(***************************************************************************)
EXTENDS EventStream

CONSTANTS
    c1, c2, c3,          \* callers
    d1, r1, f1, f2,      \* a dispatcher, a request, files of a batch
    e1, e2, s1,          \* events and a subscription
    v1, v2, p1, p2,      \* workspaces and providers
    none

VARIABLES
    focus,
    batch, file, filePage, request, answers,
    row, call, claims, keyPage, results, keyAnswers,
    source, ctx, world, phase, canvases, group, fetcher, budget, held, item, key, answer,
    webhookEvent, subscription, delivery, sender, posted, accepted,
    active, activeByWorkspace, activeByProvider, listening, pc, workspace, provider

Canvas(uri, id, hocr) ==
    [uri |-> uri, hocr |-> hocr,
     annotations |-> <<[body |-> <<[id |-> id, supported |-> TRUE]>>, painting |-> TRUE, target |-> uri]>>]
SourceManifest ==
    [version |-> 3, valid |-> TRUE, bytes |-> 1,
     canvases |-> <<Canvas("c1", "i1", TRUE), Canvas("c2", "i2", TRUE), Canvas("c3", "i3", TRUE)>>]
\* A good one, one that is too large and one that does not parse.
HOCRDocuments ==
    {[raw |-> 1, trimmed |-> 1, text |-> 1, valid |-> TRUE], [raw |-> 3, trimmed |-> 3, text |-> 0, valid |-> TRUE],
     [raw |-> 1, trimmed |-> 1, text |-> 0, valid |-> FALSE]}

Batches == INSTANCE UploadBatches WITH
    Files <- {f1, f2}, Requests <- {r1}, MaxAttempts <- 2, LeaseTime <- 1, page <- filePage

Keys == INSTANCE ExternalRequests WITH
    Calls <- {c1, c2}, Payloads <- {p1}, ForItemImage <- FALSE, Deadline <- TRUE, MaxAttempts <- 2,
    LeaseTime <- 2, WorkTime <- 1, RetentionTime <- 3, MaxClaims <- 3,
    page <- keyPage, answers <- keyAnswers

\* One worker fetches for more Canvases than the channel of jobs holds.
Import == INSTANCE ManifestImport WITH
    Manifests <- {SourceManifest}, Documents <- HOCRDocuments, Workers <- {d1}, MaxFetchAttempts <- 2,
    MaxManifestCanvases <- 3, MaxSourceManifestBytes <- 5, MaxRemoteHOCRBytes <- 2,
    MaxManifestImportBytes <- 5, JobCapacity <- 2, worker <- fetcher

Webhooks == INSTANCE WebhookDeliveries WITH
    Events <- {e1, e2}, Subscriptions <- {s1}, Dispatchers <- {d1}, BatchSize <- 1,
    MaxSubscriptions <- 1, MaxAttempts <- 2, LeaseTime <- 1, RetryTime <- 1, None <- none,
    event <- webhookEvent, dispatcher <- sender

Limiter == INSTANCE HierarchicalLimiter WITH
    Callers <- {c1, c2, c3}, Workspaces <- {v1, v2}, Providers <- {p1, p2},
    GlobalLimit <- 2, WorkspaceLimit <- 1, ProviderLimit <- 1

batches == <<batch, file, filePage, request, answers>>
keys == <<row, call, claims, keyPage, results, keyAnswers>>
imports == <<source, ctx, world, phase, canvases, group, fetcher, budget, held, item, key, answer>>
webhooks == <<webhookEvent, subscription, delivery, sender, posted, accepted>>
limiter == <<active, activeByWorkspace, activeByProvider, listening, pc, workspace, provider>>
services == <<focus, batches, keys, imports, webhooks, limiter, vars>>

On(component) == focus = component

ProgressInit ==
    /\ focus \in {"batches", "keys", "import", "webhooks", "stream", "limiter"}
    /\ Batches!Init /\ Keys!Init /\ Import!Init /\ Webhooks!Init /\ Limiter!Init /\ Init
    /\ (On("import") \/ source.ignore)
    /\ On("limiter") \/ (\A c \in {c1, c2, c3} : workspace[c] = v1 /\ provider[c] = p1)

ASSUME
    /\ Batches!BatchAssumption /\ Keys!RequestAssumption /\ Import!ManifestImportAssumption
    /\ Webhooks!WebhookAssumption /\ StreamAssumption

ProgressNext ==
    /\ UNCHANGED focus
    /\ IF On("batches") THEN Batches!Next ELSE UNCHANGED batches
    /\ IF On("keys") THEN Keys!Next ELSE UNCHANGED keys
    /\ IF On("import") THEN Import!Next ELSE UNCHANGED imports
    /\ IF On("webhooks") THEN Webhooks!Next ELSE UNCHANGED webhooks
    /\ IF On("stream") THEN Next ELSE UNCHANGED vars
    /\ IF On("limiter") THEN Limiter!Next ELSE UNCHANGED limiter

\* The Fairness of each module, while it is the focus.
ProgressFairness ==
    /\ WF_batches(On("batches") /\ Batches!StartUploadBatch) /\ WF_batches(On("batches") /\ Batches!Tick)
    /\ WF_batches(On("batches") /\ Batches!Step(r1))
    /\ \A f \in {f1, f2} : SF_batches(On("batches") /\ Batches!ClaimUploadBatchFile(r1, f))
    /\ WF_keys(On("keys") /\ Keys!Tick) /\ WF_keys(On("keys") /\ Keys!RetainExternalRequests)
    /\ WF_imports(On("import") /\ Import!Deadline) /\ WF_imports(On("import") /\ Import!acquireManifestImportSlot)
    /\ WF_imports(On("import") /\ Import!CloseJobs) /\ WF_imports(On("import") /\ Import!prefetchManifestHOCR)
    /\ WF_imports(On("import") /\ Import!reserveStorageQuota)
    /\ WF_imports(On("import") /\ Import!CommitManifestIngest)
    /\ WF_imports(On("import") /\ ctx # "live" /\ Import!ManifestFails)
    /\ WF_imports(On("import") /\ Import!SendIndex(d1)) /\ WF_imports(On("import") /\ Import!WorkerEnds(d1))
    /\ WF_imports(On("import") /\ Import!ParseDocument(d1))
    /\ WF_imports(On("import") /\ Import!Cancelled /\ Import!FetchFails(d1))
    /\ WF_webhooks(On("webhooks") /\ Webhooks!Tick)
    /\ WF_webhooks(On("webhooks") /\ Webhooks!Claim(d1))
    /\ WF_webhooks(On("webhooks") /\ Webhooks!Deliver(d1))
    /\ WF_vars(On("stream") /\ HandleEventStream) /\ WF_vars(On("stream") /\ Poll)
    /\ WF_vars(On("stream") /\ Receive) /\ WF_vars(On("stream") /\ ReconcileSnapshot)
    /\ \A c \in {c1, c2, c3} :
         /\ WF_limiter(On("limiter") /\ (Limiter!Acquire(c) \/ Limiter!Wait(c) \/ Limiter!Wake(c)))
         /\ WF_limiter(On("limiter") /\ Limiter!Release(c))

ProgressSpec == ProgressInit /\ [][ProgressNext]_services /\ ProgressFairness

-----------------------------------------------------------------------------
(* Properties, with those of the event stream: what it promises in every   *)
(* state, and that a committed event reaches the client.                   *)

\* Nothing is held for ever by a crash or by a server that does not answer: a batch
\* whose clients resubmit ends, unless a file has no attempt left, a key settles,
\* every manifest import returns, and every webhook delivery ends.
LeasesSettle ==
    /\ Batches!BatchSettles /\ Keys!KeySettles /\ Webhooks!DeliveriesEnd
    /\ On("import") => Import!ImportReturns

\* Every caller that waits for a slot is woken.
WaitersWake == Limiter!WaitersWake

=============================================================================
