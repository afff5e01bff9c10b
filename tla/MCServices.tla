----------------------------- MODULE MCServices -----------------------------
(***************************************************************************)
(* Safety of the work limiter, of upload batches, of idempotency keys      *)
(* under their two handlers, of webhooks and of a page's line checkpoints, *)
(* on small instances.  A behaviour runs one of them, the focus, and the   *)
(* others stay as they were started: no property relates two of them, so   *)
(* the product of their states would say no more than their sum.           *)
(***************************************************************************)
EXTENDS HierarchicalLimiter, TLC

CONSTANTS
    Files, Uploads,                    \* of an upload batch
    Calls, Payloads,                   \* of a key
    Events, Subscriptions, Senders,    \* of the webhook outbox
    Workers, Lines,                    \* of a transcription job
    i1, c1, k1, none

VARIABLES
    focus,
    batch, file, filePage, request, answers,
    row, call, claims, keyPage, results, keyAnswers,
    event, subscription, delivery, dispatcher, posted, accepted,
    written, job, lastJob, attempt, checkpoint, jobEvent, worker, editor

Batches == INSTANCE UploadBatches WITH
    Requests <- Uploads, MaxAttempts <- 2, LeaseTime <- 1, page <- filePage

\* A reprocess: the key names a revision, and the work has no deadline.
Reprocess == INSTANCE ExternalRequests WITH
    ForItemImage <- TRUE, Deadline <- FALSE, MaxAttempts <- 3, LeaseTime <- 2, WorkTime <- 1,
    RetentionTime <- 3, MaxClaims <- 4, page <- keyPage, answers <- keyAnswers

\* A manifest import: the commit makes an item, and the work has a deadline.
Import == INSTANCE ExternalRequests WITH
    ForItemImage <- FALSE, Deadline <- TRUE, MaxAttempts <- 3, LeaseTime <- 2, WorkTime <- 1,
    RetentionTime <- 3, MaxClaims <- 4, page <- keyPage, answers <- keyAnswers

Webhooks == INSTANCE WebhookDeliveries WITH
    Dispatchers <- Senders, BatchSize <- 2, MaxSubscriptions <- 1, MaxAttempts <- 2, LeaseTime <- 1,
    RetryTime <- 1, None <- none

\* One job of a page of several lines, for a line provider or a whole-page one.
Queue == INSTANCE TranscriptionJobs WITH
    Images <- {i1}, Contexts <- {c1, k1}, PageContexts <- {k1}, Editors <- {}, MaxAttempts <- 2,
    MaxActive <- 1, MaxTerminal <- 1, LeaseTime <- 2, MaxJobs <- 1, MaxRevision <- 1,
    event <- jobEvent

ASSUME
    /\ Batches!BatchAssumption /\ Reprocess!RequestAssumption /\ Import!RequestAssumption
    /\ Webhooks!WebhookAssumption

batches == <<batch, file, filePage, request, answers>>
keys == <<row, call, claims, keyPage, results, keyAnswers>>
webhooks == <<event, subscription, delivery, dispatcher, posted, accepted>>
queue == <<written, job, lastJob, attempt, checkpoint, jobEvent, worker, editor>>
services == <<focus, vars, batches, keys, webhooks, queue>>

On(component) == focus = component

ServicesInit ==
    /\ focus \in {"limiter", "batches", "reprocess", "import", "webhooks", "lines"}
    /\ Init /\ Batches!Init /\ Reprocess!Init /\ Webhooks!Init /\ Queue!Init
    /\ On("limiter") \/ \A c, d \in Callers : workspace[c] = workspace[d] /\ provider[c] = provider[d]

ServicesNext ==
    /\ UNCHANGED focus
    /\ IF On("limiter") THEN Next ELSE UNCHANGED vars
    /\ IF On("batches") THEN Batches!Next ELSE UNCHANGED batches
    /\ CASE On("reprocess") -> Reprocess!Next
         [] On("import") -> Import!Next
         [] OTHER -> UNCHANGED keys
    /\ IF On("webhooks") THEN Webhooks!Next ELSE UNCHANGED webhooks
    /\ IF On("lines") THEN Queue!Next ELSE UNCHANGED queue

ServicesSpec == ServicesInit /\ [][ServicesNext]_services

\* Members of a set differ in nothing but their names.  The sets of the components
\* share their members, so that a few permutations serve them all.
ServicesSymmetry ==
    UNION {Permutations(S) : S \in {Uploads, Calls, Workers, Senders, Events, Lines,
                                    Workspaces, Subscriptions, Providers}}

-----------------------------------------------------------------------------
(* Properties, with those of the limiter.                                  *)

\* The records, rows, counters and memories of the components hold values
\* of their types, and nothing is claimed more often than its limit allows.
ServicesTypeOK ==
    /\ TypeOK
    /\ On("reprocess") => Reprocess!TypeOK
    /\ On("import") => Import!TypeOK
    /\ Batches!TypeOK /\ Webhooks!TypeOK

\* A completed file's image, page and job are whole, all of the attempt that
\* completed it, and what every response for it named; no other file has left an
\* image behind.  The batch is complete exactly when all of its files are, and a
\* canceled one has no job pending or running.  No other request takes away the
\* file or the image of a live lease (internal/store/upload_batches.go).
BatchesHold ==
    /\ [](Batches!CompletedFilesWhole /\ Batches!ImagesHaveOwners /\ Batches!BatchMatchesFiles)
    /\ Batches!OwnersAreUndisturbed

\* What was done is not done again.  Every answer under a key names the committed
\* result of what its caller asked for: calls with one key make one item or revision,
\* whoever commits late, and no two imports fetch at the same time
\* (ReserveExternalRequest, CompleteExternalRequest).  No checkpointed line is sent to
\* the provider again, and a commit accounts for every line of the page
\* (internal/server/transcription_service.go).
DoneOnce ==
    /\ IF On("import") THEN Import!KeysAgree ELSE Reprocess!KeysAgree
    /\ Queue!LinesHold

\* A webhook delivery never outlives its event or its subscription; one marked
\* delivered was accepted by its receiver, which was sent it at most max_attempts
\* times; one that ended is not reopened by a dispatcher that lost its lease
\* (internal/server/events.go).
DeliveriesHold ==
    /\ [](Webhooks!DeliveriesHaveParents /\ Webhooks!PostsMatchMarks)
    /\ Webhooks!EndedDeliveriesStay

=============================================================================
