--------------------------- MODULE MCJobProgress ----------------------------
(***************************************************************************)
(* That what was started comes to an end, for small instances of the      *)
(* transcription queue, of how jobs reach their workers, of the annotation *)
(* mirror and of upload storage, and what upload storage keeps exact on    *)
(* the way.                                                                *)
(* A behaviour runs one of them, the focus, and the others stay as they     *)
(* were started: no progress of one depends on another, so the product of  *)
(* their states would say no more than their sum.  Fairness is that of the *)
(* component's own module.                                                 *)
(***************************************************************************)
EXTENDS UploadStorage

CONSTANTS
    w1, w2, c1, k1, l1, i1,        \* workers, contexts, a line and an image
    a1,                            \* an annotation
    d1, d2                         \* dispatchers

VARIABLES
    focus,
    written, job, lastJob, attempt, checkpoint, event, jobWorker, editor,
    mode, status, message, invalid, task, sem, recovery, process, faults,
    published, outbox, tombstones, page, child, dispatcher

\* One job, for a line provider or a whole-page provider.
Queue == INSTANCE TranscriptionJobs WITH
    Images <- {i1}, Contexts <- {c1, k1}, PageContexts <- {k1}, Workers <- {w1, w2}, Editors <- {},
    Lines <- {l1}, MaxAttempts <- 2, MaxActive <- 1, MaxTerminal <- 1, LeaseTime <- 1,
    MaxJobs <- 1, MaxRevision <- 1, worker <- jobWorker

\* Two jobs for one slot, polled for, pulled from a subscription or pushed.
Delivery == INSTANCE JobDelivery WITH
    Jobs <- {1, 2}, Tasks <- {w1, w2}, Modes <- {"poll", "pull", "push"}, Workers <- 1, MaxOutstanding <- 1,
    MaxAttempts <- 2, MaxMessages <- 1, MaxFaults <- 1, job <- status

Mirror == INSTANCE AnnotationMirror WITH
    Annotations <- {a1}, Dispatchers <- {d1, d2}, MaxAttempts <- 2, LeaseTime <- 2,
    OperationTime <- 1, RetryTime <- 1, BackToBack <- FALSE, MaxPublished <- 2

ASSUME
    /\ Delivery!JobDeliveryAssumption /\ Mirror!MirrorAssumption /\ StorageAssumption

queue == <<written, job, lastJob, attempt, checkpoint, event, jobWorker, editor>>
deliveries == <<status, message, invalid, task, sem, recovery, process, faults>>
mirror == <<published, outbox, tombstones, page, child, dispatcher>>
progress == <<focus, mode, queue, deliveries, mirror, vars>>

On(component) == focus = component

ProgressInit ==
    /\ focus \in {"queue", "delivery", "mirror", "storage"}
    /\ Queue!Init /\ Delivery!Init /\ Mirror!Init /\ Init
    /\ On("delivery") \/ mode = "poll"

ProgressNext ==
    /\ UNCHANGED focus
    /\ IF On("queue") THEN Queue!Next ELSE UNCHANGED queue
    /\ IF On("delivery") THEN Delivery!Next ELSE UNCHANGED <<mode, deliveries>>
    /\ IF On("mirror") THEN Mirror!Next ELSE UNCHANGED mirror
    /\ IF On("storage") THEN Next ELSE UNCHANGED vars

\* The Fairness of each module, while it is the focus.
ProgressFairness ==
    /\ WF_queue(On("queue") /\ \E w \in {w1, w2} : Queue!ClaimNext(w))
    /\ \A w \in {w1, w2} : WF_queue(On("queue") /\ Queue!WorkerStep(w))
    /\ WF_queue(On("queue") /\ Queue!LeaseElapses(1)) /\ WF_queue(On("queue") /\ Queue!RetryElapses(1))
    /\ \A j \in {1, 2} :
         /\ WF_deliveries(On("delivery") /\ Delivery!RetryElapses(j))
         /\ WF_deliveries(On("delivery") /\ Delivery!LeaseElapses(j))
         /\ WF_deliveries(On("delivery") /\ Delivery!RunWorkerMaintenance(j))
         /\ WF_deliveries(On("delivery") /\ \E t \in {w1, w2} : Delivery!ReceiveTranscriptionJobs(t, j))
    /\ \A t \in {w1, w2} : WF_deliveries(On("delivery") /\ Delivery!TaskStep(t))
    /\ WF_deliveries(On("delivery") /\ \E t \in {w1, w2} : Delivery!transcriptionWorkerLoop(t))
    /\ WF_deliveries(On("delivery") /\ Delivery!transcriptionRecoveryLoop)
    /\ WF_deliveries(On("delivery") /\ Delivery!ClaimNextPendingOlderThan)
    /\ WF_deliveries(On("delivery") /\ Delivery!WaitForBackgroundWorkers)
    /\ WF_deliveries(On("delivery") /\ Delivery!StartTranscriptionWorker)
    /\ WF_mirror(On("mirror") /\ Mirror!FailExhausted) /\ WF_mirror(On("mirror") /\ Mirror!Tick)
    /\ WF_mirror(On("mirror") /\ \E d \in {d1, d2} : Mirror!Claim(d))
    /\ \A d \in {d1, d2} : WF_mirror(On("mirror") /\ Mirror!Deliver(d))
    /\ WF_vars(On("storage") /\ Tick)
    /\ \A d \in Dispatchers :
         /\ WF_vars(On("storage") /\ ClaimResourceCleanup(d))
         /\ WF_vars(On("storage") /\ Work(d))
    /\ SF_vars(On("storage") /\ \E d \in Dispatchers : BeginUploadBlobRetirement(d))
    /\ SF_vars(On("storage") /\ \E d \in Dispatchers : DeleteStoredUpload(d))
    /\ SF_vars(On("storage") /\ \E d \in Dispatchers : CompleteFenced(d) /\ Owns(d))
    /\ SF_vars(On("storage") /\ \E d \in Dispatchers : CompleteReferenced(d) /\ Owns(d))

ProgressSpec == ProgressInit /\ [][ProgressNext]_progress /\ ProgressFairness

-----------------------------------------------------------------------------
(* Properties, with those of upload storage in every state.                *)

\* Every transcription job ends, whatever workers crash or stall, and however it is
\* delivered to them: polled for, pulled from a subscription or pushed.
JobsSettle == Queue!JobsSettle /\ Delivery!EveryJobEnds

\* What an outbox holds leaves it: a publication is delivered to Triplet or given up,
\* and a finished upload is referenced, or removed with its cleanup row.
OutboxesDrain == Mirror!DeliveryEnds /\ UploadsSettle

=============================================================================
