--------------------------- MODULE UploadBatches ---------------------------
(***************************************************************************)
(* One resumable upload batch: the declared files, the upload requests     *)
(* that process them under a lease, the image, OCR run, annotation page    *)
(* and transcription job each of them leaves in the database, and the      *)
(* client's cancellation (internal/store/upload_batches.go and the         *)
(* UploadItemImage handler in internal/server/connect_items.go).           *)
(*                                                                         *)
(* One action is one database transaction.  A lease owner is a fresh UUID  *)
(* for every claim, so it is modelled by the attempt number the claim      *)
(* assigns; an image is identified by the attempt that inserted it.        *)
(***************************************************************************)
EXTENDS Integers, FiniteSets

CONSTANTS
    Files,        \* the declared sequences of the batch
    Requests,     \* upload requests that may be in flight at once
    MaxAttempts,  \* upload_batch_files.max_attempts
    LeaseTime     \* uploadBatchFileLeaseDuration, in ticks

BatchAssumption ==
    /\ Files # {} /\ IsFiniteSet(Files)
    /\ MaxAttempts \in Nat \ {0}
    /\ LeaseTime \in Nat \ {0}

VARIABLES
    batch,    \* upload_batches.status, "none" before the batch is declared
    file,     \* upload_batch_files
    page,     \* item_images and what hangs from it, by sequence
    request,  \* the memory of each upload request
    answers   \* history: the images answered to the client for each file

vars == <<batch, file, page, request, answers>>

Attempt == 0 .. MaxAttempts          \* 0 is NULL
Parts == {"ocr", "annotations"}
Incomplete == {"pending", "processing", "failed"}
ActiveJob == {"pending", "running"}
Steps == {"process", "image", "ocr", "annotate", "enqueue", "complete"}

NoPage == [image |-> 0, parts |-> {}, job |-> "none"]
NewFile == [status |-> "pending", attempts |-> 0, lock |-> 0, lease |-> -1, image |-> 0]
Idle == [pc |-> "idle", file |-> CHOOSE f \in Files : TRUE, attempt |-> 0,
         renewed |-> FALSE, image |-> 0]

\* The batch, its files and pages and the requests' memory hold values of their
\* types; no file is claimed more than MaxAttempts times.
TypeOK ==
    /\ batch \in {"none", "in_progress", "completed", "canceled"}
    /\ file \in [Files -> [status : Incomplete \cup {"completed", "canceled"},
                           attempts : Attempt, lock : Attempt,
                           lease : -1 .. LeaseTime, image : Attempt]]
    /\ page \in [Files -> [image : Attempt, parts : SUBSET Parts,
                           job : ActiveJob \cup {"none", "canceled", "settled"}]]
    /\ request \in [Requests -> [pc : Steps \cup {"idle", "abort"}, file : Files,
                                 attempt : Attempt, renewed : BOOLEAN, image : Attempt]]
    /\ answers \in [Files -> SUBSET Attempt]

Init ==
    /\ batch = "none"
    /\ file = [f \in Files |-> NewFile]
    /\ page = [f \in Files |-> NoPage]
    /\ request = [r \in Requests |-> Idle]
    /\ answers = [f \in Files |-> {}]

-----------------------------------------------------------------------------
\* A lease counts down to 0, the second at which lease_until = NOW(), and then
\* to -1.  The fence asks for lease_until > NOW(), a reclaim for < NOW().

LiveLease(f) == file[f].lease > 0

Expired(f) == file[f].lease < 0

\* lockActiveUploadBatchFileAttempt: the request still owns its file.
Active(r) ==
    LET f == request[r].file IN
    /\ batch = "in_progress"
    /\ file[f].status = "processing"
    /\ file[f].lock = request[r].attempt
    /\ LiveLease(f)

\* The image row the request inserted is still there.
HasImage(r) == page[request[r].file].image = request[r].image

At(r, step) == request[r].pc = step /\ request[r].renewed

\* The request goes on to the next step, which renews the lease first.
Advance(r, step) == [request EXCEPT ![r].pc = step, ![r].renewed = FALSE]

-----------------------------------------------------------------------------
\* StartUploadBatch: the batch and every file it declares, in one transaction.
\* A repeated call finds the row and changes nothing.
StartUploadBatch ==
    /\ batch = "none"
    /\ batch' = "in_progress"
    /\ UNCHANGED <<file, page, request, answers>>

Claimable(f) ==
    /\ file[f].attempts < MaxAttempts
    /\ \/ file[f].status \in {"pending", "failed"}
       \/ file[f].status = "processing" /\ Expired(f)

BugClaimUploadBatchFile(r, f) ==
    /\ request[r].pc = "idle"
    /\ batch = "in_progress" /\ Claimable(f)
    /\ file' = [file EXCEPT ![f].status = "processing", ![f].image = 0,
                            ![f].attempts = @ + 1, ![f].lock = file[f].attempts + 1,
                            ![f].lease = LeaseTime]
    /\ request' = [request EXCEPT ![r] = [Idle EXCEPT !.pc = "process", !.file = f,
                                          !.attempt = file[f].attempts + 1]]
    /\ UNCHANGED <<batch, page, answers>>

\* A claim removes the image a former attempt left before the file changes
\* owners.  Every refusal of the code leaves the rows as they were.
ClaimUploadBatchFile(r, f) ==
    /\ request[r].pc = "idle"
    /\ batch = "in_progress" /\ Claimable(f)
    /\ page' = [page EXCEPT ![f] = NoPage]
    /\ file' = [file EXCEPT ![f] = [status |-> "processing", attempts |-> @.attempts + 1,
                                    lock |-> @.attempts + 1, lease |-> LeaseTime, image |-> 0]]
    /\ request' = [request EXCEPT ![r] = [Idle EXCEPT !.pc = "process", !.file = f,
                                          !.attempt = file[f].attempts + 1]]
    /\ UNCHANGED <<batch, answers>>

\* The file is already complete: the committed response is sent again.
ReplayCompleted(r, f) ==
    /\ request[r].pc = "idle"
    /\ batch \in {"in_progress", "completed"}
    /\ file[f].status = "completed"
    /\ page[f].image = file[f].image
    /\ answers' = [answers EXCEPT ![f] = @ \cup {file[f].image}]
    /\ UNCHANGED <<batch, file, page, request>>

\* The renewal before each step, by the request itself.
RenewUploadBatchFileLease(r) ==
    /\ request[r].pc \in Steps /\ ~request[r].renewed
    /\ Active(r)
    /\ file' = [file EXCEPT ![request[r].file].lease = LeaseTime]
    /\ request' = [request EXCEPT ![r].renewed = TRUE]
    /\ UNCHANGED <<batch, page, answers>>

\* The renewal by the heartbeat, at any moment after the first one.
Heartbeat(r) ==
    /\ request[r].pc \in Steps
    /\ request[r].pc = "process" => request[r].renewed
    /\ Active(r)
    /\ file' = [file EXCEPT ![request[r].file].lease = LeaseTime]
    /\ UNCHANGED <<batch, page, request, answers>>

\* Segmentation, the blob and the quota: nothing of the batch changes.
ProcessUpload(r) ==
    /\ At(r, "process")
    /\ request' = Advance(r, "image")
    /\ UNCHANGED <<batch, file, page, answers>>

\* The insert keeps the row it finds, and the request goes on with that row.
EnsureUploadBatchImage(r) ==
    LET f == request[r].file
        image == IF page[f].image = 0 THEN request[r].attempt ELSE page[f].image IN
    /\ At(r, "image") /\ Active(r)
    /\ page' = [page EXCEPT ![f].image = image]
    /\ request' = [Advance(r, "ocr") EXCEPT ![r].image = image]
    /\ UNCHANGED <<batch, file, answers>>

\* The OCR run asks for the image row, not for the lease.
CreateOCRRun(r) ==
    /\ At(r, "ocr") /\ HasImage(r)
    /\ page' = [page EXCEPT ![request[r].file].parts = @ \cup {"ocr"}]
    /\ request' = Advance(r, "annotate")
    /\ UNCHANGED <<batch, file, answers>>

\* So does the initial annotation page.
CreateInitialAnnotationPage(r) ==
    /\ At(r, "annotate") /\ HasImage(r)
    /\ page' = [page EXCEPT ![request[r].file].parts = @ \cup {"annotations"}]
    /\ request' = Advance(r, "enqueue")
    /\ UNCHANGED <<batch, file, answers>>

CreateForUploadBatchFile(r) ==
    LET f == request[r].file IN
    /\ At(r, "enqueue") /\ Active(r) /\ HasImage(r)
    /\ "annotations" \in page[f].parts
    /\ page' = [page EXCEPT ![f].job = "pending"]
    /\ request' = Advance(r, "complete")
    /\ UNCHANGED <<batch, file, answers>>

\* CompleteUploadBatchIfReadyManual, once f is complete.
BatchReady(f) == \A g \in Files \ {f} : file[g].status = "completed"

\* The completion commits; its answer may still be lost, and then the handler
\* goes on to abort the attempt.
CompleteUploadBatchFile(r, answered) ==
    LET f == request[r].file IN
    /\ At(r, "complete") /\ Active(r) /\ HasImage(r)
    /\ page[f].job # "none"
    /\ file' = [file EXCEPT ![f].status = "completed", ![f].lock = 0, ![f].lease = -1,
                            ![f].image = request[r].image]
    /\ batch' = IF BatchReady(f) THEN "completed" ELSE batch
    /\ answers' = IF answered THEN [answers EXCEPT ![f] = @ \cup {request[r].image}] ELSE answers
    /\ request' = [request EXCEPT ![r] = IF answered THEN Idle ELSE [@ EXCEPT !.pc = "abort"]]
    /\ UNCHANGED page

-----------------------------------------------------------------------------
\* Any step may fail: a refused fence, a provider error, a full quota, the
\* client gone.  The deferred abort is the next thing the request does.
Fail(r) ==
    /\ request[r].pc \in Steps
    /\ request' = [request EXCEPT ![r].pc = "abort"]
    /\ UNCHANGED <<batch, file, page, answers>>

BugOwnsAttempt(r) == file[request[r].file].status \in {"processing", "completed"}

\* The abort's own fence: the owner, whether or not its lease is still live.
OwnsAttempt(r) ==
    /\ batch = "in_progress"
    /\ file[request[r].file].status = "processing"
    /\ file[request[r].file].lock = request[r].attempt

BugAbortCleansImage(f) == page

\* cleanupUploadBatchFileImage
AbortCleansImage(f) == [page EXCEPT ![f] = NoPage]

AbortUploadBatchFileAttempt(r) ==
    LET f == request[r].file IN
    /\ request[r].pc = "abort"
    /\ request' = [request EXCEPT ![r] = Idle]
    /\ \/ /\ OwnsAttempt(r)
          /\ page' = AbortCleansImage(f)
          /\ file' = [file EXCEPT ![f].status = "failed", ![f].lock = 0, ![f].lease = -1,
                                  ![f].image = 0]
       \/ /\ ~OwnsAttempt(r)
          /\ UNCHANGED <<file, page>>
    /\ UNCHANGED <<batch, answers>>

\* The server dies, or the abort itself fails: nothing records the failure.
Crash(r) ==
    /\ request[r].pc # "idle"
    /\ request' = [request EXCEPT ![r] = Idle]
    /\ UNCHANGED <<batch, file, page, answers>>

\* CancelUploadBatch: the batch, the jobs its files are linked to, the images of
\* its incomplete files and those files, in one transaction.
BugCanceledPage(f) ==
    [page[f] EXCEPT !.job = IF @ = "pending" THEN "canceled" ELSE @]

CanceledPage(f) ==
    IF file[f].status = "completed"
    THEN [page[f] EXCEPT !.job = IF @ \in ActiveJob THEN "canceled" ELSE @]
    ELSE NoPage

CancelUploadBatch ==
    /\ batch = "in_progress"
    /\ batch' = "canceled"
    /\ page' = [f \in Files |-> CanceledPage(f)]
    /\ file' = [f \in Files |->
                  IF file[f].status \in Incomplete
                  THEN [file[f] EXCEPT !.status = "canceled", !.lock = 0, !.lease = -1, !.image = 0]
                  ELSE file[f]]
    /\ UNCHANGED <<request, answers>>

\* A worker claims the job, also one whose file is not complete yet.
RunJob(f) ==
    /\ page[f].job = "pending"
    /\ page' = [page EXCEPT ![f].job = "running"]
    /\ UNCHANGED <<batch, file, request, answers>>

\* The attempt ends: the job is terminal, or pending for a retry.
SettleJob(f) ==
    /\ page[f].job = "running"
    /\ \E outcome \in {"settled", "pending"} : page' = [page EXCEPT ![f].job = outcome]
    /\ UNCHANGED <<batch, file, request, answers>>

Tick ==
    /\ \E f \in Files : file[f].lease >= 0
    /\ file' = [f \in Files |-> [file[f] EXCEPT !.lease = IF @ >= 0 THEN @ - 1 ELSE @]]
    /\ UNCHANGED <<batch, page, request, answers>>

Step(r) ==
    \/ RenewUploadBatchFileLease(r)
    \/ ProcessUpload(r)
    \/ EnsureUploadBatchImage(r)
    \/ CreateOCRRun(r)
    \/ CreateInitialAnnotationPage(r)
    \/ CreateForUploadBatchFile(r)
    \/ \E answered \in BOOLEAN : CompleteUploadBatchFile(r, answered)
    \/ Fail(r)
    \/ AbortUploadBatchFileAttempt(r)

Next ==
    \/ StartUploadBatch
    \/ CancelUploadBatch
    \/ Tick
    \/ \E f \in Files : RunJob(f) \/ SettleJob(f)
    \/ \E r \in Requests : Step(r) \/ Heartbeat(r) \/ Crash(r)
    \/ \E r \in Requests, f \in Files : ClaimUploadBatchFile(r, f) \/ ReplayCompleted(r, f)

Spec == Init /\ [][Next]_vars

\* Clients keep resubmitting the files that are not complete, a request in
\* flight goes on, fails or dies, and time passes.
Fairness ==
    /\ WF_vars(StartUploadBatch)
    /\ WF_vars(Tick)
    /\ \A r \in Requests : WF_vars(Step(r))
    /\ \A f \in Files : SF_vars(\E r \in Requests : ClaimUploadBatchFile(r, f))

FairSpec == Spec /\ Fairness

-----------------------------------------------------------------------------
\* A completed file has an image with its OCR run, its annotation page and a
\* job, and every one of them was made by the attempt that completed it: no
\* reclaimed attempt inherits what an expired one wrote (ClaimUploadBatchFile).
\* Every successful response for it names that image, however many responses are
\* lost and however often the file is sent again.
CompletedFilesWhole ==
    \A f \in Files : file[f].status = "completed" =>
        /\ page[f].image = file[f].image
        /\ file[f].image = file[f].attempts
        /\ page[f].parts = Parts
        /\ page[f].job # "none"
        /\ answers[f] \subseteq {file[f].image}

\* An image that exists is the current attempt's, and its file is in progress or
\* complete: a failed, pending or canceled file has left nothing behind
\* (cleanupUploadBatchFileImage, CancelUploadBatch).
ImagesHaveOwners ==
    \A f \in Files : page[f].image # 0 =>
        /\ file[f].status \in {"processing", "completed"}
        /\ page[f].image = file[f].attempts

\* A request whose lease is live loses its file, or the image it inserted, only
\* by a step of its own, by the client's cancellation or by time: no claim, late
\* abort or late write of another request takes it away
\* (AbortUploadBatchFileAttempt: "a stale request can never delete its
\* successor's image").
OwnersAreUndisturbed ==
    [][\A r \in Requests :
          (Active(r) /\ request'[r] = request[r]) =>
              \/ Active(r)' /\ page'[request[r].file].image = page[request[r].file].image
              \/ batch' = "canceled"
              \/ page' = page /\ file'[request[r].file].lease = 0]_vars

\* The batch is complete exactly when all of its files are
\* (CompleteUploadBatchIfReadyManual).  A canceled batch has no file left to
\* process and no job pending or running, whichever of its requests and workers
\* were under way when it was canceled.
BatchMatchesFiles ==
    /\ batch = "completed" <=> \A f \in Files : file[f].status = "completed"
    /\ batch = "canceled" => \A f \in Files :
          file[f].status \in {"completed", "canceled"} /\ page[f].job \notin ActiveJob

\* No crash strands a file that has attempts left: a batch whose clients keep
\* resubmitting ends, unless some file has used up its attempts.
BatchSettles ==
    (batch = "in_progress") ~> (batch # "in_progress" \/ \E f \in Files : file[f].attempts = MaxAttempts)

=============================================================================
