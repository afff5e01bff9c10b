---------------------------- MODULE UploadStorage ----------------------------
(***************************************************************************)
(* The life of an uploaded image blob and of the quota it occupies: ingest *)
(* requests that reserve, stage, store, resize and commit; the cleanup     *)
(* outbox row that owns a blob no image references; the dispatchers that   *)
(* retire blobs under a lease; deletion of images, and the sweep of        *)
(* expired reservations.                                                   *)
(*                                                                         *)
(* Every request draws a new immutable upload name, so a request stands    *)
(* for its upload.  One workspace: the global counters move by the same    *)
(* amounts in the same transactions.  A step of the model is a database    *)
(* transaction (they all take the quota guards) or a write of the blob.    *)
(***************************************************************************)
EXTENDS Integers, FiniteSets, FiniteSetsExt

CONSTANTS
  Requests,            \* ingest requests, each with its upload
  Dispatchers,         \* cleanup workers
  MaxBytes,            \* storage.max_bytes_per_workspace
  MaxImages,           \* storage.max_images_per_workspace
  Sizes,               \* bound: the sizes of images and of page text
  MaxAttempts,         \* resource_cleanup_outbox.max_attempts
  ReservationTTL,      \* storage.reservation_ttl in ticks
  LeaseTime,           \* resourceCleanupLease in ticks
  OperationTime,       \* resourceCleanupOperationTimeout in ticks
  RetryTime,           \* resourceCleanupRetryDelay in ticks
  SweepRuns,           \* whether anything calls the sweep; no process of the repository does
  NoOne

StorageAssumption ==
  /\ IsFiniteSet(Requests) /\ NoOne \notin Dispatchers
  /\ MaxBytes \in Nat /\ MaxImages \in Nat /\ Sizes \subseteq Nat \ {0}
  /\ MaxAttempts \in Nat \ {0} /\ ReservationTTL \in Nat \ {0} /\ RetryTime \in Nat
  /\ OperationTime \in Nat \ {0} /\ LeaseTime \in Nat /\ OperationTime < LeaseTime
  /\ SweepRuns \in BOOLEAN

VARIABLES
  pc,           \* where each request is
  size,         \* the bytes of each upload, 0 before it is staged
  reservation,  \* workspace_storage_reservations
  cleanup,      \* the upload's resource_cleanup_outbox row
  image,        \* the item_images row that references the upload, with its durable text
  blob,         \* whether the blob is stored
  quota,        \* the workspace's storage_quota_usage row
  worker        \* what each dispatcher is doing

vars == <<pc, size, reservation, cleanup, image, blob, quota, worker>>

NoReservation == [held |-> FALSE, bytes |-> 0, images |-> 0, bound |-> FALSE, ttl |-> 0]
NoRow == [status |-> "none", due |-> 0, lease |-> 0, attempts |-> 0, owner |-> NoOne, fenced |-> FALSE]
NoImage == [exists |-> FALSE, text |-> 0]
Idle == [pc |-> "idle", key |-> NoOne, left |-> 0]

Init ==
  /\ pc = [r \in Requests |-> "idle"]
  /\ size = [r \in Requests |-> 0]
  /\ reservation = [r \in Requests |-> NoReservation]
  /\ cleanup = [r \in Requests |-> NoRow]
  /\ image = [r \in Requests |-> NoImage]
  /\ blob = [r \in Requests |-> FALSE]
  /\ quota = [upload |-> 0, text |-> 0, images |-> 0, heldBytes |-> 0, heldImages |-> 0]
  /\ worker = [d \in Dispatchers |-> Idle]

--------------------------------------------------------------------------------
(* Quota counters and the cleanup row *)

\* checkStorageQuotaCounters on the counters as they would become.
Fits(q) == /\ q.upload + q.text + q.heldBytes <= MaxBytes
           /\ q.images + q.heldImages <= MaxImages

\* The counters without the capacity r's reservation holds.
Unheld(r) == [quota EXCEPT !.heldBytes = @ - reservation[r].bytes, !.heldImages = @ - reservation[r].images]

Live(r) == reservation[r].held /\ reservation[r].ttl > 0
Queued(r) == cleanup[r].status # "none"

Later(s, t) == IF s > t THEN s ELSE t

\* UpsertResourceCleanup: a fence outlives the upsert, the claim does not, and
\* the replacement waits for the lease the row holds.
Upsert(r, due) ==
  cleanup' = [cleanup EXCEPT ![r] =
    [NoRow EXCEPT !.status = "pending", !.due = Later(due, cleanup[r].lease), !.fenced = cleanup[r].fenced]]

--------------------------------------------------------------------------------
(* An ingest request *)

Goto(r, step) == pc' = [pc EXCEPT ![r] = step]

\* A timing assumption: a request is over long before the hours of its
\* reservation are, so its upload was not retired behind its back.
InTime(r) == Queued(r) \/ image[r].exists

Reserve(r, n) ==
  LET q == [quota EXCEPT !.heldBytes = @ + n, !.heldImages = @ + 1]
  IN /\ pc[r] = "idle" /\ Fits(q)
     /\ quota' = q
     /\ reservation' = [reservation EXCEPT ![r] =
          [held |-> TRUE, bytes |-> n, images |-> 1, bound |-> FALSE, ttl |-> ReservationTTL]]
     /\ Goto(r, "reserved")
     /\ UNCHANGED <<size, cleanup, image, blob, worker>>

\* Before the first write the reserved bytes become the used bytes of a cleanup
\* row that is due when the reservation ends.  The name is new: no row has it.
Stage(r, n) ==
  LET q == [quota EXCEPT !.upload = @ + n, !.heldBytes = @ - reservation[r].bytes]
  IN /\ pc[r] = "reserved" /\ Live(r) /\ n <= reservation[r].bytes /\ Fits(q)
     /\ quota' = q
     /\ Upsert(r, reservation[r].ttl)
     /\ reservation' = [reservation EXCEPT ![r].bytes = 0, ![r].bound = TRUE]
     /\ size' = [size EXCEPT ![r] = n]
     /\ Goto(r, "staged")
     /\ UNCHANGED <<image, blob, worker>>

\* Likewise for the blob write, which takes seconds of them.
WriteInTime(r) == Queued(r) /\ ~cleanup[r].fenced

PutBlob(r) ==
  /\ pc[r] = "staged" /\ WriteInTime(r)
  /\ blob' = [blob EXCEPT ![r] = TRUE]
  /\ Goto(r, "stored")
  /\ UNCHANGED <<size, reservation, cleanup, image, quota, worker>>

\* A failed write deletes what was written, if it can, and names the upload in
\* the error it returns.
WriteFails(r) ==
  /\ pc[r] = "staged" /\ WriteInTime(r)
  /\ \E remains \in BOOLEAN : blob' = [blob EXCEPT ![r] = remains]
  /\ Goto(r, "enqueue")
  /\ UNCHANGED <<size, reservation, cleanup, image, quota, worker>>

\* So does a failed segmentation.
ProcessingFails(r) ==
  /\ pc[r] = "stored"
  /\ UNCHANGED blob \/ blob' = [blob EXCEPT ![r] = FALSE]
  /\ Goto(r, "enqueue")
  /\ UNCHANGED <<size, reservation, cleanup, image, quota, worker>>

\* The staged bytes are exact already; what changes is the deadline, and an
\* expired reservation that was not swept yet comes back to life.
Resize(r) ==
  /\ pc[r] = "stored" /\ reservation[r].held /\ Queued(r) /\ ~cleanup[r].fenced /\ Fits(quota)
  /\ cleanup' = [cleanup EXCEPT ![r].due = Later(@, ReservationTTL)]
  /\ reservation' = [reservation EXCEPT ![r].ttl = ReservationTTL]
  /\ Goto(r, "sized")
  /\ UNCHANGED <<size, image, blob, quota, worker>>

\* The failed call overwrites the handler's reservation with an empty one, so
\* nothing is released when the handler returns.
ResizeFails(r) ==
  /\ pc[r] = "stored"
  /\ Goto(r, "lost")
  /\ UNCHANGED <<size, reservation, cleanup, image, blob, quota, worker>>

\* A reference may be created only under a live reservation bound to the
\* upload, while its row is there and not fenced.
BugReferenceable(r) == Live(r) /\ reservation[r].bound /\ Queued(r)
Referenceable(r) == Live(r) /\ reservation[r].bound /\ Queued(r) /\ ~cleanup[r].fenced

\* The answer of a commit may be lost: the handler then compensates.
Answered(r) == \E step \in {"release", "enqueue"} : Goto(r, step)

\* ProcessHOCR commits without a resize.  The row and the reservation go with
\* the commit.
CommitSingleFileIngest(r, n) ==
  LET q == [Unheld(r) EXCEPT !.text = @ + n, !.images = @ + 1]
  IN /\ pc[r] \in {"stored", "sized"} /\ Referenceable(r) /\ Fits(q)
     /\ quota' = q
     /\ image' = [image EXCEPT ![r] = [exists |-> TRUE, text |-> n]]
     /\ cleanup' = [cleanup EXCEPT ![r] = NoRow]
     /\ reservation' = [reservation EXCEPT ![r] = NoReservation]
     /\ Answered(r)
     /\ UNCHANGED <<size, blob, worker>>

\* The image's capacity moves from reserved to used; the row stays for Release.
EnsureUploadBatchImage(r) ==
  /\ pc[r] = "sized" /\ Referenceable(r)
  /\ quota' = [quota EXCEPT !.images = @ + 1, !.heldImages = @ - 1]
  /\ reservation' = [reservation EXCEPT ![r].images = 0]
  /\ image' = [image EXCEPT ![r] = [exists |-> TRUE, text |-> 0]]
  /\ Answered(r)
  /\ UNCHANGED <<size, cleanup, blob, worker>>

CommitFails(r) ==
  /\ pc[r] \in {"stored", "sized"}
  /\ Goto(r, "enqueue")
  /\ UNCHANGED <<size, reservation, cleanup, image, blob, quota, worker>>

\* A reservation, staging or limiter error before anything was written.
GiveUp(r) ==
  /\ pc[r] = "reserved"
  /\ Goto(r, "release")
  /\ UNCHANGED <<size, reservation, cleanup, image, blob, quota, worker>>

\* queueUnreferencedUploads: the row is due at once.  Its error is only logged.
EnqueueUploadCleanup(r) ==
  /\ pc[r] \in {"enqueue", "lost"} /\ InTime(r)
  /\ Upsert(r, 0) \/ UNCHANGED cleanup
  /\ Goto(r, IF pc[r] = "enqueue" THEN "release" ELSE "done")
  /\ UNCHANGED <<size, reservation, image, blob, quota, worker>>

BugRelease(r) ==
  /\ pc[r] = "release"
  /\ quota' = Unheld(r)
  /\ reservation' = [reservation EXCEPT ![r] = NoReservation]
  /\ cleanup' = IF reservation[r].bound THEN [cleanup EXCEPT ![r] = NoRow] ELSE cleanup
  /\ Goto(r, "done")
  /\ UNCHANGED <<size, image, blob, worker>>

\* The staged row is retired only once an image references the upload.
Release(r) ==
  /\ pc[r] = "release"
  /\ quota' = Unheld(r)
  /\ reservation' = [reservation EXCEPT ![r] = NoReservation]
  /\ cleanup' = IF reservation[r].bound /\ image[r].exists THEN [cleanup EXCEPT ![r] = NoRow] ELSE cleanup
  /\ Goto(r, "done")
  /\ UNCHANGED <<size, image, blob, worker>>

\* The process dies, or the release fails, which is only logged.
Die(r) ==
  /\ pc[r] \notin {"idle", "done"}
  /\ Goto(r, "done")
  /\ UNCHANGED <<size, reservation, cleanup, image, blob, quota, worker>>

\* Expired reservations are counted until the sweep deletes them.
Expired(r) == reservation[r].held /\ reservation[r].ttl = 0

Sweep ==
  /\ SweepRuns /\ \E r \in Requests : Expired(r)
  /\ quota' = [quota EXCEPT
       !.heldBytes = @ - SumFunction([r \in Requests |-> IF Expired(r) THEN reservation[r].bytes ELSE 0]),
       !.heldImages = @ - SumFunction([r \in Requests |-> IF Expired(r) THEN reservation[r].images ELSE 0])]
  /\ reservation' = [r \in Requests |-> IF Expired(r) THEN NoReservation ELSE reservation[r]]
  /\ UNCHANGED <<pc, size, cleanup, image, blob, worker>>

--------------------------------------------------------------------------------
(* Committed images *)

BugDeleteImage(r) ==
  /\ image[r].exists
  /\ Upsert(r, 0)
  /\ image' = [image EXCEPT ![r] = NoImage]
  /\ quota' = [quota EXCEPT !.text = @ - image[r].text, !.images = @ - 1, !.upload = @ - size[r]]
  /\ UNCHANGED <<pc, size, reservation, blob, worker>>

\* Deleting an image, an item, or a file's provisional image frees its text and
\* its place; the upload's bytes stay counted until the blob is gone.
DeleteImage(r) ==
  /\ image[r].exists
  /\ Upsert(r, 0)
  /\ image' = [image EXCEPT ![r] = NoImage]
  /\ quota' = [quota EXCEPT !.text = @ - image[r].text, !.images = @ - 1]
  /\ UNCHANGED <<pc, size, reservation, blob, worker>>

BugSaveText(r, n) ==
  /\ image[r].exists /\ n # image[r].text
  /\ quota' = [quota EXCEPT !.text = @ - image[r].text + n]
  /\ image' = [image EXCEPT ![r].text = n]
  /\ UNCHANGED <<pc, size, reservation, cleanup, blob, worker>>

\* Saved pages, OCR runs and ground truth replace an image's durable text; only
\* growth is checked against the limits.
SaveText(r, n) ==
  LET q == [quota EXCEPT !.text = @ - image[r].text + n]
  IN /\ image[r].exists /\ n # image[r].text /\ (n > image[r].text => Fits(q))
     /\ quota' = q
     /\ image' = [image EXCEPT ![r].text = n]
     /\ UNCHANGED <<pc, size, reservation, cleanup, blob, worker>>

--------------------------------------------------------------------------------
(* Cleanup dispatchers *)

BugRecover(row) ==
  IF row.status = "processing" /\ row.lease = 0 /\ row.attempts >= MaxAttempts
  THEN [row EXCEPT !.status = "failed", !.owner = NoOne]
  ELSE row

\* FailExhaustedResourceCleanups puts an upload's row back instead of failing it.
Recover(row) ==
  IF row.status = "processing" /\ row.lease = 0 /\ row.attempts >= MaxAttempts
  THEN [row EXCEPT !.status = "pending", !.due = RetryTime, !.owner = NoOne]
  ELSE row

Claimable(row) ==
  \/ row.status = "pending" /\ row.due = 0
  \/ row.status = "processing" /\ row.lease = 0 /\ row.attempts < MaxAttempts

\* attempt_count only grows between upserts and is compared with MaxAttempts.
More(n) == IF n < MaxAttempts THEN n + 1 ELSE n

ClaimResourceCleanup(d) ==
  LET rows == [r \in Requests |-> Recover(cleanup[r])]
  IN /\ worker[d].pc = "idle"
     /\ \/ \E r \in Requests :
             /\ Claimable(rows[r])
             /\ cleanup' = [rows EXCEPT ![r].status = "processing", ![r].lease = LeaseTime,
                                        ![r].attempts = More(@), ![r].owner = d]
             /\ worker' = [worker EXCEPT ![d] = [pc |-> "begin", key |-> r, left |-> OperationTime]]
        \/ /\ \A r \in Requests : ~Claimable(rows[r])
           /\ rows # cleanup
           /\ cleanup' = rows
           /\ UNCHANGED worker
     /\ UNCHANGED <<pc, size, reservation, image, blob, quota>>

Become(d, step) == worker' = [worker EXCEPT ![d].pc = step]

\* locked_by is drawn for each claim and cleared by each upsert, so it stands
\* for the row's id and generation too.
Owns(d) == cleanup[worker[d].key].status = "processing" /\ cleanup[worker[d].key].owner = d

BeginUploadBlobRetirement(d) ==
  LET r == worker[d].key
  IN /\ worker[d].pc = "begin" /\ worker[d].left > 0
     /\ \/ /\ ~Owns(d)
           /\ Become(d, "retry")
           /\ UNCHANGED cleanup
        \/ /\ Owns(d) /\ image[r].exists /\ ~cleanup[r].fenced
           /\ Become(d, "keep")
           /\ UNCHANGED cleanup
        \/ /\ Owns(d) /\ (~image[r].exists \/ cleanup[r].fenced)
           /\ Become(d, "delete")
           /\ cleanup' = [cleanup EXCEPT ![r].fenced = TRUE]
     /\ UNCHANGED <<pc, size, reservation, image, blob, quota>>

DeleteStoredUpload(d) ==
  /\ worker[d].pc = "delete" /\ worker[d].left > 0
  /\ blob' = [blob EXCEPT ![worker[d].key] = FALSE]
  /\ Become(d, "complete")
  /\ UNCHANGED <<pc, size, reservation, cleanup, image, quota>>

\* Removes the fenced row and frees its bytes, or neither: a lost claim or a
\* counter below the bytes rolls back.
CompleteFenced(d) ==
  LET r == worker[d].key
      ok == Owns(d) /\ cleanup[r].fenced /\ quota.upload >= size[r]
  IN /\ worker[d].pc = "complete"
     /\ cleanup' = IF ok THEN [cleanup EXCEPT ![r] = NoRow] ELSE cleanup
     /\ quota' = IF ok THEN [quota EXCEPT !.upload = @ - size[r]] ELSE quota
     /\ worker' = [worker EXCEPT ![d] = Idle]
     /\ UNCHANGED <<pc, size, reservation, image, blob>>

\* A referenced upload keeps its bytes; only the unfenced row goes.
CompleteReferenced(d) ==
  LET r == worker[d].key
  IN /\ worker[d].pc = "keep"
     /\ cleanup' = IF Owns(d) /\ ~cleanup[r].fenced THEN [cleanup EXCEPT ![r] = NoRow] ELSE cleanup
     /\ worker' = [worker EXCEPT ![d] = Idle]
     /\ UNCHANGED <<pc, size, reservation, image, blob, quota>>

\* A deletion may fail before or after the blob is gone, or run out of time.
CleanupFails(d) ==
  /\ worker[d].pc \in {"begin", "delete"}
  /\ \/ UNCHANGED blob
     \/ worker[d].pc = "delete" /\ blob' = [blob EXCEPT ![worker[d].key] = FALSE]
  /\ Become(d, "retry")
  /\ UNCHANGED <<pc, size, reservation, cleanup, image, quota>>

RetryResourceCleanup(d) ==
  LET r == worker[d].key
  IN /\ worker[d].pc = "retry"
     /\ cleanup' = IF Owns(d)
                   THEN [cleanup EXCEPT ![r].status = "pending", ![r].due = RetryTime, ![r].lease = 0,
                                        ![r].owner = NoOne]
                   ELSE cleanup
     /\ worker' = [worker EXCEPT ![d] = Idle]
     /\ UNCHANGED <<pc, size, reservation, image, blob, quota>>

Crash(d) ==
  /\ worker[d].pc # "idle"
  /\ worker' = [worker EXCEPT ![d] = Idle]
  /\ UNCHANGED <<pc, size, reservation, cleanup, image, blob, quota>>

Earlier(t) == IF t = 0 THEN 0 ELSE t - 1

\* One clock for reservations, due times, leases and operation limits.
Tick ==
  /\ \/ \E r \in Requests : reservation[r].ttl > 0 \/ cleanup[r].due > 0 \/ cleanup[r].lease > 0
     \/ \E d \in Dispatchers : worker[d].left > 0
  /\ reservation' = [r \in Requests |-> [reservation[r] EXCEPT !.ttl = Earlier(@)]]
  /\ cleanup' = [r \in Requests |-> [cleanup[r] EXCEPT !.due = Earlier(@), !.lease = Earlier(@)]]
  /\ worker' = [d \in Dispatchers |-> [worker[d] EXCEPT !.left = Earlier(@)]]
  /\ UNCHANGED <<pc, size, image, blob, quota>>

--------------------------------------------------------------------------------

Request(r) ==
  \/ \E n \in Sizes : Reserve(r, n) \/ Stage(r, n) \/ CommitSingleFileIngest(r, n)
  \/ PutBlob(r) \/ WriteFails(r) \/ ProcessingFails(r) \/ Resize(r) \/ ResizeFails(r)
  \/ EnsureUploadBatchImage(r) \/ CommitFails(r) \/ GiveUp(r)
  \/ EnqueueUploadCleanup(r) \/ Release(r) \/ Die(r)

\* What a running dispatcher does by itself; past its limit a cleanup fails.
Work(d) ==
  \/ BeginUploadBlobRetirement(d) \/ DeleteStoredUpload(d)
  \/ CompleteFenced(d) \/ CompleteReferenced(d) \/ RetryResourceCleanup(d)
  \/ worker[d].left = 0 /\ CleanupFails(d)

Next ==
  \/ \E r \in Requests : Request(r) \/ DeleteImage(r) \/ \E n \in Sizes : SaveText(r, n)
  \/ \E d \in Dispatchers : ClaimResourceCleanup(d) \/ Work(d) \/ CleanupFails(d) \/ Crash(d)
  \/ Sweep \/ Tick

Spec == Init /\ [][Next]_vars

\* The worker process polls every two seconds and the sweep, if any, runs.  A
\* step that is tried again and again succeeds in the end: blob storage recovers,
\* and workers do not for ever die, or come after their lease, at the same step.
Fairness ==
  /\ WF_vars(Tick) /\ WF_vars(Sweep)
  /\ \A d \in Dispatchers : WF_vars(ClaimResourceCleanup(d)) /\ WF_vars(Work(d))
  /\ \A r \in Requests : /\ SF_vars(\E d \in Dispatchers : worker[d].key = r /\ BeginUploadBlobRetirement(d))
                         /\ SF_vars(\E d \in Dispatchers : worker[d].key = r /\ DeleteStoredUpload(d))
                         /\ SF_vars(\E d \in Dispatchers : worker[d].key = r /\ CompleteFenced(d) /\ Owns(d))
                         /\ SF_vars(\E d \in Dispatchers : worker[d].key = r /\ CompleteReferenced(d) /\ Owns(d))

FairSpec == Spec /\ Fairness

--------------------------------------------------------------------------------

RowType ==
  [status : {"none", "pending", "processing"}, due : 0 .. Later(ReservationTTL, Later(LeaseTime, RetryTime)),
   lease : 0 .. LeaseTime, attempts : 0 .. MaxAttempts, owner : Dispatchers \cup {NoOne}, fenced : BOOLEAN]

\* Rows and counters hold values of their types; no counter falls below zero.
TypeOK ==
  /\ pc \in [Requests -> {"idle", "reserved", "staged", "stored", "sized", "enqueue", "lost", "release", "done"}]
  /\ size \in [Requests -> Sizes \cup {0}]
  /\ reservation \in [Requests -> [held : BOOLEAN, bytes : Sizes \cup {0}, images : 0 .. 1, bound : BOOLEAN,
                                   ttl : 0 .. ReservationTTL]]
  /\ cleanup \in [Requests -> RowType]
  /\ image \in [Requests -> [exists : BOOLEAN, text : Sizes \cup {0}]]
  /\ blob \in [Requests -> BOOLEAN]
  /\ quota \in [upload : Nat, text : Nat, images : Nat, heldBytes : Nat, heldImages : Nat]
  /\ worker \in [Dispatchers -> [pc : {"idle", "begin", "delete", "complete", "keep", "retry"},
                                 key : Requests \cup {NoOne}, left : 0 .. OperationTime]]

\* What RebuildStorageQuotaUsage would compute: an upload counts once while an
\* image or a cleanup row holds it, extant reservations count until deleted.
Rebuilt ==
  [upload |-> SumFunction([r \in Requests |-> IF Queued(r) \/ image[r].exists THEN size[r] ELSE 0]),
   text |-> SumFunction([r \in Requests |-> image[r].text]),
   images |-> Cardinality({r \in Requests : image[r].exists}),
   heldBytes |-> SumFunction([r \in Requests |-> reservation[r].bytes]),
   heldImages |-> SumFunction([r \in Requests |-> reservation[r].images])]

\* The counters never drift from the rows they materialize, whatever was
\* committed, compensated, swept, retired or lost on the way: "Those bytes
\* continue to consume both workspace and global quota through retries,
\* including expired cleanup leases" (docs/operations/job-recovery.md).
CountersMatchRows == quota = Rebuilt

\* A committed image always finds its blob, and no worker is about to delete it:
\* the delete fence and the commit exclude each other.
ReferencedBlobsStay ==
  \A r \in Requests : image[r].exists =>
    /\ blob[r]
    /\ \A d \in Dispatchers : worker[d].key = r => worker[d].pc \notin {"delete", "complete"}

\* A stored blob is never an orphan: an image references it, or a cleanup row
\* will retire it, even when a request or a worker dies at any step.
StoredBlobsOwned == \A r \in Requests : blob[r] => Queued(r) \/ image[r].exists

\* What is stored and what is reserved stay within the workspace's limits.
WithinLimits ==
  /\ SumFunction([r \in Requests |->
        (IF blob[r] THEN size[r] ELSE 0) + image[r].text + reservation[r].bytes]) <= MaxBytes
  /\ Cardinality({r \in Requests : image[r].exists}) <= MaxImages

\* The quota's counters equal a recount of the rows they materialize and stay
\* within the limits (internal/store/storage_quota.go).
QuotaIsExact == CountersMatchRows /\ WithinLimits

\* Every stored blob has a row that references it or will clean it up, and no
\* cleanup worker takes the blob of a committed image (store/resource_cleanup.go).
BlobsHaveOwners == StoredBlobsOwned /\ ReferencedBlobsStay

\* Once a request is over its row is retired, and its blob removed unless an
\* image references it.
UploadsSettle ==
  \A r \in Requests : pc[r] = "done" ~> ~Queued(r) /\ (blob[r] => image[r].exists)

\* "A stale reservation is capacity-safe and expires automatically", says
\* releaseStorageQuota when a release fails: its capacity comes back.
ReservationsExpire == \A r \in Requests : pc[r] = "done" ~> ~reservation[r].held

================================================================================
