--------------------------- MODULE ResourceGraph ---------------------------
(***************************************************************************)
(* The rows an item owns, the transactions that add to them and the two    *)
(* that delete them.  There are no foreign keys: internal/store/items.go   *)
(* deletes the graph of an item, or of one of its images, statement by     *)
(* statement in one READ COMMITTED transaction, and every writer of a      *)
(* child row locks the parent it hangs from.  Which locks a writer takes   *)
(* differs from store to store; the module keeps each writer's own list    *)
(* and asks whether the relationship audit of                              *)
(* internal/store/relationship_integrity.go can ever find a child without  *)
(* its parent.                                                             *)
(*                                                                         *)
(* One workspace and one item; a row that hangs from an image is named by  *)
(* the image.  A statement that locks several rows takes them in one step. *)
(* A delete is visible to other transactions when its transaction commits; *)
(* under READ COMMITTED each statement reads what is committed by then.    *)
(* Editor review grants, which also hang from the image, are the subject   *)
(* of EditorReview.                                                        *)
(***************************************************************************)
EXTENDS Integers, Sequences, FiniteSets, FiniteSetsExt

CONSTANTS Procs,      \* requests and workers, one transaction at a time each
          Images,     \* identities of item images, never reused
          MaxTables   \* bound on the tables that hold rows when a writer starts

ResourceGraphAssumption == MaxTables \in Nat /\ IsFiniteSet(Images)

VARIABLES
  item,      \* the item row: "none", "live" or "gone"
  batch,     \* the upload batch row of the item
  images,    \* item_images rows
  added,     \* images ever added
  rows,      \* rows[t]: the images for which table t holds a row
  used,      \* workspace storage counters: items, images, durable bytes
  queue,     \* resource_cleanup_outbox rows, as kind and key
  tx         \* tx[p]: the transaction of process p

vars == <<item, batch, images, added, rows, used, queue, tx>>

-----------------------------------------------------------------------------
(* Tables.  "requestJobs" and "fileJobs" are the nullable job columns of    *)
(* external_requests and upload_batch_files.                                *)

\* internal/store/items.go deleteItemResourceGraph: the child-first order.
DeleteOrder ==
  <<"requests", "files", "checkpoints", "attempts", "jobs", "audits",
    "current", "runs", "mirrors", "tombstones", "published", "index",
    "truth", "pages", "batch", "images">>

Tables == {DeleteOrder[k] : k \in 1 .. 14} \cup {"requestJobs", "fileJobs"}

\* The tables GetItemImageDurableDatabaseBytes sums over.
Durable == {"runs", "pages", "truth", "index", "published", "audits"}

DurableDatabaseBytes(r, S) == MapThenSumSet(LAMBDA t : Cardinality(r[t] \cap S), Durable)

\* The relationships the audit query counts: <<child, parent>>.
AuditRelationshipIntegrity ==
  {<<t, "images">> : t \in Tables}
    \cup {<<"current", "runs">>, <<"index", "pages">>, <<"published", "pages">>,
          <<"checkpoints", "jobs">>, <<"attempts", "jobs">>,
          <<"requestJobs", "jobs">>, <<"fileJobs", "jobs">>,
          <<"requestJobs", "requests">>, <<"fileJobs", "files">>}

-----------------------------------------------------------------------------
(* Locks.  A transaction waits while another holds a conflicting mode.      *)

S(row) == [mode |-> "S", row |-> row]
X(row) == [mode |-> "X", row |-> row]
Image(i) == <<"image", i>>
Job(i) == <<"job", i>>

Idle == [op |-> "idle"]

Conflict(a, b) == a.row = b.row /\ "X" \in {a.mode, b.mode}

Granted(p, want) ==
  \A q \in Procs \ {p} : tx[q] # Idle =>
     \A a \in want, b \in tx[q].held : ~Conflict(a, b)

Exists(row) ==
  CASE row = <<"item">> -> item = "live"
    [] row = <<"batch">> -> batch
    [] row[1] = "image" -> row[2] \in images
    [] row[1] = "job" -> row[2] \in rows["jobs"]
    [] OTHER -> TRUE

Guard == {X(<<"guard">>)}

LockItemForUse == {S(<<"item">>)}
LockItemImageForUse(i) == {S(Image(i))}
LockItemImageDimensions(i) == {X(Image(i))}
LockTranscriptionJobWorkspaceByItemImage(i) == {X(Image(i)), X(<<"item">>), X(<<"ws">>)}
LockActiveTranscriptionJobLease(i) == {X(Job(i))}
LockItemForCleanup == {X(<<"item">>)}
LockItemImageForCleanup(i) == {X(Image(i)), X(<<"item">>)}
ListItemImagesForCleanup == {X(Image(i)) : i \in images}
LockCheckpointJobsForItemResourceGraph(T) == {X(Job(i)) : i \in rows["jobs"] \cap T}
lockActiveUploadBatchFileAttempt == {X(<<"batch">>)}

-----------------------------------------------------------------------------
(* Writers: the locks each takes in order, the rows it finds or gives up,   *)
(* and the rows it adds for the image.                                      *)

Writer(plan, needs, adds) == [plan |-> plan, needs |-> needs, adds |-> adds]

SavePage(i) == Writer(<<Guard, LockItemImageDimensions(i)>>, {}, {"pages", "index"})

SavePageAndComplete(i) ==
  Writer(<<Guard, LockItemImageDimensions(i), LockActiveTranscriptionJobLease(i)>>,
         {"jobs", "pages"}, {"pages", "index", "runs", "current"})

SavePageAndReprocess(i) ==
  Writer(<<Guard, LockItemImageDimensions(i), LockTranscriptionJobWorkspaceByItemImage(i)>>,
         {"pages"}, {"pages", "index", "runs", "current", "jobs"})

PublishPage(i) ==
  Writer(<<Guard, LockItemImageForUse(i)>>, {"pages"}, {"published", "mirrors", "tombstones"})

MarkGroundTruth(i) == Writer(<<Guard, LockItemImageForUse(i)>>, {"pages"}, {"truth"})

CreateOCRRun(i) == Writer(<<Guard, LockItemImageForUse(i)>>, {}, {"runs", "current"})

CreateProviderAudit(i) == Writer(<<Guard, LockItemImageForUse(i)>>, {}, {"audits"})

CreateTranscriptionJob(i) ==
  Writer(<<LockTranscriptionJobWorkspaceByItemImage(i)>>, {}, {"jobs"})

ClaimJob(i) == Writer(<<LockActiveTranscriptionJobLease(i)>>, {"jobs"}, {"attempts"})

BugSaveCheckpoint(i) == Writer(<<LockItemImageForUse(i)>>, {}, {"checkpoints"})
SaveCheckpoint(i) == Writer(<<LockActiveTranscriptionJobLease(i)>>, {"jobs"}, {"checkpoints"})

ReserveExternalRequest(i) ==
  Writer(<<{S(<<"ws">>)}, LockItemImageForUse(i)>>, {}, {"requests"})

CompleteExternalRequest(i) ==
  Writer(<<{S(<<"ws">>)}, LockItemForUse, LockItemImageForUse(i), {S(Job(i))}>>,
         {"requests"}, {"requestJobs"})

CompleteUploadBatchFile(i) ==
  Writer(<<lockActiveUploadBatchFileAttempt, LockItemImageForUse(i), {S(Job(i))}>>,
         {"files"}, {"fileJobs"})

Writers(i) ==
  {SavePage(i), SavePageAndComplete(i), SavePageAndReprocess(i), PublishPage(i),
   MarkGroundTruth(i), CreateOCRRun(i), CreateProviderAudit(i), CreateTranscriptionJob(i),
   ClaimJob(i), SaveCheckpoint(i), ReserveExternalRequest(i), CompleteExternalRequest(i),
   CompleteUploadBatchFile(i)}

\* Writers of the parents: the item with its batch, and the images.
CreateItem == Writer(<<Guard>>, {}, {})
AddImage == Writer(<<Guard, LockItemForUse>>, {}, {})
EnsureUploadBatchImage == Writer(<<Guard, lockActiveUploadBatchFileAttempt, LockItemForUse>>, {}, {"files"})

\* Deletions of single rows: an unmarked ground truth, and audits and jobs
\* beyond what the workspace retains.
UnmarkGroundTruth(i) == Writer(<<Guard, LockItemImageForUse(i)>>, {"truth"}, {"truth"})
RetainProviderAudits(i) == Writer(<<Guard>>, {"audits"}, {"audits"})
RetainTerminalJobs(i) ==
  Writer(<<{X(<<"ws">>)}, {X(Job(i))}>>, {"jobs"},
         {"requestJobs", "fileJobs", "checkpoints", "attempts", "jobs"})

-----------------------------------------------------------------------------
Start(p, op, i, w) ==
  /\ tx[p] = Idle
  /\ tx' = [tx EXCEPT ![p] = [op |-> op, image |-> i, work |-> w, at |-> 1, held |-> {},
                              gone |-> {}, listed |-> {}, bytes |-> 0]]
  /\ UNCHANGED <<item, batch, images, added, rows, used, queue>>

BeginWrite(p, i) ==
  /\ i \in added
  /\ Cardinality({t \in Tables : rows[t] # {}}) < MaxTables
  /\ \E w \in Writers(i) : Start(p, "add", i, w)

BeginTrim(p, i) ==
  /\ i \in added
  /\ \E w \in {UnmarkGroundTruth(i), RetainProviderAudits(i), RetainTerminalJobs(i)} :
        Start(p, "trim", i, w)

BeginItem(p) == item = "none" /\ Start(p, "item", 0, CreateItem)

BeginImage(p, i) ==
  /\ i \notin added
  /\ item # "none"
  /\ \/ Start(p, "image", i, AddImage)
     \/ batch /\ Start(p, "image", i, EnsureUploadBatchImage)

\* Deletions take the quota guards, then the item or the image and its item.
DeleteForWorkspace(p) ==
  /\ item # "none"
  /\ Start(p, "deleteItem", 0, Writer(<<Guard, LockItemForCleanup>>, {}, {}))

DeleteItemImageForWorkspace(p, i) ==
  /\ i \in added
  /\ Start(p, "deleteImage", i, Writer(<<Guard, LockItemImageForCleanup(i)>>, {}, {}))

Locking(p) == tx[p] # Idle /\ tx[p].at <= Len(tx[p].work.plan)

\* One locking statement.  A parent that is gone ends the transaction.
LockNext(p) ==
  /\ Locking(p)
  /\ LET want == tx[p].work.plan[tx[p].at]
     IN  /\ Granted(p, want)
         /\ tx' = [tx EXCEPT ![p] =
                     IF \A a \in want : Exists(a.row)
                     THEN [@ EXCEPT !.held = @ \cup want, !.at = @ + 1]
                     ELSE Idle]
  /\ UNCHANGED <<item, batch, images, added, rows, used, queue>>

Finish(p) == tx' = [tx EXCEPT ![p] = Idle]

\* A writer that holds its locks writes its rows and commits.  Under the
\* quota guards it accounts what it changed.
CommitWrite(p) ==
  /\ tx[p] # Idle
  /\ tx[p].op \in {"add", "trim"}
  /\ ~Locking(p)
  /\ LET t == tx[p]
         i == t.image
         changed == [u \in Tables |->
                       IF u \notin t.work.adds THEN rows[u]
                       ELSE IF t.op = "add" THEN rows[u] \cup {i} ELSE rows[u] \ {i}]
         guarded == Guard \subseteq t.held
     IN  IF \A n \in t.work.needs : i \in rows[n]
         THEN /\ rows' = changed
              /\ used' = IF guarded
                         THEN [used EXCEPT !.bytes = @ + DurableDatabaseBytes(changed, Images)
                                                       - DurableDatabaseBytes(rows, Images)]
                         ELSE used
              /\ queue' = IF "published" \in t.work.adds
                          THEN queue \cup {<<"triplet_item", 0>>} ELSE queue
         ELSE UNCHANGED <<rows, used, queue>>
  /\ Finish(p)
  /\ UNCHANGED <<item, batch, images, added>>

CommitItem(p) ==
  /\ tx[p] # Idle
  /\ tx[p].op = "item"
  /\ ~Locking(p)
  /\ item' = IF item = "none" THEN "live" ELSE item
  /\ batch' \in IF item = "none" THEN BOOLEAN ELSE {batch}
  /\ used' = IF item = "none" THEN [used EXCEPT !.items = @ + 1] ELSE used
  /\ Finish(p)
  /\ UNCHANGED <<images, added, rows, queue>>

CommitImage(p) ==
  /\ tx[p] # Idle
  /\ tx[p].op = "image"
  /\ ~Locking(p)
  /\ LET i == tx[p].image
     IN  IF i \in added THEN UNCHANGED <<images, added, rows, used>>
         ELSE /\ images' = images \cup {i}
              /\ added' = added \cup {i}
              /\ rows' = [u \in Tables |->
                            IF u \in tx[p].work.adds THEN rows[u] \cup {i} ELSE rows[u]]
              /\ used' = [used EXCEPT !.images = @ + 1]
  /\ Finish(p)
  /\ UNCHANGED <<item, batch, queue>>

-----------------------------------------------------------------------------
(* The delete transactions. *)

Deleting(p) == tx[p] # Idle /\ tx[p].op \in {"deleteItem", "deleteImage"} /\ ~Locking(p)

Phase(p) == tx[p].at - Len(tx[p].work.plan)   \* 1: listing, then the statements

Target(p) == IF tx[p].op = "deleteItem" THEN Images ELSE {tx[p].image}

\* The images are listed with their locks, their cleanups queued and their
\* bytes measured; then the jobs are locked.
enqueueImageCleanups(S1) ==
  {<<"upload_blob", i>> : i \in S1} \cup {<<"triplet_image", i>> : i \in S1} \cup {<<"triplet_item", 0>>}

ListForCleanup(p) ==
  /\ Deleting(p)
  /\ Phase(p) = 1
  /\ LET listed == images \cap Target(p)
         want == IF tx[p].op = "deleteItem" THEN ListItemImagesForCleanup ELSE {}
     IN  /\ Granted(p, want)
         /\ tx' = [tx EXCEPT ![p].held = @ \cup want, ![p].at = @ + 1, ![p].listed = listed,
                             ![p].bytes = DurableDatabaseBytes(rows, listed)]
  /\ UNCHANGED <<item, batch, images, added, rows, used, queue>>

LockJobs(p) ==
  /\ Deleting(p)
  /\ Phase(p) = 2
  /\ LET want == LockCheckpointJobsForItemResourceGraph(Target(p) \cap images)
     IN  /\ Granted(p, want)
         /\ tx' = [tx EXCEPT ![p].held = @ \cup want, ![p].at = @ + 1]
  /\ UNCHANGED <<item, batch, images, added, rows, used, queue>>

\* What a statement still sees: committed rows its transaction has not deleted.
Visible(p, t) == {i \in IF t = "images" THEN images ELSE rows[t] : <<t, i>> \notin tx[p].gone}

\* Every statement joins the target images, and some a second parent.
DeleteExternalRequests(p, T) == {"requests", "requestJobs"} \X T
DeleteUploadBatchFiles(p, T) == IF batch THEN {"files", "fileJobs"} \X Images ELSE {}
DetachUploadBatchFiles(p, T) == {"files", "fileJobs"} \X T
DeleteCheckpoints(p, T) == {"checkpoints"} \X (T \cap Visible(p, "jobs"))
DeleteTranscriptionAttempts(p, T) == {"attempts"} \X (T \cap Visible(p, "jobs"))
DeleteTranscriptionJobs(p, T) == {"jobs"} \X T
DeleteProviderAudits(p, T) == {"audits"} \X T
DeleteCurrentOCRRuns(p, T) == {"current"} \X T
DeleteOCRRuns(p, T) == {"runs"} \X T
DeleteAnnotationMirrors(p, T) == {"mirrors"} \X T
DeleteAnnotationMirrorTombstones(p, T) == {"tombstones"} \X T
DeletePublishedPages(p, T) == {"published"} \X T
DeleteAnnotationIndex(p, T) == {"index"} \X T
DeleteGroundTruth(p, T) == {"truth"} \X T
DeleteAnnotationPages(p, T) == {"pages"} \X T
DeleteItemImages(p, T) == {"images"} \X T

deleteItemResourceGraph(p, T) ==
  <<DeleteExternalRequests(p, T),
    IF tx[p].op = "deleteItem" THEN DeleteUploadBatchFiles(p, T) ELSE DetachUploadBatchFiles(p, T),
    DeleteCheckpoints(p, T), DeleteTranscriptionAttempts(p, T), DeleteTranscriptionJobs(p, T),
    DeleteProviderAudits(p, T), DeleteCurrentOCRRuns(p, T), DeleteOCRRuns(p, T),
    DeleteAnnotationMirrors(p, T), DeleteAnnotationMirrorTombstones(p, T),
    DeletePublishedPages(p, T), DeleteAnnotationIndex(p, T), DeleteGroundTruth(p, T),
    DeleteAnnotationPages(p, T), {}, DeleteItemImages(p, T)>>

\* One statement of deleteItemResourceGraph, against the rows committed now.
DeleteStatement(p) ==
  /\ Deleting(p)
  /\ Phase(p) \in 3 .. Len(DeleteOrder) + 2
  /\ LET T == Target(p) \cap Visible(p, "images")
         hit == {r \in deleteItemResourceGraph(p, T)[Phase(p) - 2] : r[2] \in Visible(p, r[1])}
     IN  tx' = [tx EXCEPT ![p].gone = @ \cup hit, ![p].at = @ + 1]
  /\ UNCHANGED <<item, batch, images, added, rows, used, queue>>

\* The parent row goes, the counters drop by what was listed, and all of it
\* commits with the queued cleanups.
CommitDelete(p) ==
  /\ Deleting(p)
  /\ Phase(p) = Len(DeleteOrder) + 3
  /\ LET t == tx[p]
         whole == t.op = "deleteItem"
     IN  /\ item' = IF whole THEN "gone" ELSE item
         /\ batch' = (batch /\ ~whole)
         /\ images' = {i \in images : <<"images", i>> \notin t.gone}
         /\ rows' = [u \in Tables |-> {i \in rows[u] : <<u, i>> \notin t.gone}]
         /\ used' = [items |-> used.items - (IF whole THEN 1 ELSE 0),
                     images |-> used.images - Cardinality(t.listed),
                     bytes |-> used.bytes - t.bytes]
         /\ queue' = queue \cup enqueueImageCleanups(t.listed)
  /\ Finish(p)
  /\ UNCHANGED added

\* A deadlock victim, a cancelled context, a lost connection.
Rollback(p) ==
  /\ tx[p] # Idle
  /\ Finish(p)
  /\ UNCHANGED <<item, batch, images, added, rows, used, queue>>

-----------------------------------------------------------------------------
Init ==
  /\ item = "none"
  /\ batch = FALSE
  /\ images = {}
  /\ added = {}
  /\ rows = [t \in Tables |-> {}]
  /\ used = [items |-> 0, images |-> 0, bytes |-> 0]
  /\ queue = {}
  /\ tx = [p \in Procs |-> Idle]

Next ==
  \E p \in Procs :
     \/ BeginItem(p)
     \/ DeleteForWorkspace(p)
     \/ \E i \in Images : \/ BeginImage(p, i)
                          \/ BeginWrite(p, i)
                          \/ BeginTrim(p, i)
                          \/ DeleteItemImageForWorkspace(p, i)
     \/ LockNext(p)
     \/ CommitItem(p)
     \/ CommitImage(p)
     \/ CommitWrite(p)
     \/ ListForCleanup(p)
     \/ LockJobs(p)
     \/ DeleteStatement(p)
     \/ CommitDelete(p)
     \/ Rollback(p)

Spec == Init /\ [][Next]_vars

-----------------------------------------------------------------------------
\* Rows hang from known images, the counters are natural numbers, and a
\* transaction holds locks only while it runs.
TypeOK ==
  /\ item \in {"none", "live", "gone"}
  /\ batch \in BOOLEAN
  /\ images \subseteq added /\ added \subseteq Images
  /\ rows \in [Tables -> SUBSET Images]
  /\ used \in [items : Nat, images : Nat, bytes : Nat]
  /\ queue \subseteq ({"upload_blob", "triplet_image"} \X Images) \cup {<<"triplet_item", 0>>}
  /\ \A p \in Procs : tx[p] # Idle => tx[p].at \in 1 .. Len(DeleteOrder) + 6

\* AuditRelationshipIntegrity finds nothing between transactions: whatever
\* the interleaving of the thirteen writers with the statements of a
\* deletion, no committed row names an item, image, batch, run, page, job or
\* request that is not there.
NoOrphans ==
  /\ images # {} => item = "live"
  /\ batch => item = "live"
  /\ rows["files"] # {} => batch
  /\ \A r \in AuditRelationshipIntegrity :
        rows[r[1]] \subseteq IF r[2] = "images" THEN images ELSE rows[r[2]]

\* The workspace counters equal a recount of the rows, although a deletion
\* subtracts what it measured before its first delete statement.
CountersMatchGraph ==
  used = [items |-> IF item = "live" THEN 1 ELSE 0,
          images |-> Cardinality(images),
          bytes |-> DurableDatabaseBytes(rows, Images)]

\* An image row disappears only together with the cleanups of its blob and
\* of its published resources: the images DELETE removes by item are the
\* images that were listed for cleanup earlier in the transaction.
DeletedAreQueued ==
  \A i \in added \ images :
     {<<"upload_blob", i>>, <<"triplet_image", i>>, <<"triplet_item", 0>>} \subseteq queue

\* What deleteItemResourceGraph takes away is taken away whole, with its counts and
\* with its cleanups queued.
DeletionIsWhole == CountersMatchGraph /\ DeletedAreQueued
=============================================================================
