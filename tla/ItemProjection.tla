--------------------------- MODULE ItemProjection ---------------------------
(***************************************************************************)
(* What Triplet shows of one item besides its AnnotationPages: the public  *)
(* Manifest of the published images and, per image, the graph that a       *)
(* mirror delivery writes and a deletion removes                           *)
(* (internal/server/presentation_publication.go, triplet_presentation.go   *)
(* and resource_cleanup.go, internal/store/items.go and                    *)
(* resource_cleanup.go).  Publications and deletions queue rows of         *)
(* resource_cleanup_outbox; dispatchers of several worker processes claim  *)
(* them under a lease and write to Triplet outside any transaction.        *)
(*                                                                         *)
(* Triplet is external: a store of representations with strong ETags and   *)
(* conditional writes.  An ETag names a representation's content.          *)
(***************************************************************************)
EXTENDS Integers, Sequences, FiniteSets

CONSTANTS
    Images,          \* the item's images
    Keys,            \* the cleanup keys that are followed: "item" and images
    Dispatchers,     \* cleanup dispatchers, one per worker process
    Preconditions,   \* tripletPreconditionAttempts
    MaxAttempts,     \* resource_cleanup_outbox.max_attempts
    LeaseTime,       \* resourceCleanupLease, in ticks
    OperationTime,   \* resourceCleanupOperationTimeout and the mirror's limit, in ticks
    GraceTime,       \* tripletDeleteGracePeriod, in ticks
    RetryTime,       \* resourceCleanupRetryDelay, in ticks
    BackToBack,      \* whether a row may be replaced twice during one delivery
    MaxFailures      \* bound: failed or crashed deliveries

ProjectionAssumption ==
    /\ IsFiniteSet(Images) /\ Keys \subseteq Images \cup {"item"} /\ IsFiniteSet(Dispatchers) /\ BackToBack \in BOOLEAN
    /\ {Preconditions, MaxAttempts, OperationTime} \subseteq Nat \ {0}
    /\ {LeaseTime, GraceTime, RetryTime, MaxFailures} \subseteq Nat
    /\ OperationTime < LeaseTime /\ OperationTime < GraceTime

VARIABLES
    images,     \* the image rows of the item; the item is gone with "none" of them
    published,  \* the images with a published page
    rows,       \* resource_cleanup_outbox: the item's row and each image's
    manifest,   \* Triplet: the images on the item's Manifest, {} when absent
    graph,      \* Triplet: the resources of each image's graph
    mirror,     \* a mirror delivery of each image in flight
    dispatcher,
    failures

vars == <<images, published, rows, manifest, graph, mirror, dispatcher, failures>>

\* The order of buildPublishedPresentationResources: children before parents.
Graph == <<"child", "painting", "page", "entry">>
Parts == {"child", "painting", "page", "entry"}

NoRow == [status |-> "none", generation |-> 0, attempts |-> 0, wait |-> 0, lease |-> 0]
NoMirror == [left |-> 0, next |-> 0]
Idle == [pc |-> "idle", key |-> "item", generation |-> 0, attempt |-> 0, left |-> 0,
         value |-> {}, seen |-> {}, tries |-> 0, todo |-> <<>>]

Writing == {"load", "references", "read", "write", "graph", "delete"}

\* Rows, deliveries and what Triplet holds have values of their types.
TypeOK ==
    /\ images \subseteq Images /\ published \subseteq images
    /\ \A k \in Keys : /\ rows[k].status \in {"none", "pending", "processing", "failed"}
                       /\ rows[k].attempts \in 0 .. MaxAttempts
                       /\ rows[k].lease \in 0 .. LeaseTime
    /\ manifest \subseteq Images /\ graph \in [Images -> SUBSET Parts]
    /\ \A d \in Dispatchers : /\ dispatcher[d].pc \in Writing \cup {"idle", "finish", "retry"}
                              /\ dispatcher[d].left \in 0 .. OperationTime
    /\ failures \in 0 .. MaxFailures

Init ==
    /\ images = Images /\ published = {}
    /\ rows = [k \in Keys |-> NoRow]
    /\ manifest = {} /\ graph = [i \in Images |-> {}]
    /\ mirror = [i \in Images |-> NoMirror]
    /\ dispatcher = [d \in Dispatchers |-> Idle]
    /\ failures = 0

-----------------------------------------------------------------------------
(* Publication and deletion.                                               *)

Later(a, b) == IF a < b THEN b ELSE a
Earlier(t) == IF t = 0 THEN 0 ELSE t - 1

\* A delivery of a generation the row no longer has may still write.
Overtaken(k) ==
    /\ k \in Keys
    /\ \E d \in Dispatchers : /\ dispatcher[d].pc \in Writing /\ dispatcher[d].key = k
                              /\ dispatcher[d].generation # rows[k].generation

\* ON DUPLICATE KEY UPDATE: a new generation, not before the lease in the row.
BugUpsert(k, wait) == [NoRow EXCEPT !.status = "pending", !.generation = rows[k].generation + 1, !.wait = wait]
UpsertResourceCleanup(k, wait) ==
    [NoRow EXCEPT !.status = "pending", !.generation = rows[k].generation + 1,
                  !.wait = Later(wait, rows[k].lease)]

\* The first publication of an image; a later one changes no Manifest.
PublishPage(i) ==
    /\ i \in images \ published
    /\ BackToBack \/ ~Overtaken("item")
    /\ published' = published \cup {i}
    /\ rows' = [k \in Keys |-> IF k = "item" THEN UpsertResourceCleanup(k, 0) ELSE rows[k]]
    /\ UNCHANGED <<images, manifest, graph, mirror, dispatcher, failures>>

BugGrace == 0
tripletDeleteGracePeriod == GraceTime

\* Deletes the images of I with their published pages and mirror rows.
Delete(I) ==
    /\ BackToBack \/ ~Overtaken("item")
    /\ images' = images \ I /\ published' = published \ I
    /\ rows' = [k \in Keys |-> IF k = "item" \/ k \in I
                               THEN UpsertResourceCleanup(k, tripletDeleteGracePeriod) ELSE rows[k]]
    /\ UNCHANGED <<manifest, graph, mirror, dispatcher, failures>>

DeleteItemImageForWorkspace(i) == i \in images /\ Delete({i})
DeleteForWorkspace == images # {} /\ Delete(images)

-----------------------------------------------------------------------------
(* A mirror delivery of an image (AnnotationMirror has its outbox).        *)

LoadPublishedPage(i) == i \in published

\* The published page and the image row are read when the delivery begins.
buildPublishedPresentationResources(i) ==
    /\ i \in Keys /\ LoadPublishedPage(i) /\ mirror[i] = NoMirror /\ graph[i] # Parts
    /\ mirror' = [mirror EXCEPT ![i] = [left |-> OperationTime, next |-> 1]]
    /\ UNCHANGED <<images, published, rows, manifest, graph, dispatcher, failures>>

publishTripletResources(i) ==
    /\ mirror[i].next \in DOMAIN Graph /\ mirror[i].left > 0
    /\ graph' = [graph EXCEPT ![i] = @ \cup {Graph[mirror[i].next]}]
    /\ mirror' = [mirror EXCEPT ![i].next = @ + 1]
    /\ UNCHANGED <<images, published, rows, manifest, dispatcher, failures>>

\* The delivery is complete, or fails: an error, its operation limit, a crash.
EndMirror(i) ==
    /\ mirror[i] # NoMirror
    /\ mirror' = [mirror EXCEPT ![i] = NoMirror]
    /\ UNCHANGED <<images, published, rows, manifest, graph, dispatcher, failures>>

-----------------------------------------------------------------------------
(* Claiming a cleanup.                                                     *)

Expired(k) == rows[k].status = "processing" /\ rows[k].lease = 0

FailExhaustedResourceCleanups ==
    [k \in Keys |-> IF Expired(k) /\ rows[k].attempts >= MaxAttempts THEN [rows[k] EXCEPT !.status = "failed"]
                    ELSE rows[k]]

SelectResourceCleanup(k) ==
    \/ rows[k].status = "pending" /\ rows[k].wait = 0
    \/ Expired(k) /\ rows[k].attempts < MaxAttempts

Become(d, state) == dispatcher' = [dispatcher EXCEPT ![d] = state]

ClaimResourceCleanup(d, k) ==
    /\ dispatcher[d].pc = "idle" /\ SelectResourceCleanup(k)
    /\ rows' = [FailExhaustedResourceCleanups EXCEPT ![k].status = "processing", ![k].attempts = @ + 1,
                                                    ![k].lease = LeaseTime, ![k].wait = 0]
    /\ Become(d, [Idle EXCEPT !.pc = IF k = "item" THEN "load" ELSE "graph", !.key = k,
                              !.generation = rows[k].generation, !.attempt = rows[k].attempts + 1,
                              !.left = OperationTime])
    /\ UNCHANGED <<images, published, manifest, graph, mirror, failures>>

\* sql.ErrNoRows: the exhausted rows are still failed.
ClaimNothing(d) ==
    /\ dispatcher[d].pc = "idle" /\ ~\E k \in Keys : SelectResourceCleanup(k)
    /\ rows' = FailExhaustedResourceCleanups /\ rows' # rows
    /\ UNCHANGED <<images, published, manifest, graph, mirror, dispatcher, failures>>

At(d, pc) == dispatcher[d].pc = pc /\ dispatcher[d].left > 0

-----------------------------------------------------------------------------
(* reconcileTripletItemGraph: build the Manifest, then write it.           *)

Goto(d, pc) == Become(d, [dispatcher[d] EXCEPT !.pc = pc])

\* items.Get: the item with its images; a deleted item has no Manifest.
LoadItem(d) ==
    /\ At(d, "load")
    /\ Become(d, [dispatcher[d] EXCEPT !.seen = images, !.pc = IF images = {} THEN "read" ELSE "references"])
    /\ UNCHANGED <<images, published, rows, manifest, graph, mirror, failures>>

ListPublishedItemManifestReferences == published

\* The references are read after the item; one to an image that was not among
\* its images then is an error.
buildPublishedItemManifest(d) ==
    /\ At(d, "references")
    /\ Become(d, IF ListPublishedItemManifestReferences \subseteq dispatcher[d].seen
                 THEN [dispatcher[d] EXCEPT !.pc = "read", !.value = ListPublishedItemManifestReferences]
                 ELSE [dispatcher[d] EXCEPT !.pc = "retry"])
    /\ UNCHANGED <<images, published, rows, manifest, graph, mirror, failures>>

\* GET or HEAD; nothing to do when the Manifest is already as wanted.
readTripletResource(d) ==
    /\ At(d, "read")
    /\ Become(d, [dispatcher[d] EXCEPT !.seen = manifest,
                                       !.pc = IF manifest = dispatcher[d].value THEN "finish" ELSE "write"])
    /\ UNCHANGED <<images, published, rows, manifest, graph, mirror, failures>>

\* PUT or DELETE with If-Match or If-None-Match; 412 reads again, four times.
putTripletResource(d) ==
    /\ At(d, "write")
    /\ IF manifest = dispatcher[d].seen
       THEN manifest' = dispatcher[d].value /\ Goto(d, "finish")
       ELSE /\ Become(d, [dispatcher[d] EXCEPT !.tries = @ + 1,
                              !.pc = IF dispatcher[d].tries + 1 < Preconditions THEN "read" ELSE "retry"])
            /\ UNCHANGED manifest
    /\ UNCHANGED <<images, published, rows, graph, mirror, failures>>

-----------------------------------------------------------------------------
(* deleteTripletImageGraph: public entry points first, the page after the  *)
(* children it names.                                                      *)

BugDeletionOrder(i) ==
    IF "page" \in graph[i] THEN <<"entry", "page", "child", "painting">> ELSE <<"entry", "page", "painting">>
DeletionOrder(i) ==
    IF "page" \in graph[i] THEN <<"entry", "child", "page", "painting">> ELSE <<"entry", "page", "painting">>

\* The children are those of the page that Triplet still has.
ReadGraph(d) ==
    /\ At(d, "graph")
    /\ Become(d, [dispatcher[d] EXCEPT !.pc = "delete", !.todo = DeletionOrder(dispatcher[d].key)])
    /\ UNCHANGED <<images, published, rows, manifest, graph, mirror, failures>>

deleteTripletResource(d) ==
    LET todo == dispatcher[d].todo IN
    /\ At(d, "delete")
    /\ graph' = [graph EXCEPT ![dispatcher[d].key] = @ \ {Head(todo)}]
    /\ Become(d, [dispatcher[d] EXCEPT !.todo = Tail(todo), !.pc = IF Len(todo) = 1 THEN "finish" ELSE "delete"])
    /\ UNCHANGED <<images, published, rows, manifest, mirror, failures>>

-----------------------------------------------------------------------------
(* Ending a delivery.                                                      *)

\* id, generation, status and locked_by of the row.
BugFenced(d) == rows[dispatcher[d].key].status = "processing"
Fenced(d) ==
    LET row == rows[dispatcher[d].key] IN
    /\ row.status = "processing"
    /\ row.generation = dispatcher[d].generation /\ row.attempts = dispatcher[d].attempt

\* The row is deleted; its generation only has to differ from deliveries in flight.
CompleteResourceCleanup(d) ==
    /\ dispatcher[d].pc = "finish"
    /\ rows' = IF Fenced(d)
               THEN [rows EXCEPT ![dispatcher[d].key] = [NoRow EXCEPT !.generation = rows[dispatcher[d].key].generation]]
               ELSE rows
    /\ Become(d, Idle)
    /\ UNCHANGED <<images, published, manifest, graph, mirror, failures>>

\* A request fails or the operation's time is over.
Fail(d) ==
    /\ dispatcher[d].pc \in Writing
    /\ dispatcher[d].left = 0 \/ failures < MaxFailures
    /\ failures' = IF dispatcher[d].left = 0 THEN failures ELSE failures + 1
    /\ Goto(d, "retry")
    /\ UNCHANGED <<images, published, rows, manifest, graph, mirror>>

RetryResourceCleanup(d) ==
    LET k == dispatcher[d].key IN
    /\ dispatcher[d].pc = "retry"
    /\ rows' = IF Fenced(d)
               THEN [rows EXCEPT ![k].status = IF rows[k].attempts >= MaxAttempts THEN "failed" ELSE "pending",
                                 ![k].wait = RetryTime, ![k].lease = 0]
               ELSE rows
    /\ Become(d, Idle)
    /\ UNCHANGED <<images, published, manifest, graph, mirror, failures>>

Crash(d) ==
    /\ dispatcher[d].pc # "idle" /\ failures < MaxFailures
    /\ failures' = failures + 1
    /\ Become(d, Idle)
    /\ UNCHANGED <<images, published, rows, manifest, graph, mirror>>

\* One clock for leases, waits and operation limits.
Tick ==
    /\ \/ \E k \in Keys : rows[k].lease > 0 \/ rows[k].wait > 0
       \/ \E d \in Dispatchers : dispatcher[d].left > 0
       \/ \E i \in Images : mirror[i].left > 0
    /\ rows' = [k \in Keys |-> [rows[k] EXCEPT !.lease = Earlier(@), !.wait = Earlier(@)]]
    /\ dispatcher' = [d \in Dispatchers |-> [dispatcher[d] EXCEPT !.left = Earlier(@)]]
    /\ mirror' = [i \in Images |-> [mirror[i] EXCEPT !.left = Earlier(@)]]
    /\ UNCHANGED <<images, published, manifest, graph, failures>>

Next ==
    \/ \E i \in Images : \/ PublishPage(i) \/ DeleteItemImageForWorkspace(i)
                         \/ buildPublishedPresentationResources(i) \/ publishTripletResources(i) \/ EndMirror(i)
    \/ DeleteForWorkspace \/ Tick
    \/ \E d \in Dispatchers :
        \/ \E k \in Keys : ClaimResourceCleanup(d, k)
        \/ ClaimNothing(d) \/ LoadItem(d) \/ buildPublishedItemManifest(d) \/ readTripletResource(d) \/ putTripletResource(d)
        \/ ReadGraph(d) \/ deleteTripletResource(d)
        \/ CompleteResourceCleanup(d) \/ Fail(d) \/ RetryResourceCleanup(d) \/ Crash(d)

Spec == Init /\ [][Next]_vars

-----------------------------------------------------------------------------

Settled(k) == rows[k].status = "none" /\ \A d \in Dispatchers : dispatcher[d].pc = "idle" \/ dispatcher[d].key # k

\* Once its cleanup row is gone and nobody works on it, the public Manifest shows
\* exactly the item's published images, and is absent when there are none,
\* whatever publications, deletions, lost leases and retries overlapped
\* (PublishPage, reconcileTripletItemGraph, UpsertResourceCleanup).
ManifestConverged == "item" \in Keys /\ Settled("item") => manifest = published

\* Once the cleanup of a deleted image is done its page, its painting and its
\* entry points are gone from Triplet and no mirror delivery writes them again,
\* because the cleanup waits for deliveries in flight
\* (enqueueTripletImageCleanup's grace period).
DeletedImagesAreGone ==
    \A i \in Keys \cap (Images \ images) :
        Settled(i) => graph[i] \subseteq {"child"} /\ (mirror[i].left = 0 \/ mirror[i].next \notin DOMAIN Graph)

\* Of every step: a page disappears only after the children it names, so that an
\* interrupted deletion finds them again (deleteTripletImageGraph).
ParentsOutliveChildren == \A i \in Images : "page" \in graph[i] \ graph'[i] => "child" \notin graph'[i]

\* docs/api/iiif.md says that after a deletion "durable external cleanup then
\* removes an already-delivered Triplet resource": nothing of the image is left.
DeletedGraphsGone == \A i \in Keys \cap (Images \ images) : Settled(i) => graph[i] = {}
=============================================================================
