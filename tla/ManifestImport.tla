--------------------------- MODULE ManifestImport ---------------------------
(***************************************************************************)
(* One import of a IIIF manifest (ImportManifest and its helpers in        *)
(* internal/server/connect_items.go, the reader of manifests in            *)
(* internal/server/iiif_manifest.go and CommitManifestIngest in            *)
(* internal/store/ingest.go): the wait for a processing slot, the manifest *)
(* request with its retries, the concurrent requests for the hOCR of its   *)
(* Canvases under two shared byte budgets, and the commit of the item.     *)
(*                                                                         *)
(* The call holds a fresh claim of its idempotency key; the record itself  *)
(* is the subject of ExternalRequests, and the storage quota of            *)
(* UploadStorage.  `world` is what others may take away before the commit. *)
(***************************************************************************)
EXTENDS Integers, Sequences, FiniteSets, SequencesExt, FiniteSetsExt

CONSTANTS
    Manifests,               \* the documents a server may serve
    Documents,               \* the hOCR documents a server may serve
    Workers,                 \* maxConcurrentManifestHOCRFetches
    MaxFetchAttempts,        \* maxIIIFUpstreamFetchAttempts
    MaxManifestCanvases,     \* the configured canvas limit
    MaxSourceManifestBytes,  \* of the manifest
    MaxRemoteHOCRBytes,      \* of one hOCR document
    MaxManifestImportBytes,  \* of the manifest and all its hOCR
    JobCapacity              \* transcription jobs the workspace may still queue

ManifestImportAssumption ==
    /\ \A m \in Manifests : m.version \in {2, 3} /\ m.valid \in BOOLEAN /\ m.bytes \in Nat
    /\ \A d \in Documents : d.trimmed <= d.raw /\ d.text \in Nat /\ d.valid \in BOOLEAN
    /\ IsFiniteSet(Workers) /\ Workers # {}
    /\ {MaxFetchAttempts, MaxManifestCanvases, MaxSourceManifestBytes,
        MaxRemoteHOCRBytes, MaxManifestImportBytes} \subseteq Nat \ {0}
    /\ JobCapacity \in Nat

VARIABLES
    source,    \* the manifest behind the URL, and whether its OCR is ignored
    ctx,       \* importCtx: "live", "left" by the caller, "expired"
    world,     \* what the commit needs and still finds
    phase,     \* where the handler is, with the attempts of its own request
    canvases,  \* the extracted Canvases with the hOCR prefetched for them
    group,     \* the errgroup: the producer's next index, closed, the first error
    worker,    \* its fetching goroutines
    budget,    \* bytes claimed: remote and durable
    held,      \* the processing slot and the storage reservation
    item,      \* the committed item
    key,       \* the claim of the idempotency key
    answer     \* what the caller was told

vars == <<source, ctx, world, phase, canvases, group, worker, budget, held, item, key, answer>>

World == {"member", "context", "lease", "reservation"}
NoDocument == [raw |-> 0, trimmed |-> 0, text |-> 0, valid |-> TRUE]
Stopped == [pc |-> "stopped", index |-> 0, attempt |-> 0, read |-> 0, doc |-> NoDocument]
Parked == [Stopped EXCEPT !.pc = "idle"]
NoGroup == [next |-> 1, closed |-> TRUE, err |-> "none"]
Answers == {"none", "ok", "canceled", "deadline", "unavailable", "rejected", "invalid", "budget", "internal"}

\* The handler, its goroutines and its counters hold values of their types.
TypeOK ==
    /\ source.manifest \in Manifests /\ source.ignore \in BOOLEAN
    /\ ctx \in {"live", "left", "expired"} /\ world \subseteq World
    /\ phase.at \in {"admission", "manifest", "prefetch", "reserve", "commit", "returned"}
    /\ phase.attempt \in 0 .. MaxFetchAttempts
    /\ \A i \in DOMAIN canvases : canvases[i].doc \in Documents \cup {NoDocument}
    /\ group.err \in Answers \ {"ok"} /\ group.next \in Nat /\ group.closed \in BOOLEAN
    /\ worker \in [Workers -> [pc : {"stopped", "idle", "fetching", "reading", "read"},
                               index : 0 .. MaxManifestCanvases, attempt : 0 .. MaxFetchAttempts,
                               read : Nat, doc : Documents \cup {NoDocument}]]
    /\ budget.remote \in Nat /\ budget.durable \in Nat /\ budget.reserved \in Nat
    /\ held \subseteq {"slot", "storage"}
    /\ key \in {"claimed", "failed", "completed"} /\ answer \in Answers

Init ==
    /\ source \in [manifest : Manifests, ignore : BOOLEAN]
    /\ ctx = "live" /\ world = World
    /\ phase = [at |-> "admission", attempt |-> 0]
    /\ canvases = <<>> /\ group = NoGroup /\ worker = [w \in Workers |-> Stopped]
    /\ budget = [remote |-> 0, durable |-> 0, reserved |-> 0]
    /\ held = {} /\ item = <<>> /\ key = "claimed" /\ answer = "none"

-----------------------------------------------------------------------------
(* The surroundings: the caller, the deadline, other transactions.         *)

Caller ==
    /\ ctx = "live" /\ phase.at # "returned"
    /\ ctx' = "left"
    /\ UNCHANGED <<source, world, phase, canvases, group, worker, budget, held, item, key, answer>>

\* The import deadline ends with the prefetch: cancelImport.
Deadline ==
    /\ ctx = "live" /\ phase.at \in {"admission", "manifest", "prefetch"}
    /\ ctx' = "expired"
    /\ UNCHANGED <<source, world, phase, canvases, group, worker, budget, held, item, key, answer>>

Lose(x) ==
    /\ x \in world /\ phase.at \in {"reserve", "commit"}
    /\ world' = world \ {x}
    /\ UNCHANGED <<source, ctx, phase, canvases, group, worker, budget, held, item, key, answer>>

-----------------------------------------------------------------------------
(* Leaving the handler.                                                    *)

\* The deferred releases of the slot and of the storage reservation.
Return(a, k) ==
    /\ phase' = [at |-> "returned", attempt |-> 0]
    /\ held' = {} /\ key' = k /\ answer' = a

\* failItemReservation writes on the process's own context; the write may fail,
\* and the key then stays claimed until its lease runs out.
BugFail(a) ==
    /\ phase' = [at |-> "returned", attempt |-> 0]
    /\ held' = held \ {"slot"} /\ answer' = a
    /\ key' \in {"failed", "claimed"}
Fail(a) == Return(a, "failed") \/ Return(a, "claimed")

\* manifestImportConnectError for an error of the context.
ContextAnswer == IF ctx = "left" THEN "canceled" ELSE "deadline"

-----------------------------------------------------------------------------
(* Reading the manifest.                                                   *)

acquireManifestImportSlot ==
    /\ phase.at = "admission"
    /\ \/ /\ phase' = [at |-> "manifest", attempt |-> 1]
          /\ held' = {"slot"} /\ UNCHANGED <<key, answer>>
       \/ ctx # "live" /\ Fail(ContextAnswer)
    /\ UNCHANGED <<source, ctx, world, canvases, group, worker, budget, item>>

\* A retryable status or a transport error; the request is sent again after a
\* delay, until the attempts are used up.
fetchIIIFUpstreamResponse(attempt) == attempt < MaxFetchAttempts

\* A body is a sequence of alternatives (Choice, SpecificResource, Image); the
\* first image of a supported format with a public URL is taken.
extractSupportedPaintingImageID(body) ==
    LET images == SelectSeq(body, LAMBDA b : b.supported)
    IN  IF images = <<>> THEN "none" ELSE images[1].id

\* The image an annotation paints on this very Canvas.
BugExtractV3(c) ==
    LET painting == SelectSeq(c.annotations, LAMBDA a :
                        extractSupportedPaintingImageID(a.body) # "none" /\ a.painting)
    IN  IF painting = <<>> THEN "none" ELSE extractSupportedPaintingImageID(painting[1].body)
extractImageURLV3(c) ==
    LET painting == SelectSeq(c.annotations, LAMBDA a :
                        extractSupportedPaintingImageID(a.body) # "none" /\ a.painting /\ a.target = c.uri)
    IN  IF painting = <<>> THEN "none" ELSE extractSupportedPaintingImageID(painting[1].body)

\* Presentation 2 has no motivation to check: the first resource with an id.
extractImageURLV2(c) ==
    IF c.annotations = <<>> \/ c.annotations[1].body = <<>> THEN "none" ELSE c.annotations[1].body[1].id

ImageOf(m, c) == IF m.version = 3 THEN extractImageURLV3(c) ELSE extractImageURLV2(c)

\* A caller who wants fresh OCR has the links to hOCR dropped.
withoutExistingManifestOCR(linked) == linked /\ ~source.ignore

HOCRLink(c) == withoutExistingManifestOCR(c.hocr)

extractCanvases(m) ==
    [i \in DOMAIN m.canvases |->
        [uri |-> m.canvases[i].uri, image |-> ImageOf(m, m.canvases[i]),
         hocr |-> HOCRLink(m.canvases[i]), doc |-> NoDocument]]

\* At least one Canvas, each with an image of its own, no URI twice.
extractCanvasesFromManifest(m) ==
    /\ m.canvases # <<>>
    /\ \A i \in DOMAIN m.canvases : ImageOf(m, m.canvases[i]) # "none"
    /\ IsInjective([i \in DOMAIN m.canvases |-> m.canvases[i].uri])

enforceManifestCanvasLimit(m) == Len(m.canvases) <= MaxManifestCanvases

\* The bytes kept with the item: those of a Presentation 3 manifest.
SourceBytes(m) == IF m.version = 3 THEN m.bytes ELSE 0

Indexes == SelectSeq([i \in DOMAIN canvases |-> i], LAMBDA i : canvases[i].hocr)

RetryManifest ==
    /\ phase.at = "manifest" /\ fetchIIIFUpstreamResponse(phase.attempt)
    /\ phase' = [phase EXCEPT !.attempt = @ + 1]
    /\ UNCHANGED <<source, ctx, world, canvases, group, worker, budget, held, item, key, answer>>

\* A last transport error or retryable status, any other status, the context.
ManifestFails ==
    /\ phase.at = "manifest"
    /\ \/ ~fetchIIIFUpstreamResponse(phase.attempt) /\ Fail("unavailable")
       \/ Fail("rejected")
       \/ ctx # "live" /\ Fail(ContextAnswer)
    /\ UNCHANGED <<source, ctx, world, canvases, group, worker, budget, item>>

\* The document is read and decoded; its Canvases go to prefetchManifestHOCR,
\* which starts the producer and its workers when there is hOCR to read.
fetchIIIFManifest ==
    LET m == source.manifest
        hocr == {i \in DOMAIN m.canvases : HOCRLink(m.canvases[i])}
    IN
    /\ phase.at = "manifest"
    /\ \/ /\ ~ /\ m.bytes <= MaxSourceManifestBytes /\ enforceManifestCanvasLimit(m) /\ m.valid
               /\ extractCanvasesFromManifest(m)
          /\ Fail("invalid")
          /\ UNCHANGED <<canvases, group, worker>>
       \/ /\ m.bytes <= MaxSourceManifestBytes /\ enforceManifestCanvasLimit(m) /\ m.valid
          /\ extractCanvasesFromManifest(m)
          /\ \/ /\ \/ SourceBytes(m) > MaxManifestImportBytes
                   \/ hocr # {} /\ SourceBytes(m) = MaxManifestImportBytes
                /\ Fail("budget") /\ UNCHANGED <<canvases, group, worker>>
             \/ /\ SourceBytes(m) <= MaxManifestImportBytes
                /\ hocr # {} => SourceBytes(m) < MaxManifestImportBytes
                /\ canvases' = extractCanvases(m)
                /\ phase' = [at |-> "prefetch", attempt |-> 0]
                /\ group' = [NoGroup EXCEPT !.closed = (hocr = {})]
                /\ \E W \in kSubset(Min({Cardinality(Workers), Cardinality(hocr)}), Workers) :
                        worker' = [w \in Workers |-> IF w \in W THEN Parked ELSE Stopped]
                /\ UNCHANGED <<held, key, answer>>
    /\ UNCHANGED <<source, ctx, world, budget, item>>

-----------------------------------------------------------------------------
(* prefetchManifestHOCR: one producer, the workers, the first error.       *)

\* groupCtx is done.
Cancelled == group.err # "none" \/ ctx # "live"

Sent == group.next > Len(Indexes)

\* jobs <- index on an unbuffered channel: one worker takes it.
SendIndex(w) ==
    /\ phase.at = "prefetch" /\ ~group.closed /\ ~Sent
    /\ worker[w].pc = "idle"
    /\ worker' = [worker EXCEPT ![w] = [Parked EXCEPT !.pc = "fetching", !.index = Indexes[group.next],
                                                      !.attempt = 1]]
    /\ group' = [group EXCEPT !.next = @ + 1]
    /\ UNCHANGED <<source, ctx, world, phase, canvases, budget, held, item, key, answer>>

BugStops == Sent
\* The producer returns, and closes the channel, when all is sent or the group
\* is cancelled.
ProducerStops == Sent \/ Cancelled

CloseJobs ==
    /\ phase.at = "prefetch" /\ ~group.closed /\ ProducerStops
    /\ group' = [group EXCEPT !.closed = TRUE]
    /\ UNCHANGED <<source, ctx, world, phase, canvases, worker, budget, held, item, key, answer>>

WorkerEnds(w) ==
    /\ phase.at = "prefetch" /\ group.closed /\ worker[w].pc = "idle"
    /\ worker' = [worker EXCEPT ![w] = Stopped]
    /\ UNCHANGED <<source, ctx, world, phase, canvases, group, budget, held, item, key, answer>>

\* errgroup keeps the first error and cancels the others.
BugFirstError(e) == [group EXCEPT !.err = e]
FirstError(e) == IF group.err = "none" THEN [group EXCEPT !.err = e] ELSE group

WorkerFails(w, e) ==
    /\ worker' = [worker EXCEPT ![w] = Stopped]
    /\ group' = FirstError(e)
    /\ UNCHANGED <<source, ctx, world, phase, canvases, budget, held, item, key, answer>>

Fetching(w) == phase.at = "prefetch" /\ worker[w].pc = "fetching"

RetryHOCR(w) ==
    /\ Fetching(w) /\ fetchIIIFUpstreamResponse(worker[w].attempt)
    /\ worker' = [worker EXCEPT ![w].attempt = @ + 1]
    /\ UNCHANGED <<source, ctx, world, phase, canvases, group, budget, held, item, key, answer>>

FetchFails(w) ==
    \/ /\ Fetching(w)
       /\ \/ ~fetchIIIFUpstreamResponse(worker[w].attempt) /\ WorkerFails(w, "unavailable")
          \/ WorkerFails(w, "rejected")
    \* A sibling's error cancels the request as the caller's departure does.
    \/ /\ phase.at = "prefetch" /\ worker[w].pc \in {"fetching", "reading"} /\ Cancelled
       /\ WorkerFails(w, IF ctx = "expired" THEN "deadline" ELSE "canceled")

\* The response arrives; a declared length above the maximum is refused at once.
fetchHOCRContent(w, d) ==
    /\ Fetching(w)
    /\ \/ /\ worker' = [worker EXCEPT ![w].pc = "reading", ![w].doc = d]
          /\ UNCHANGED <<source, ctx, world, phase, canvases, group, budget, held, item, key, answer>>
       \/ d.raw > MaxRemoteHOCRBytes /\ WorkerFails(w, "budget")

\* manifestByteBudget.claim, under its mutex.
Remaining == MaxManifestImportBytes - SourceBytes(source.manifest)
BugClaim(used, size) == TRUE
claim(used, size) == size <= Remaining - used

\* manifestBudgetReader.Read: every byte read is claimed from the remote budget,
\* at most one byte past the maximum of a document.
ReadBody(w) ==
    LET r == worker[w].read
        d == worker[w].doc
    IN
    /\ phase.at = "prefetch" /\ worker[w].pc = "reading"
    /\ \/ /\ r < d.raw /\ r <= MaxRemoteHOCRBytes
          /\ \/ /\ claim(budget.remote, 1)
                /\ budget' = [budget EXCEPT !.remote = @ + 1]
                /\ worker' = [worker EXCEPT ![w].read = r + 1]
                /\ UNCHANGED <<source, ctx, world, phase, canvases, group, held, item, key, answer>>
             \/ ~claim(budget.remote, 1) /\ WorkerFails(w, "budget")
       \/ /\ r = d.raw \/ r > MaxRemoteHOCRBytes
          /\ IF r > MaxRemoteHOCRBytes
             THEN WorkerFails(w, "budget")
             ELSE /\ worker' = [worker EXCEPT ![w].pc = "read"]
                  /\ UNCHANGED <<source, ctx, world, phase, canvases, group, budget, held, item, key, answer>>

\* What one document adds to the database: the trimmed hOCR and its plain text.
DurableBytes(d) == d.trimmed + d.text

\* The document is parsed, claimed from the durable budget and put at its
\* Canvas's index of the shared slice.
BugStore(w) == [canvases EXCEPT ![1].doc = worker[w].doc]
Stored(w) == [canvases EXCEPT ![worker[w].index].doc = worker[w].doc]

ParseDocument(w) ==
    LET d == worker[w].doc IN
    /\ phase.at = "prefetch" /\ worker[w].pc = "read"
    /\ \/ ~d.valid /\ WorkerFails(w, "rejected")
       \/ d.valid /\ ~claim(budget.durable, DurableBytes(d)) /\ WorkerFails(w, "budget")
       \/ /\ d.valid /\ claim(budget.durable, DurableBytes(d))
          /\ budget' = [budget EXCEPT !.durable = @ + DurableBytes(d)]
          /\ canvases' = Stored(w)
          /\ worker' = [worker EXCEPT ![w] = Parked]
          /\ UNCHANGED <<source, ctx, world, phase, group, held, item, key, answer>>

BugFinished == group.closed
\* group.Wait: the producer and every worker have returned.
Finished == group.closed /\ \A w \in Workers : worker[w].pc = "stopped"

\* The producer and the workers return nil when the context ends between two
\* documents, so the context is looked at once more.
BugComplete == group.err = "none"
Complete == group.err = "none" /\ ctx = "live"

prefetchManifestHOCR ==
    /\ phase.at = "prefetch" /\ Finished
    /\ \/ group.err # "none" /\ Fail(group.err)
       \/ group.err = "none" /\ ~Complete /\ Fail(ContextAnswer)
       \/ /\ Complete
          /\ phase' = [phase EXCEPT !.at = "reserve"]
          /\ UNCHANGED <<held, key, answer>>
    /\ UNCHANGED <<source, ctx, world, canvases, group, worker, budget, item>>

-----------------------------------------------------------------------------
(* The storage reservation and the commit.                                 *)

reserveStorageQuota ==
    /\ phase.at = "reserve"
    /\ \/ Fail("internal") /\ UNCHANGED budget
       \/ /\ phase' = [phase EXCEPT !.at = "commit"]
          /\ held' = held \cup {"storage"}
          /\ budget' = [budget EXCEPT !.reserved = SourceBytes(source.manifest) + budget.durable]
          /\ UNCHANGED <<key, answer>>
    /\ UNCHANGED <<source, ctx, world, canvases, group, worker, item>>

\* A Canvas without hOCR, or with a blank document, which parses as one without
\* lines, is given to a transcription job.
EnqueueJob(c) == c.doc.trimmed = 0

Jobs == {i \in DOMAIN canvases : EnqueueJob(canvases[i])}

\* One transaction: member, reservation, context when a job needs one, job
\* admission counting the jobs it has already made, the lease of the key.
MayCommit ==
    /\ {"member", "reservation", "lease"} \subseteq world
    /\ Jobs # {} => "context" \in world
    /\ Cardinality(Jobs) <= JobCapacity

CommitManifestIngest ==
    /\ phase.at = "commit"
    /\ \/ /\ MayCommit
          /\ item' = [i \in DOMAIN canvases |->
                        [uri |-> canvases[i].uri, image |-> canvases[i].image, page |-> canvases[i].doc,
                         run |-> ~EnqueueJob(canvases[i]), job |-> EnqueueJob(canvases[i])]]
          /\ Return("ok", "completed")
       \/ (~MayCommit \/ ctx # "live") /\ Fail("internal") /\ UNCHANGED item
    /\ UNCHANGED <<source, ctx, world, canvases, group, worker, budget>>

Prefetch ==
    \/ CloseJobs \/ prefetchManifestHOCR
    \/ \E w \in Workers :
        \/ SendIndex(w) \/ WorkerEnds(w) \/ RetryHOCR(w) \/ FetchFails(w) \/ ReadBody(w) \/ ParseDocument(w)
        \/ \E d \in Documents : fetchHOCRContent(w, d)

Next ==
    \/ Caller \/ Deadline \/ \E x \in World : Lose(x)
    \/ acquireManifestImportSlot
    \/ RetryManifest \/ ManifestFails \/ fetchIIIFManifest
    \/ Prefetch
    \/ reserveStorageQuota \/ CommitManifestIngest

Spec == Init /\ [][Next]_vars

\* The handler's own steps are taken; a server may never answer, and then only
\* the deadline, or the cancelled group, ends the request.
Fairness ==
    /\ WF_vars(Deadline) /\ WF_vars(acquireManifestImportSlot) /\ WF_vars(CloseJobs)
    /\ WF_vars(prefetchManifestHOCR) /\ WF_vars(reserveStorageQuota) /\ WF_vars(CommitManifestIngest)
    /\ WF_vars(ctx # "live" /\ ManifestFails)
    /\ \A w \in Workers : /\ WF_vars(SendIndex(w)) /\ WF_vars(WorkerEnds(w)) /\ WF_vars(ParseDocument(w))
                          /\ WF_vars(Cancelled /\ FetchFails(w))

FairSpec == Init /\ [][Next]_vars /\ Fairness

-----------------------------------------------------------------------------

\* The bytes of the committed pages: the manifest and every hOCR baseline.
Payload == SourceBytes(source.manifest)
           + FoldFunction(LAMBDA c, n : n + DurableBytes(c.page), 0, item)

\* A committed item is the whole manifest: its Canvases in the manifest's order,
\* each with an image painted on that very Canvas, with the hOCR of every Canvas
\* that links to one unless the caller ignores it, and a transcription job for
\* exactly the others and those whose document is blank; the storage reserved for it is exactly what it stores and
\* within the import's budget, and its key is completed (ImportManifest,
\* prefetchManifestHOCR, CommitManifestIngest).
ImportIsWhole ==
    item # <<>> =>
        LET m == source.manifest IN
        /\ Len(item) = Len(m.canvases)
        /\ \A i \in DOMAIN item :
            /\ item[i].uri = m.canvases[i].uri
            /\ m.version = 3 => \E a \in ToSet(m.canvases[i].annotations) :
                    /\ a.painting /\ a.target = item[i].uri
                    /\ \E b \in ToSet(a.body) : b.supported /\ b.id = item[i].image
            /\ (item[i].page # NoDocument) <=> HOCRLink(m.canvases[i])
            /\ item[i].job <=> ~HOCRLink(m.canvases[i]) \/ item[i].page.trimmed = 0
            /\ item[i].run <=> ~item[i].job
        /\ budget.reserved = Payload /\ Payload <= MaxManifestImportBytes
        /\ key = "completed"

\* Nothing of an import outlives its handler: when it has returned no goroutine
\* still reads a response or writes the shared slice, and slot and storage are
\* given back.  Canceled is answered only to a caller that left: a request that a
\* failing sibling cancelled does not hide the sibling's error
\* (prefetchManifestHOCR's errgroup, manifestImportConnectError).
NothingOutlivesImport ==
    phase.at = "returned" =>
        /\ \A w \in Workers : worker[w].pc = "stopped"
        /\ group.closed /\ held = {}
        /\ answer = "canceled" => ctx = "left"
        /\ (answer = "ok") <=> (item # <<>>)

\* Every import returns, even when no server answers: the deadline cancels the
\* requests, and neither the producer nor a worker waits for the other for ever.
ImportReturns == <>(phase.at = "returned")
=============================================================================
