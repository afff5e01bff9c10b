------------------------ MODULE UploadBatchesProofs -------------------------
(***************************************************************************)
(* What a resumable upload batch guarantees, for any number of files, of   *)
(* requests in flight, of attempts and any length of the lease.            *)
(***************************************************************************)
EXTENDS UploadBatches, TLAPS

-----------------------------------------------------------------------------
(* The inductive invariant.                                                *)

\* A file's row (fl) against the image row of its sequence (pg) and the images
\* named by the responses for it (an).
FileOK(fl, pg, an) ==
    /\ fl.status = "processing" => fl.lock = fl.attempts /\ fl.attempts # 0
    /\ pg.image # 0 => fl.status \in {"processing", "completed"} /\ pg.image = fl.attempts
    /\ pg.image = 0 => pg.parts = {} /\ pg.job = "none"
    /\ fl.status = "completed" => /\ pg.image = fl.image /\ fl.image = fl.attempts /\ fl.attempts # 0
                                  /\ pg.parts = Parts /\ pg.job # "none"
                                  /\ an \subseteq {fl.image}
    /\ fl.status # "completed" => an = {}

\* A request's memory (q) against the rows of its file: it holds an attempt the
\* file has counted, and while the image of that attempt is there, so is all that
\* the request has gone past.
RequestOK(q, fl, pg) ==
    /\ q.pc = "idle" <=> q.attempt = 0
    /\ q.attempt <= fl.attempts
    /\ q.pc \in {"ocr", "annotate", "enqueue", "complete"} => q.image = q.attempt
    /\ pg.image = q.attempt =>
         /\ q.pc \in {"annotate", "enqueue", "complete"} => "ocr" \in pg.parts
         /\ q.pc \in {"enqueue", "complete"} => "annotations" \in pg.parts
         /\ q.pc = "complete" => pg.job # "none"

FilesInv == \A f \in Files : FileOK(file[f], page[f], answers[f])

RequestsInv == \A r \in Requests : RequestOK(request[r], file[request[r].file], page[request[r].file])

\* No attempt at a file belongs to two requests.
AttemptsDistinct ==
    \A r, s \in Requests :
        request[r].attempt # 0 /\ request[r].attempt = request[s].attempt
          /\ request[r].file = request[s].file => r = s

BatchInv == TypeOK /\ FilesInv /\ RequestsInv /\ AttemptsDistinct /\ BatchMatchesFiles

-----------------------------------------------------------------------------
(* The types, record by record.                                            *)

FileType == [status : Incomplete \cup {"completed", "canceled"}, attempts : Attempt, lock : Attempt,
             lease : -1 .. LeaseTime, image : Attempt]
PageType == [image : Attempt, parts : SUBSET Parts, job : ActiveJob \cup {"none", "canceled", "settled"}]
RequestType == [pc : Steps \cup {"idle", "abort"}, file : Files, attempt : Attempt, renewed : BOOLEAN,
                image : Attempt]

\* The type invariant in terms of the record types.
LEMMA Types ==
  TypeOK <=> /\ batch \in {"none", "in_progress", "completed", "canceled"}
             /\ file \in [Files -> FileType] /\ page \in [Files -> PageType]
             /\ request \in [Requests -> RequestType] /\ answers \in [Files -> SUBSET Attempt]
BY DEF TypeOK, FileType, PageType, RequestType

\* The same of the state after a step.
LEMMA TypesAfter ==
  ASSUME batch' \in {"none", "in_progress", "completed", "canceled"},
         file' \in [Files -> FileType], page' \in [Files -> PageType],
         request' \in [Requests -> RequestType], answers' \in [Files -> SUBSET Attempt]
  PROVE  TypeOK'
BY DEF TypeOK, FileType, PageType, RequestType

\* What the constants are, and that the initial records have their types.
LEMMA Bounds ==
  ASSUME BatchAssumption
  PROVE  /\ MaxAttempts \in Nat \ {0} /\ LeaseTime \in Nat \ {0}
         /\ 0 \in Attempt /\ -1 \in -1 .. LeaseTime /\ LeaseTime \in -1 .. LeaseTime
         /\ Idle \in RequestType /\ NoPage \in PageType /\ NewFile \in FileType
         /\ Idle.pc = "idle" /\ Idle.attempt = 0
<1>1. MaxAttempts \in Nat \ {0} /\ LeaseTime \in Nat \ {0}
  BY DEF BatchAssumption
<1>2. 0 \in Attempt /\ -1 \in -1 .. LeaseTime /\ LeaseTime \in -1 .. LeaseTime
  BY <1>1 DEF Attempt
<1>3. (CHOOSE f \in Files : TRUE) \in Files
  BY DEF BatchAssumption
<1>4. Idle \in RequestType /\ Idle.pc = "idle" /\ Idle.attempt = 0
  BY <1>2, <1>3 DEF Idle, RequestType
<1>5. NoPage \in PageType
  BY <1>2 DEF NoPage, PageType
<1>6. NewFile \in FileType
  BY <1>2 DEF NewFile, FileType, Incomplete
<1> QED
  BY <1>1, <1>2, <1>4, <1>5, <1>6

\* The initial state satisfies the invariant.
LEMMA InitInv ==
  ASSUME BatchAssumption, Init
  PROVE  BatchInv
<1>1. TypeOK
  BY Bounds, Types DEF Init
<1>2. FilesInv
  BY DEF Init, FilesInv, FileOK, NewFile, NoPage
<1>3. RequestsInv
  <2> SUFFICES ASSUME NEW r \in Requests
               PROVE  RequestOK(request[r], file[request[r].file], page[request[r].file])
    BY DEF RequestsInv
  <2>1. request[r] = Idle /\ Idle.file \in Files
    BY Bounds DEF Init, RequestType
  <2>2. file[request[r].file] = NewFile
    BY <2>1 DEF Init
  <2> QED
    BY <2>1, <2>2, Bounds DEF RequestOK, NewFile
<1>4. AttemptsDistinct
  BY Bounds DEF Init, AttemptsDistinct
<1>5. BatchMatchesFiles
  <2>1. PICK f \in Files : file[f].status = "pending"
    BY DEF Init, NewFile, BatchAssumption
  <2> QED
    BY <2>1 DEF Init, BatchMatchesFiles
<1> QED
  BY <1>1, <1>2, <1>3, <1>4, <1>5 DEF BatchInv

-----------------------------------------------------------------------------
(* What steps have in common.                                              *)

\* One request changes its memory: it stops, or goes on with its attempt.
LEMMA OneMoves ==
  ASSUME BatchAssumption, BatchInv, NEW r \in Requests, NEW q \in RequestType,
         request' = [request EXCEPT ![r] = q],
         q.attempt = 0 \/ (q.attempt = request[r].attempt /\ q.file = request[r].file),
         RequestOK(q, file'[q.file], page'[q.file]),
         \A s \in Requests \ {r} : RequestOK(request[s], file'[request[s].file], page'[request[s].file])
  PROVE  request' \in [Requests -> RequestType] /\ RequestsInv' /\ AttemptsDistinct'
<1>1. request \in [Requests -> RequestType]
  BY Types DEF BatchInv
<1>2. \A s \in Requests : request'[s] = IF s = r THEN q ELSE request[s]
  BY <1>1
<1>3. request' \in [Requests -> RequestType]
  BY <1>1
<1>4. RequestsInv'
  BY <1>2 DEF RequestsInv
<1>5. AttemptsDistinct'
  BY <1>2 DEF BatchInv, AttemptsDistinct
<1> QED
  BY <1>3, <1>4, <1>5

\* A request that stops has nothing to answer for.
LEMMA IdleOK ==
  ASSUME BatchAssumption, NEW fl \in FileType, NEW pg
  PROVE  RequestOK(Idle, fl, pg)
<1>1. Idle.pc = "idle" /\ Idle.attempt = 0 /\ 0 <= fl.attempts
  BY Bounds DEF FileType, Attempt
<1> QED
  BY <1>1 DEF RequestOK

\* Rows that do not change keep what was said of them.
LEMMA RowsStay ==
  ASSUME BatchInv, UNCHANGED <<batch, file, page, answers>>
  PROVE  /\ FilesInv' /\ BatchMatchesFiles'
         /\ \A s \in Requests : RequestOK(request[s], file'[request[s].file], page'[request[s].file])
BY DEF BatchInv, FilesInv, RequestsInv, BatchMatchesFiles

\* The lease of a file says nothing of what it holds: a step that changes leases,
\* and tells a request that it renewed one, keeps the invariant.
LEMMA LeasesMove ==
  ASSUME BatchAssumption, BatchInv, UNCHANGED <<batch, page, answers>>,
         file' \in [Files -> FileType], request' \in [Requests -> RequestType],
         \A f \in Files : /\ file'[f].status = file[f].status /\ file'[f].attempts = file[f].attempts
                          /\ file'[f].lock = file[f].lock /\ file'[f].image = file[f].image,
         \A r \in Requests : /\ request'[r].pc = request[r].pc /\ request'[r].file = request[r].file
                             /\ request'[r].attempt = request[r].attempt /\ request'[r].image = request[r].image
  PROVE  BatchInv'
<1>1. TypeOK'
  BY Types, TypesAfter DEF BatchInv
<1>2. FilesInv'
  BY DEF BatchInv, FilesInv, FileOK
<1>3. RequestsInv'
  <2> SUFFICES ASSUME NEW r \in Requests
               PROVE  RequestOK(request'[r], file'[request'[r].file], page'[request'[r].file])
    BY DEF RequestsInv
  <2>1. request[r].file \in Files
    BY DEF BatchInv, TypeOK
  <2>2. RequestOK(request[r], file[request[r].file], page[request[r].file])
    BY DEF BatchInv, RequestsInv
  <2> QED
    BY <2>1, <2>2 DEF RequestOK
<1>4. AttemptsDistinct'
  BY DEF BatchInv, AttemptsDistinct
<1>5. BatchMatchesFiles'
  BY DEF BatchInv, BatchMatchesFiles
<1> QED
  BY <1>1, <1>2, <1>3, <1>4, <1>5 DEF BatchInv

\* An image row that gains parts, or whose job goes on.
LEMMA PageGrows ==
  ASSUME BatchInv, NEW f \in Files, NEW pg \in PageType, page' = [page EXCEPT ![f] = pg],
         UNCHANGED <<batch, file, answers>>,
         pg.image = page[f].image, page[f].image # 0, page[f].parts \subseteq pg.parts,
         page[f].job # "none" => pg.job # "none", batch = "canceled" => pg.job \notin ActiveJob
  PROVE  /\ page' \in [Files -> PageType] /\ FilesInv' /\ BatchMatchesFiles'
         /\ \A s \in Requests : RequestOK(request[s], file'[request[s].file], page'[request[s].file])
<1>1. page \in [Files -> PageType]
  BY Types DEF BatchInv
<1>2. \A g \in Files : page'[g] = IF g = f THEN pg ELSE page[g]
  BY <1>1
<1>3. FilesInv'
  <2> SUFFICES ASSUME NEW g \in Files
               PROVE  FileOK(file[g], page'[g], answers[g])
    BY DEF FilesInv
  <2>1. FileOK(file[g], page[g], answers[g])
    BY DEF BatchInv, FilesInv
  <2>2. pg.parts \subseteq Parts
    BY DEF PageType
  <2>3. CASE g = f
    BY <1>2, <2>1, <2>2, <2>3 DEF FileOK
  <2>4. CASE g # f
    BY <1>2, <2>1, <2>4
  <2> QED
    BY <2>3, <2>4
<1>4. BatchMatchesFiles'
  BY <1>2 DEF BatchInv, BatchMatchesFiles
<1>5. ASSUME NEW s \in Requests
      PROVE  RequestOK(request[s], file'[request[s].file], page'[request[s].file])
  <2>1. request[s].file \in Files
    BY DEF BatchInv, TypeOK
  <2>2. RequestOK(request[s], file[request[s].file], page[request[s].file])
    BY DEF BatchInv, RequestsInv
  <2> QED
    BY <1>2, <2>1, <2>2 DEF RequestOK
<1> QED
  BY <1>1, <1>3, <1>4, <1>5

\* A request that owns its file holds the file's last attempt, and a page it has
\* the image of was made in that attempt.
LEMMA OwnerIsLast ==
  ASSUME BatchAssumption, BatchInv, NEW r \in Requests, NEW f \in Files, f = request[r].file,
         file[f].status = "processing", file[f].lock = request[r].attempt
  PROVE  /\ request[r].attempt = file[f].attempts /\ request[r].attempt # 0 /\ request[r].pc # "idle"
         /\ page[f].image \in {0, request[r].attempt}
         /\ answers[f] = {}
         /\ \A s \in Requests : request[s].file = f /\ request[s].attempt = request[r].attempt => s = r
<1>1. FileOK(file[f], page[f], answers[f])
  BY DEF BatchInv, FilesInv
<1>2. RequestOK(request[r], file[f], page[f])
  BY DEF BatchInv, RequestsInv
<1>3. request[r].attempt = file[f].attempts /\ request[r].attempt # 0
  BY <1>1 DEF FileOK
<1>4. page[f].image \in {0, request[r].attempt} /\ answers[f] = {}
  BY <1>1, <1>3 DEF FileOK
<1>5. request[r].pc # "idle"
  BY <1>2, <1>3 DEF RequestOK
<1> QED
  BY <1>3, <1>4, <1>5 DEF BatchInv, AttemptsDistinct

-----------------------------------------------------------------------------
(* One lemma for each kind of step.                                        *)

\* A renewal, by a step or by the heartbeat.
LEMMA RenewStep ==
  ASSUME BatchAssumption, BatchInv, NEW r \in Requests, RenewUploadBatchFileLease(r) \/ Heartbeat(r)
  PROVE  BatchInv'
<1> DEFINE f == request[r].file
<1>1. file \in [Files -> FileType] /\ request \in [Requests -> RequestType] /\ f \in Files
  BY Types DEF BatchInv, RequestType
<1>2. file' = [file EXCEPT ![f].lease = LeaseTime] /\ UNCHANGED <<batch, page, answers>>
  BY DEF RenewUploadBatchFileLease, Heartbeat
<1>3. request' = [request EXCEPT ![r].renewed = TRUE] \/ request' = request
  BY DEF RenewUploadBatchFileLease, Heartbeat
<1>4. file' \in [Files -> FileType]
  <2>1. LeaseTime \in -1 .. LeaseTime
    BY Bounds
  <2> QED
    BY <1>1, <1>2, <2>1 DEF FileType
<1>5. \A g \in Files : /\ file'[g].status = file[g].status /\ file'[g].attempts = file[g].attempts
                       /\ file'[g].lock = file[g].lock /\ file'[g].image = file[g].image
  BY <1>1, <1>2 DEF FileType
<1>6. request' \in [Requests -> RequestType]
  BY Zenon, <1>1, <1>3 DEF RequestType
<1>7. \A s \in Requests : /\ request'[s].pc = request[s].pc /\ request'[s].file = request[s].file
                          /\ request'[s].attempt = request[s].attempt /\ request'[s].image = request[s].image
  BY <1>1, <1>3 DEF RequestType
<1> QED
  BY <1>2, <1>4, <1>5, <1>6, <1>7, LeasesMove

\* Time passes.
LEMMA TickStep ==
  ASSUME BatchAssumption, BatchInv, Tick
  PROVE  BatchInv'
<1>1. file \in [Files -> FileType] /\ request \in [Requests -> RequestType]
  BY Types DEF BatchInv
<1>2. ASSUME NEW f \in Files
      PROVE  /\ file'[f] \in FileType
             /\ file'[f].status = file[f].status /\ file'[f].attempts = file[f].attempts
             /\ file'[f].lock = file[f].lock /\ file'[f].image = file[f].image
  <2>1. file'[f] = [file[f] EXCEPT !.lease = IF @ >= 0 THEN @ - 1 ELSE @] /\ file[f] \in FileType
    BY <1>1 DEF Tick
  <2>2. LeaseTime \in Nat
    BY Bounds
  <2>3. file[f].lease \in -1 .. LeaseTime
    BY <2>1 DEF FileType
  <2>4. (IF file[f].lease >= 0 THEN file[f].lease - 1 ELSE file[f].lease) \in -1 .. LeaseTime
    BY <2>2, <2>3
  <2> QED
    BY <2>1, <2>4 DEF FileType
<1>3. file' \in [Files -> FileType]
  BY <1>2 DEF Tick
<1> QED
  BY <1>1, <1>2, <1>3, LeasesMove DEF Tick

\* A step that leaves the rows alone: a request goes on, fails, dies, or gives up
\* an attempt that is no longer its own.
LEMMA MemoryStep ==
  ASSUME BatchAssumption, BatchInv, NEW r \in Requests,
         \/ ProcessUpload(r) \/ Fail(r) \/ Crash(r)
         \/ AbortUploadBatchFileAttempt(r) /\ UNCHANGED <<file, page>>
  PROVE  BatchInv'
<1>1. request[r] \in RequestType /\ request[r].file \in Files /\ file \in [Files -> FileType]
  BY Types DEF BatchInv, RequestType
<1>2. UNCHANGED <<batch, file, page, answers>>
  BY DEF ProcessUpload, Fail, Crash, AbortUploadBatchFileAttempt
<1>3. RequestOK(request[r], file[request[r].file], page[request[r].file])
  BY DEF BatchInv, RequestsInv
<1>4. PICK q \in RequestType :
        /\ request' = [request EXCEPT ![r] = q]
        /\ q.attempt = 0 \/ (q.attempt = request[r].attempt /\ q.file = request[r].file)
        /\ RequestOK(q, file[q.file], page[q.file])
  <2>1. CASE ProcessUpload(r)
    <3> DEFINE q == [request[r] EXCEPT !.pc = "image", !.renewed = FALSE]
    <3>1. request' = [request EXCEPT ![r] = q]
      BY Zenon, <2>1, Types DEF ProcessUpload, Advance, BatchInv
    <3>2. /\ q \in RequestType /\ q.attempt = request[r].attempt /\ q.file = request[r].file
          /\ q.pc = "image"
      BY Zenon, <1>1 DEF RequestType, Steps
    <3>3. request[r].pc = "process"
      BY <2>1 DEF ProcessUpload, At
    <3>4. RequestOK(q, file[q.file], page[q.file])
      BY <1>3, <3>2, <3>3 DEF RequestOK
    <3> QED
      BY Zenon, <3>1, <3>2, <3>4
  <2>2. CASE Fail(r)
    <3> DEFINE q == [request[r] EXCEPT !.pc = "abort"]
    <3>1. request' = [request EXCEPT ![r] = q]
      BY <2>2, Types DEF Fail, BatchInv
    <3>2. /\ q \in RequestType /\ q.attempt = request[r].attempt /\ q.file = request[r].file
          /\ q.pc = "abort"
      BY <1>1 DEF RequestType
    <3>3. request[r].pc # "idle"
      BY <2>2 DEF Fail, Steps
    <3>4. RequestOK(q, file[q.file], page[q.file])
      BY <1>3, <3>2, <3>3 DEF RequestOK
    <3> QED
      BY Zenon, <3>1, <3>2, <3>4
  <2>3. CASE request' = [request EXCEPT ![r] = Idle]
    <3>1. Idle \in RequestType /\ Idle.attempt = 0 /\ file[Idle.file] \in FileType
      BY <1>1, Bounds DEF RequestType
    <3>2. RequestOK(Idle, file[Idle.file], page[Idle.file])
      BY <3>1, IdleOK
    <3> QED
      BY Zenon, <2>3, <3>1, <3>2
  <2> QED
    BY <2>1, <2>2, <2>3 DEF Crash, AbortUploadBatchFileAttempt
<1>5. /\ FilesInv' /\ BatchMatchesFiles'
      /\ \A s \in Requests : RequestOK(request[s], file'[request[s].file], page'[request[s].file])
  BY <1>2, RowsStay
<1>6. request' \in [Requests -> RequestType] /\ RequestsInv' /\ AttemptsDistinct'
  <2>1. RequestOK(q, file'[q.file], page'[q.file])
    BY <1>2, <1>4
  <2> QED
    BY Zenon, <1>4, <1>5, <2>1, OneMoves
<1>7. TypeOK'
  BY <1>2, <1>6, Types, TypesAfter DEF BatchInv
<1> QED
  BY <1>5, <1>6, <1>7 DEF BatchInv

\* The image row is inserted, or found as this attempt left it.
LEMMA ImageStep ==
  ASSUME BatchAssumption, BatchInv, NEW r \in Requests, EnsureUploadBatchImage(r)
  PROVE  BatchInv'
<1>1. PICK f \in Files : f = request[r].file
  BY DEF BatchInv, TypeOK
<1>2. /\ request \in [Requests -> RequestType] /\ page \in [Files -> PageType]
      /\ file \in [Files -> FileType] /\ request[r] \in RequestType /\ page[f] \in PageType
  BY Types DEF BatchInv
<1>3. file[f].status = "processing" /\ file[f].lock = request[r].attempt
  BY <1>1 DEF EnsureUploadBatchImage, Active
<1>4. /\ request[r].attempt = file[f].attempts /\ request[r].attempt # 0 /\ request[r].pc # "idle"
      /\ page[f].image \in {0, request[r].attempt} /\ answers[f] = {}
      /\ \A s \in Requests : request[s].file = f /\ request[s].attempt = request[r].attempt => s = r
  BY <1>1, <1>3, OwnerIsLast
<1> DEFINE pg == [page[f] EXCEPT !.image = request[r].attempt]
           q == [request[r] EXCEPT !.pc = "ocr", !.renewed = FALSE, !.image = request[r].attempt]
<1>5. page' = [page EXCEPT ![f] = pg] /\ request' = [request EXCEPT ![r] = q]
  BY Zenon, <1>1, <1>2, <1>4 DEF EnsureUploadBatchImage, Advance
<1>6. /\ pg \in PageType /\ pg.image = request[r].attempt
      /\ pg.parts = page[f].parts /\ pg.job = page[f].job
  BY <1>2 DEF PageType, RequestType
<1>7. /\ q \in RequestType /\ q.pc = "ocr" /\ q.attempt = request[r].attempt /\ q.file = f
      /\ q.image = request[r].attempt
  BY Zenon, <1>1, <1>2 DEF RequestType, Steps
<1> HIDE DEF pg, q
<1>8. UNCHANGED <<batch, file, answers>>
  BY DEF EnsureUploadBatchImage
<1>9. \A g \in Files : page'[g] = IF g = f THEN pg ELSE page[g]
  BY <1>2, <1>5
<1>10. FilesInv'
  <2> SUFFICES ASSUME NEW g \in Files
               PROVE  FileOK(file[g], page'[g], answers[g])
    BY <1>8 DEF FilesInv
  <2>1. FileOK(file[g], page[g], answers[g])
    BY DEF BatchInv, FilesInv
  <2>2. CASE g = f
    BY <1>3, <1>4, <1>6, <1>9, <2>1, <2>2 DEF FileOK
  <2>3. CASE g # f
    BY <1>9, <2>1, <2>3
  <2> QED
    BY <2>2, <2>3
<1>11. BatchMatchesFiles'
  <2>1. \A g \in Files : page'[g].job = page[g].job
    BY <1>6, <1>9
  <2> QED
    BY <1>8, <2>1 DEF BatchInv, BatchMatchesFiles
<1>12. RequestOK(q, file'[q.file], page'[q.file])
  BY <1>4, <1>7, <1>8, <1>2 DEF RequestOK, FileType, Attempt
<1>13. \A s \in Requests \ {r} : RequestOK(request[s], file'[request[s].file], page'[request[s].file])
  <2> SUFFICES ASSUME NEW s \in Requests \ {r}
               PROVE  RequestOK(request[s], file'[request[s].file], page'[request[s].file])
    OBVIOUS
  <2>1. request[s].file \in Files /\ RequestOK(request[s], file[request[s].file], page[request[s].file])
    BY DEF BatchInv, RequestsInv, TypeOK
  <2>2. CASE request[s].file = f
    <3>1. request[s].attempt # request[r].attempt
      BY <1>4, <2>2
    <3> QED
      BY <1>6, <1>8, <1>9, <2>1, <2>2, <3>1 DEF RequestOK
  <2>3. CASE request[s].file # f
    BY <1>8, <1>9, <2>1, <2>3
  <2> QED
    BY <2>2, <2>3
<1>14. request' \in [Requests -> RequestType] /\ RequestsInv' /\ AttemptsDistinct'
  BY Zenon, <1>1, <1>5, <1>7, <1>12, <1>13, OneMoves
<1>15. TypeOK'
  <2>1. page' \in [Files -> PageType]
    BY <1>2, <1>5, <1>6
  <2> QED
    BY <1>8, <1>14, <2>1, Types, TypesAfter DEF BatchInv
<1> QED
  BY <1>10, <1>11, <1>14, <1>15 DEF BatchInv

\* The OCR run, the annotation page and the job, of a request that has its image.
LEMMA PartStep ==
  ASSUME BatchAssumption, BatchInv, NEW r \in Requests,
         CreateOCRRun(r) \/ CreateInitialAnnotationPage(r) \/ CreateForUploadBatchFile(r)
  PROVE  BatchInv'
<1>1. PICK f \in Files : f = request[r].file
  BY DEF BatchInv, TypeOK
<1>2. /\ request \in [Requests -> RequestType] /\ page \in [Files -> PageType]
      /\ request[r] \in RequestType /\ page[f] \in PageType
  BY Types DEF BatchInv
<1>3. RequestOK(request[r], file[f], page[f])
  BY <1>1 DEF BatchInv, RequestsInv
<1>4. request[r].pc \in {"ocr", "annotate", "enqueue"} /\ page[f].image = request[r].image
  BY <1>1 DEF CreateOCRRun, CreateInitialAnnotationPage, CreateForUploadBatchFile, At, HasImage
<1>5. page[f].image = request[r].attempt /\ page[f].image # 0
  BY <1>3, <1>4 DEF RequestOK
<1>6. PICK pg \in PageType, q \in RequestType :
        /\ page' = [page EXCEPT ![f] = pg] /\ request' = [request EXCEPT ![r] = q]
        /\ pg.image = page[f].image /\ page[f].parts \subseteq pg.parts
        /\ (page[f].job # "none" => pg.job # "none") /\ (batch = "canceled" => pg.job \notin ActiveJob)
        /\ q.attempt = request[r].attempt /\ q.file = f
        /\ RequestOK(q, file[f], pg)
  <2>1. CASE CreateOCRRun(r)
    <3> DEFINE pg == [page[f] EXCEPT !.parts = @ \cup {"ocr"}]
               q == [request[r] EXCEPT !.pc = "annotate", !.renewed = FALSE]
    <3>1. page' = [page EXCEPT ![f] = pg] /\ request' = [request EXCEPT ![r] = q]
      BY Zenon, <1>1, <1>2, <2>1 DEF CreateOCRRun, Advance
    <3>2. /\ pg \in PageType /\ pg.image = page[f].image /\ pg.parts = page[f].parts \cup {"ocr"}
          /\ pg.job = page[f].job
      BY <1>2 DEF PageType, Parts
    <3>3. /\ q \in RequestType /\ q.pc = "annotate" /\ q.attempt = request[r].attempt /\ q.file = f
          /\ q.image = request[r].image
      BY Zenon, <1>1, <1>2 DEF RequestType, Steps
    <3> HIDE DEF pg, q
    <3>4. RequestOK(q, file[f], pg)
      BY Zenon, <1>3, <1>4, <1>5, <3>2, <3>3 DEF RequestOK
    <3>5. batch = "canceled" => pg.job \notin ActiveJob
      BY <3>2 DEF BatchInv, BatchMatchesFiles
    <3> QED
      BY Zenon, <3>1, <3>2, <3>3, <3>4, <3>5
  <2>2. CASE CreateInitialAnnotationPage(r)
    <3> DEFINE pg == [page[f] EXCEPT !.parts = @ \cup {"annotations"}]
               q == [request[r] EXCEPT !.pc = "enqueue", !.renewed = FALSE]
    <3>1. page' = [page EXCEPT ![f] = pg] /\ request' = [request EXCEPT ![r] = q]
      BY Zenon, <1>1, <1>2, <2>2 DEF CreateInitialAnnotationPage, Advance
    <3>2. /\ pg \in PageType /\ pg.image = page[f].image /\ pg.parts = page[f].parts \cup {"annotations"}
          /\ pg.job = page[f].job
      BY <1>2 DEF PageType, Parts
    <3>3. /\ q \in RequestType /\ q.pc = "enqueue" /\ q.attempt = request[r].attempt /\ q.file = f
          /\ q.image = request[r].image /\ request[r].pc = "annotate"
      BY Zenon, <1>1, <1>2, <2>2 DEF RequestType, Steps, CreateInitialAnnotationPage, At
    <3> HIDE DEF pg, q
    <3>4. RequestOK(q, file[f], pg)
      BY <1>3, <1>5, <3>2, <3>3 DEF RequestOK
    <3>5. batch = "canceled" => pg.job \notin ActiveJob
      BY <3>2 DEF BatchInv, BatchMatchesFiles
    <3> QED
      BY Zenon, <3>1, <3>2, <3>3, <3>4, <3>5
  <2>3. CASE CreateForUploadBatchFile(r)
    <3> DEFINE pg == [page[f] EXCEPT !.job = "pending"]
               q == [request[r] EXCEPT !.pc = "complete", !.renewed = FALSE]
    <3>1. page' = [page EXCEPT ![f] = pg] /\ request' = [request EXCEPT ![r] = q]
      BY Zenon, <1>1, <1>2, <2>3 DEF CreateForUploadBatchFile, Advance
    <3>2. /\ pg \in PageType /\ pg.image = page[f].image /\ pg.parts = page[f].parts
          /\ pg.job = "pending"
      BY <1>2 DEF PageType, ActiveJob
    <3>3. /\ q \in RequestType /\ q.pc = "complete" /\ q.attempt = request[r].attempt /\ q.file = f
          /\ q.image = request[r].image /\ request[r].pc = "enqueue"
      BY Zenon, <1>1, <1>2, <2>3 DEF RequestType, Steps, CreateForUploadBatchFile, At
    <3> HIDE DEF pg, q
    <3>4. RequestOK(q, file[f], pg)
      BY <1>3, <1>5, <3>2, <3>3 DEF RequestOK
    <3>5. batch = "in_progress"
      BY <2>3 DEF CreateForUploadBatchFile, Active
    <3> QED
      BY Zenon, <3>1, <3>2, <3>3, <3>4, <3>5
  <2> QED
    BY <2>1, <2>2, <2>3
<1>7. UNCHANGED <<batch, file, answers>>
  BY DEF CreateOCRRun, CreateInitialAnnotationPage, CreateForUploadBatchFile
<1>8. /\ page' \in [Files -> PageType] /\ FilesInv' /\ BatchMatchesFiles'
      /\ \A s \in Requests : RequestOK(request[s], file'[request[s].file], page'[request[s].file])
  BY Zenon, <1>5, <1>6, <1>7, PageGrows
<1>9. RequestOK(q, file'[q.file], page'[q.file])
  BY <1>2, <1>6, <1>7
<1>10. request' \in [Requests -> RequestType] /\ RequestsInv' /\ AttemptsDistinct'
  BY Zenon, <1>1, <1>6, <1>8, <1>9, OneMoves
<1>11. TypeOK'
  BY <1>7, <1>8, <1>10, Types, TypesAfter DEF BatchInv
<1> QED
  BY <1>8, <1>10, <1>11 DEF BatchInv

\* A worker claims the job of a page, or ends its attempt.
LEMMA JobStep ==
  ASSUME BatchAssumption, BatchInv, NEW f \in Files, RunJob(f) \/ SettleJob(f)
  PROVE  BatchInv'
<1>1. page \in [Files -> PageType] /\ page[f] \in PageType
  BY Types DEF BatchInv
<1>2. page[f].job \in ActiveJob /\ UNCHANGED <<batch, file, request, answers>>
  BY DEF RunJob, SettleJob, ActiveJob
<1>3. PICK outcome \in {"running", "settled", "pending"} : page' = [page EXCEPT ![f].job = outcome]
  BY DEF RunJob, SettleJob
<1> DEFINE pg == [page[f] EXCEPT !.job = outcome]
<1>4. page' = [page EXCEPT ![f] = pg]
  BY <1>1, <1>3
<1>5. /\ pg \in PageType /\ pg.image = page[f].image /\ pg.parts = page[f].parts /\ pg.job # "none"
  BY <1>1, <1>3 DEF PageType, ActiveJob
<1> HIDE DEF pg
<1>6. page[f].image # 0
  <2>1. FileOK(file[f], page[f], answers[f])
    BY DEF BatchInv, FilesInv
  <2> QED
    BY <1>2, <2>1 DEF FileOK, ActiveJob
<1>7. batch # "canceled"
  BY <1>2 DEF BatchInv, BatchMatchesFiles
<1>8. /\ page' \in [Files -> PageType] /\ FilesInv' /\ BatchMatchesFiles'
      /\ \A s \in Requests : RequestOK(request[s], file'[request[s].file], page'[request[s].file])
  BY Zenon, <1>2, <1>4, <1>5, <1>6, <1>7, PageGrows
<1>9. RequestsInv' /\ AttemptsDistinct'
  BY <1>2, <1>8 DEF BatchInv, RequestsInv, AttemptsDistinct
<1>10. TypeOK'
  BY <1>2, <1>8, Types, TypesAfter DEF BatchInv
<1> QED
  BY <1>8, <1>9, <1>10 DEF BatchInv

\* A file's row changes, and perhaps its image row goes: the other files, and the
\* requests whose attempts the file still counts, keep what was said of them.
LEMMA RowChanges ==
  ASSUME BatchAssumption, BatchInv, NEW f \in Files, NEW fl \in FileType, NEW pg \in PageType,
         NEW an \in SUBSET Attempt,
         file' = [file EXCEPT ![f] = fl], page' = [page EXCEPT ![f] = pg],
         answers' = [answers EXCEPT ![f] = an],
         fl.attempts >= file[f].attempts, pg \in {page[f], NoPage}, FileOK(fl, pg, an)
  PROVE  /\ file' \in [Files -> FileType] /\ page' \in [Files -> PageType]
         /\ answers' \in [Files -> SUBSET Attempt] /\ FilesInv'
         /\ \A s \in Requests : RequestOK(request[s], file'[request[s].file], page'[request[s].file])
<1>1. /\ file \in [Files -> FileType] /\ page \in [Files -> PageType]
      /\ answers \in [Files -> SUBSET Attempt] /\ request \in [Requests -> RequestType]
  BY Types DEF BatchInv
<1>2. /\ file' \in [Files -> FileType] /\ page' \in [Files -> PageType]
      /\ answers' \in [Files -> SUBSET Attempt]
  BY <1>1
<1>3. \A g \in Files : /\ file'[g] = IF g = f THEN fl ELSE file[g]
                       /\ page'[g] = IF g = f THEN pg ELSE page[g]
                       /\ answers'[g] = IF g = f THEN an ELSE answers[g]
  <2>1. \A g \in Files : file'[g] = IF g = f THEN fl ELSE file[g]
    BY <1>1
  <2>2. \A g \in Files : page'[g] = IF g = f THEN pg ELSE page[g]
    BY <1>1
  <2>3. \A g \in Files : answers'[g] = IF g = f THEN an ELSE answers[g]
    BY <1>1
  <2> QED
    BY <2>1, <2>2, <2>3
<1>4. FilesInv'
  <2> SUFFICES ASSUME NEW g \in Files
               PROVE  FileOK(file'[g], page'[g], answers'[g])
    BY DEF FilesInv
  <2>1. FileOK(file[g], page[g], answers[g])
    BY DEF BatchInv, FilesInv
  <2>2. CASE g = f
    <3>1. file'[g] = fl /\ page'[g] = pg /\ answers'[g] = an
      BY <1>3, <2>2
    <3> QED
      BY <3>1
  <2>3. CASE g # f
    <3>1. file'[g] = file[g] /\ page'[g] = page[g] /\ answers'[g] = answers[g]
      BY <1>3, <2>3
    <3> QED
      BY <2>1, <3>1
  <2> QED
    BY <2>2, <2>3
<1>5. ASSUME NEW s \in Requests
      PROVE  RequestOK(request[s], file'[request[s].file], page'[request[s].file])
  <2>1. request[s].file \in Files /\ request[s] \in RequestType
    BY <1>1 DEF RequestType
  <2>2. RequestOK(request[s], file[request[s].file], page[request[s].file])
    BY DEF BatchInv, RequestsInv
  <2>3. CASE request[s].file = f
    <3>1. request[s].attempt <= fl.attempts
      <4>1. request[s].attempt \in Int /\ file[f].attempts \in Int /\ fl.attempts \in Int
        BY <1>1, <2>1, Bounds DEF FileType, RequestType, Attempt
      <4> QED
        BY <2>2, <2>3, <4>1 DEF RequestOK
    <3>2. CASE pg = page[f]
      BY <1>3, <2>2, <2>3, <3>1, <3>2 DEF RequestOK
    <3>3. CASE pg = NoPage
      <4>1. page'[f].image = 0
        BY <1>3, <3>3 DEF NoPage
      <4> QED
        BY <1>3, <2>2, <2>3, <3>1, <4>1 DEF RequestOK
    <3> QED
      BY <3>2, <3>3
  <2>4. CASE request[s].file # f
    BY <1>3, <2>1, <2>2, <2>4
  <2> QED
    BY <2>3, <2>4
<1> QED
  BY <1>2, <1>4, <1>5

\* The batch's status when one file's row changes while it is in progress.
LEMMA BatchFollows ==
  ASSUME BatchInv, NEW f \in Files, batch = "in_progress",
         \A g \in Files \ {f} : file'[g] = file[g],
         \/ file'[f].status # "completed" /\ batch' = batch
         \/ /\ file'[f].status = "completed"
            /\ batch' = IF BatchReady(f) THEN "completed" ELSE batch
  PROVE  BatchMatchesFiles' /\ batch' \in {"in_progress", "completed"}
<1>1. CASE file'[f].status # "completed" /\ batch' = batch
  BY <1>1 DEF BatchMatchesFiles
<1>2. CASE file'[f].status = "completed" /\ batch' = IF BatchReady(f) THEN "completed" ELSE batch
  BY <1>2 DEF BatchMatchesFiles, BatchReady
<1> QED
  BY <1>1, <1>2

\* The completion of a file.
LEMMA CompleteStep ==
  ASSUME BatchAssumption, BatchInv, NEW r \in Requests, NEW answered \in BOOLEAN,
         CompleteUploadBatchFile(r, answered)
  PROVE  BatchInv'
<1>1. PICK f \in Files : f = request[r].file
  BY DEF BatchInv, TypeOK
<1>2. /\ request \in [Requests -> RequestType] /\ page \in [Files -> PageType]
      /\ file \in [Files -> FileType] /\ answers \in [Files -> SUBSET Attempt]
      /\ request[r] \in RequestType /\ page[f] \in PageType /\ file[f] \in FileType
  BY Types DEF BatchInv
<1>3. /\ file[f].status = "processing" /\ file[f].lock = request[r].attempt /\ batch = "in_progress"
      /\ page[f].image = request[r].image /\ page[f].job # "none" /\ request[r].pc = "complete"
  BY <1>1 DEF CompleteUploadBatchFile, Active, At, HasImage
<1>4. request[r].attempt = file[f].attempts /\ request[r].attempt # 0 /\ answers[f] = {}
  BY <1>1, <1>3, OwnerIsLast
<1>5. RequestOK(request[r], file[f], page[f])
  BY <1>1 DEF BatchInv, RequestsInv
<1>6. page[f].image = file[f].attempts /\ page[f].parts = Parts
  BY <1>2, <1>3, <1>4, <1>5 DEF RequestOK, PageType, Parts
<1> DEFINE fl == [file[f] EXCEPT !.status = "completed", !.lock = 0, !.lease = -1, !.image = request[r].image]
           an == IF answered THEN answers[f] \cup {request[r].image} ELSE answers[f]
           q == IF answered THEN Idle ELSE [request[r] EXCEPT !.pc = "abort"]
<1>7. /\ file' = [file EXCEPT ![f] = fl] /\ page' = [page EXCEPT ![f] = page[f]]
      /\ answers' = [answers EXCEPT ![f] = an] /\ request' = [request EXCEPT ![r] = q]
  <2>1. file' = [file EXCEPT ![f] = fl]
    BY Zenon, <1>1, <1>2 DEF CompleteUploadBatchFile
  <2>2. page' = [page EXCEPT ![f] = page[f]]
    BY <1>2 DEF CompleteUploadBatchFile
  <2>3. answers' = [answers EXCEPT ![f] = an]
    BY Zenon, <1>1, <1>2 DEF CompleteUploadBatchFile
  <2>4. request' = [request EXCEPT ![r] = q]
    BY <1>2 DEF CompleteUploadBatchFile
  <2> QED
    BY <2>1, <2>2, <2>3, <2>4
<1>8. /\ fl \in FileType /\ fl.status = "completed" /\ fl.attempts = file[f].attempts
      /\ fl.image = request[r].image
  <2>1. 0 \in Attempt /\ -1 \in -1 .. LeaseTime /\ request[r].image \in Attempt
    BY <1>2, Bounds DEF RequestType
  <2> QED
    BY Zenon, <1>2, <2>1 DEF FileType
<1>9. an \in SUBSET Attempt /\ an \subseteq {request[r].image}
  BY <1>2, <1>4 DEF RequestType
<1>10. /\ q \in RequestType /\ (q.attempt = 0 \/ (q.attempt = request[r].attempt /\ q.file = f))
       /\ (q = Idle \/ (q.pc = "abort" /\ q.attempt = request[r].attempt /\ q.file = f))
  BY <1>1, <1>2, Bounds DEF RequestType
<1> HIDE DEF fl, an, q
<1>11. FileOK(fl, page[f], an)
  BY Zenon, <1>3, <1>4, <1>6, <1>8, <1>9 DEF FileOK
<1>12. /\ file' \in [Files -> FileType] /\ page' \in [Files -> PageType]
       /\ answers' \in [Files -> SUBSET Attempt] /\ FilesInv'
       /\ \A s \in Requests : RequestOK(request[s], file'[request[s].file], page'[request[s].file])
  <2>1. fl.attempts >= file[f].attempts
    BY <1>2, <1>8, Bounds DEF FileType, Attempt
  <2> QED
    BY Zenon, <1>2, <1>7, <1>8, <1>9, <1>11, <2>1, RowChanges
<1>13. RequestOK(q, file'[q.file], page'[q.file])
  <2>1. CASE q = Idle
    <3>1. file'[q.file] \in FileType
      BY <1>10, <1>12 DEF RequestType
    <3> QED
      BY <2>1, <3>1, IdleOK
  <2>2. CASE q.pc = "abort" /\ q.attempt = request[r].attempt /\ q.file = f
    <3>1. RequestOK(request[r], file'[f], page'[f])
      BY <1>1, <1>12
    <3> QED
      BY <1>4, <2>2, <3>1 DEF RequestOK
  <2> QED
    BY <1>10, <2>1, <2>2
<1>14. request' \in [Requests -> RequestType] /\ RequestsInv' /\ AttemptsDistinct'
  BY Zenon, <1>1, <1>7, <1>10, <1>12, <1>13, OneMoves
<1>15. BatchMatchesFiles' /\ batch' \in {"in_progress", "completed"}
  <2>1. \A g \in Files \ {f} : file'[g] = file[g]
    BY <1>2, <1>7
  <2>2. file'[f].status = "completed"
    BY <1>2, <1>7, <1>8
  <2>3. batch' = IF BatchReady(f) THEN "completed" ELSE batch
    BY <1>1 DEF CompleteUploadBatchFile
  <2> QED
    BY <1>3, <2>1, <2>2, <2>3, BatchFollows
<1>16. TypeOK'
  BY <1>12, <1>14, <1>15, TypesAfter
<1> QED
  BY <1>12, <1>14, <1>15, <1>16 DEF BatchInv

\* The abort of an attempt by its owner.
LEMMA AbortStep ==
  ASSUME BatchAssumption, BatchInv, NEW r \in Requests, AbortUploadBatchFileAttempt(r), OwnsAttempt(r)
  PROVE  BatchInv'
<1>1. PICK f \in Files : f = request[r].file
  BY DEF BatchInv, TypeOK
<1>2. /\ request \in [Requests -> RequestType] /\ page \in [Files -> PageType]
      /\ file \in [Files -> FileType] /\ answers \in [Files -> SUBSET Attempt]
      /\ file[f] \in FileType /\ answers[f] \in SUBSET Attempt
  BY Types DEF BatchInv
<1>3. file[f].status = "processing" /\ file[f].lock = request[r].attempt /\ batch = "in_progress"
  BY <1>1 DEF OwnsAttempt
<1>4. answers[f] = {}
  BY <1>1, <1>3, OwnerIsLast
<1> DEFINE fl == [file[f] EXCEPT !.status = "failed", !.lock = 0, !.lease = -1, !.image = 0]
<1>5. /\ file' = [file EXCEPT ![f] = fl] /\ page' = [page EXCEPT ![f] = NoPage]
      /\ answers' = [answers EXCEPT ![f] = answers[f]] /\ request' = [request EXCEPT ![r] = Idle]
      /\ batch' = batch
  <2>1. file' = [file EXCEPT ![f] = fl]
    BY Zenon, <1>1, <1>2 DEF AbortUploadBatchFileAttempt
  <2> QED
    BY <1>1, <1>2, <2>1 DEF AbortUploadBatchFileAttempt, AbortCleansImage
<1>6. fl \in FileType /\ fl.status = "failed" /\ fl.attempts = file[f].attempts
  <2>1. 0 \in Attempt /\ -1 \in -1 .. LeaseTime
    BY Bounds
  <2> QED
    BY Zenon, <1>2, <2>1 DEF FileType, Incomplete
<1> HIDE DEF fl
<1>7. FileOK(fl, NoPage, answers[f])
  BY <1>4, <1>6 DEF FileOK, NoPage
<1>8. /\ file' \in [Files -> FileType] /\ page' \in [Files -> PageType]
      /\ answers' \in [Files -> SUBSET Attempt] /\ FilesInv'
      /\ \A s \in Requests : RequestOK(request[s], file'[request[s].file], page'[request[s].file])
  <2>1. fl.attempts >= file[f].attempts /\ NoPage \in PageType
    BY <1>2, <1>6, Bounds DEF FileType, Attempt
  <2> QED
    BY Zenon, <1>2, <1>5, <1>6, <1>7, <2>1, RowChanges
<1>9. request' \in [Requests -> RequestType] /\ RequestsInv' /\ AttemptsDistinct'
  <2>1. Idle \in RequestType /\ Idle.attempt = 0 /\ file'[Idle.file] \in FileType
    BY <1>8, Bounds DEF RequestType
  <2>2. RequestOK(Idle, file'[Idle.file], page'[Idle.file])
    BY <2>1, IdleOK
  <2> QED
    BY Zenon, <1>5, <1>8, <2>1, <2>2, OneMoves
<1>10. BatchMatchesFiles' /\ batch' \in {"in_progress", "completed"}
  <2>1. (\A g \in Files \ {f} : file'[g] = file[g]) /\ file'[f].status # "completed"
    BY <1>2, <1>5, <1>6
  <2> QED
    BY <1>3, <1>5, <2>1, BatchFollows
<1>11. TypeOK'
  BY <1>8, <1>9, <1>10, TypesAfter
<1> QED
  BY <1>8, <1>9, <1>10, <1>11 DEF BatchInv

\* A claim: the file counts one more attempt, which is the request's.
LEMMA ClaimStep ==
  ASSUME BatchAssumption, BatchInv, NEW r \in Requests, NEW f \in Files, ClaimUploadBatchFile(r, f)
  PROVE  BatchInv'
<1>1. /\ request \in [Requests -> RequestType] /\ page \in [Files -> PageType]
      /\ file \in [Files -> FileType] /\ answers \in [Files -> SUBSET Attempt]
      /\ file[f] \in FileType /\ answers[f] \in SUBSET Attempt
  BY Types DEF BatchInv
<1>2. batch = "in_progress" /\ file[f].status # "completed" /\ file[f].attempts < MaxAttempts
  BY DEF ClaimUploadBatchFile, Claimable
<1>3. answers[f] = {}
  BY <1>2 DEF BatchInv, FilesInv, FileOK
<1>4. PICK n : n = file[f].attempts + 1
  OBVIOUS
<1>5. n \in Attempt /\ n # 0 /\ n > file[f].attempts /\ n \in Nat /\ file[f].attempts \in Nat
  BY <1>1, <1>2, <1>4, Bounds DEF FileType, Attempt
<1> DEFINE fl == [status |-> "processing", attempts |-> n, lock |-> n, lease |-> LeaseTime, image |-> 0]
           q == [Idle EXCEPT !.pc = "process", !.file = f, !.attempt = n]
<1>6. /\ file' = [file EXCEPT ![f] = fl] /\ page' = [page EXCEPT ![f] = NoPage]
      /\ answers' = [answers EXCEPT ![f] = answers[f]] /\ request' = [request EXCEPT ![r] = q]
      /\ batch' = batch
  BY <1>1, <1>4 DEF ClaimUploadBatchFile
<1>7. fl \in FileType /\ fl.status = "processing" /\ fl.attempts = n /\ fl.lock = n
  <2>1. 0 \in Attempt /\ LeaseTime \in -1 .. LeaseTime
    BY Bounds
  <2> QED
    BY <1>5, <2>1 DEF FileType, Incomplete
<1>8. q \in RequestType /\ q.pc = "process" /\ q.file = f /\ q.attempt = n
  BY Zenon, <1>5, Bounds DEF RequestType, Steps
<1> HIDE DEF fl, q
<1>9. FileOK(fl, NoPage, answers[f])
  BY <1>3, <1>5, <1>7 DEF FileOK, NoPage
<1>10. /\ file' \in [Files -> FileType] /\ page' \in [Files -> PageType]
       /\ answers' \in [Files -> SUBSET Attempt] /\ FilesInv'
       /\ \A s \in Requests : RequestOK(request[s], file'[request[s].file], page'[request[s].file])
  <2>1. fl.attempts >= file[f].attempts /\ NoPage \in PageType
    BY <1>5, <1>7, Bounds
  <2> QED
    BY Zenon, <1>1, <1>6, <1>7, <1>9, <2>1, RowChanges
<1>11. \A s \in Requests : request'[s] = IF s = r THEN q ELSE request[s]
  BY <1>1, <1>6
<1>12. RequestsInv'
  <2>1. RequestOK(q, file'[f], page'[f])
    <3>1. file'[f] = fl /\ page'[f] = NoPage
      BY <1>1, <1>6
    <3> QED
      BY <1>5, <1>7, <1>8, <3>1 DEF RequestOK, NoPage
  <2> QED
    BY <1>8, <1>10, <1>11, <2>1 DEF RequestsInv
<1>13. \A s \in Requests : request[s].file = f => request[s].attempt # n
  <2> SUFFICES ASSUME NEW s \in Requests, request[s].file = f
               PROVE  request[s].attempt # n
    OBVIOUS
  <2>1. request[s].attempt <= file[f].attempts
    BY DEF BatchInv, RequestsInv, RequestOK
  <2>2. request[s].attempt \in Int
    BY <1>1, Bounds DEF RequestType, Attempt
  <2> QED
    BY <1>5, <2>1, <2>2
<1>14. AttemptsDistinct'
  BY <1>8, <1>11, <1>13 DEF BatchInv, AttemptsDistinct
<1>15. BatchMatchesFiles' /\ batch' \in {"in_progress", "completed"}
  <2>1. (\A g \in Files \ {f} : file'[g] = file[g]) /\ file'[f].status # "completed"
    BY <1>1, <1>6, <1>7
  <2> QED
    BY <1>2, <1>6, <2>1, BatchFollows
<1>16. TypeOK'
  <2>1. request' \in [Requests -> RequestType]
    BY <1>1, <1>6, <1>8
  <2> QED
    BY <1>10, <1>15, <2>1, TypesAfter
<1> QED
  BY <1>10, <1>12, <1>14, <1>15, <1>16 DEF BatchInv

\* The response of a completed file is sent again.
LEMMA ReplayStep ==
  ASSUME BatchAssumption, BatchInv, NEW r \in Requests, NEW f \in Files, ReplayCompleted(r, f)
  PROVE  BatchInv'
<1>1. /\ answers \in [Files -> SUBSET Attempt] /\ file[f].image \in Attempt
      /\ UNCHANGED <<batch, file, page, request>> /\ file[f].status = "completed"
      /\ answers' = [answers EXCEPT ![f] = answers[f] \cup {file[f].image}]
  BY DEF BatchInv, TypeOK, ReplayCompleted
<1>2. answers' \in [Files -> SUBSET Attempt]
  BY <1>1
<1>3. FilesInv'
  <2> SUFFICES ASSUME NEW g \in Files
               PROVE  FileOK(file[g], page[g], answers'[g])
    BY <1>1 DEF FilesInv
  <2>1. FileOK(file[g], page[g], answers[g])
    BY DEF BatchInv, FilesInv
  <2>2. answers'[g] = IF g = f THEN answers[f] \cup {file[f].image} ELSE answers[g]
    BY <1>1
  <2> QED
    BY <1>1, <2>1, <2>2 DEF FileOK
<1>4. RequestsInv' /\ AttemptsDistinct' /\ BatchMatchesFiles'
  BY <1>1 DEF BatchInv, RequestsInv, AttemptsDistinct, BatchMatchesFiles
<1>5. TypeOK'
  BY <1>1, <1>2 DEF BatchInv, TypeOK
<1> QED
  BY <1>3, <1>4, <1>5 DEF BatchInv

\* The client cancels the batch.
LEMMA CancelStep ==
  ASSUME BatchAssumption, BatchInv, CancelUploadBatch
  PROVE  BatchInv'
<1>1. /\ request \in [Requests -> RequestType] /\ page \in [Files -> PageType]
      /\ file \in [Files -> FileType] /\ answers \in [Files -> SUBSET Attempt]
      /\ batch = "in_progress" /\ batch' = "canceled" /\ UNCHANGED <<request, answers>>
  BY Zenon, Types DEF BatchInv, CancelUploadBatch
<1>2. ASSUME NEW f \in Files
      PROVE  /\ file'[f] \in FileType /\ file'[f].attempts = file[f].attempts
             /\ file[f].status = "completed" => file'[f] = file[f]
             /\ file[f].status # "completed" => file'[f].status = "canceled"
  <2>1. file[f] \in FileType /\ 0 \in Attempt /\ -1 \in -1 .. LeaseTime
    BY <1>1, Bounds
  <2>2. CASE file[f].status \in Incomplete
    <3>1. file'[f] = [file[f] EXCEPT !.status = "canceled", !.lock = 0, !.lease = -1, !.image = 0]
      BY Zenon, <2>2 DEF CancelUploadBatch
    <3> QED
      BY Zenon, <2>1, <2>2, <3>1 DEF FileType, Incomplete
  <2>3. CASE file[f].status \notin Incomplete
    <3>1. file'[f] = file[f]
      BY Zenon, <2>3 DEF CancelUploadBatch
    <3> QED
      BY <2>1, <2>3, <3>1 DEF FileType
  <2> QED
    BY <2>2, <2>3
<1>3. ASSUME NEW f \in Files
      PROVE  /\ page'[f] \in PageType /\ page'[f].job \notin ActiveJob
             /\ file[f].status # "completed" => page'[f] = NoPage
             /\ file[f].status = "completed" =>
                  /\ page'[f].image = page[f].image /\ page'[f].parts = page[f].parts
                  /\ page[f].job # "none" => page'[f].job # "none"
  <2>1. page'[f] = CanceledPage(f) /\ page[f] \in PageType
    BY Zenon, <1>1 DEF CancelUploadBatch
  <2>2. CASE file[f].status = "completed"
    <3>1. page'[f] = [page[f] EXCEPT !.job = IF @ \in ActiveJob THEN "canceled" ELSE @]
      BY <2>1, <2>2 DEF CanceledPage
    <3> QED
      BY <2>1, <2>2, <3>1 DEF PageType, ActiveJob
  <2>3. CASE file[f].status # "completed"
    <3>1. page'[f] = NoPage
      BY <2>1, <2>3 DEF CanceledPage
    <3> QED
      BY <2>3, <3>1, Bounds DEF NoPage, ActiveJob
  <2> QED
    BY <2>2, <2>3
<1>4. file' \in [Files -> FileType] /\ page' \in [Files -> PageType]
  BY Zenon, <1>2, <1>3 DEF CancelUploadBatch
<1>5. FilesInv'
  <2> SUFFICES ASSUME NEW f \in Files
               PROVE  FileOK(file'[f], page'[f], answers[f])
    BY <1>1 DEF FilesInv
  <2>1. FileOK(file[f], page[f], answers[f])
    BY DEF BatchInv, FilesInv
  <2>2. CASE file[f].status = "completed"
    BY <1>2, <1>3, <2>1, <2>2 DEF FileOK
  <2>3. CASE file[f].status # "completed"
    BY <1>2, <1>3, <2>1, <2>3 DEF FileOK, NoPage
  <2> QED
    BY <2>2, <2>3
<1>6. RequestsInv'
  <2> SUFFICES ASSUME NEW r \in Requests
               PROVE  RequestOK(request[r], file'[request[r].file], page'[request[r].file])
    BY <1>1 DEF RequestsInv
  <2>1. request[r].file \in Files /\ RequestOK(request[r], file[request[r].file], page[request[r].file])
    BY <1>1 DEF BatchInv, RequestsInv, RequestType
  <2>2. CASE file[request[r].file].status = "completed"
    BY <1>2, <1>3, <2>1, <2>2 DEF RequestOK
  <2>3. CASE file[request[r].file].status # "completed"
    <3>1. page'[request[r].file].image = 0
      BY <1>3, <2>1, <2>3 DEF NoPage
    <3> QED
      BY <1>2, <2>1, <3>1 DEF RequestOK
  <2> QED
    BY <2>2, <2>3
<1>7. BatchMatchesFiles'
  <2>1. PICK f \in Files : file[f].status # "completed"
    BY <1>1 DEF BatchInv, BatchMatchesFiles
  <2>2. file'[f].status = "canceled"
    BY <1>2, <2>1
  <2>3. \A g \in Files : file'[g].status \in {"completed", "canceled"}
    BY <1>2
  <2> QED
    BY <1>1, <1>3, <2>2, <2>3 DEF BatchMatchesFiles
<1>8. AttemptsDistinct'
  BY <1>1 DEF BatchInv, AttemptsDistinct
<1>9. TypeOK'
  BY <1>1, <1>4, TypesAfter
<1> QED
  BY <1>5, <1>6, <1>7, <1>8, <1>9 DEF BatchInv

\* The batch is declared.
LEMMA StartStep ==
  ASSUME BatchInv, StartUploadBatch
  PROVE  BatchInv'
<1>1. batch = "none" /\ batch' = "in_progress" /\ UNCHANGED <<file, page, request, answers>>
  BY DEF StartUploadBatch
<1>2. TypeOK' /\ BatchMatchesFiles'
  BY <1>1 DEF BatchInv, TypeOK, BatchMatchesFiles
<1>3. FilesInv' /\ RequestsInv' /\ AttemptsDistinct'
  BY <1>1 DEF BatchInv, FilesInv, RequestsInv, AttemptsDistinct
<1> QED
  BY <1>2, <1>3 DEF BatchInv

-----------------------------------------------------------------------------
(* The theorems.                                                           *)

\* Every step keeps the invariant.
LEMMA NextInv ==
  ASSUME BatchAssumption, BatchInv, [Next]_vars
  PROVE  BatchInv'
<1>1. CASE StartUploadBatch
  BY <1>1, StartStep
<1>2. CASE CancelUploadBatch
  BY <1>2, CancelStep
<1>3. CASE Tick
  BY <1>3, TickStep
<1>4. ASSUME NEW f \in Files, RunJob(f) \/ SettleJob(f)
      PROVE  BatchInv'
  BY <1>4, JobStep
<1>5. ASSUME NEW r \in Requests, Step(r) \/ Heartbeat(r) \/ Crash(r)
      PROVE  BatchInv'
  <2>1. CASE RenewUploadBatchFileLease(r) \/ Heartbeat(r)
    BY <2>1, RenewStep
  <2>2. CASE ProcessUpload(r) \/ Fail(r) \/ Crash(r)
    BY <2>2, MemoryStep
  <2>3. CASE EnsureUploadBatchImage(r)
    BY <2>3, ImageStep
  <2>4. CASE CreateOCRRun(r) \/ CreateInitialAnnotationPage(r) \/ CreateForUploadBatchFile(r)
    BY <2>4, PartStep
  <2>5. ASSUME NEW answered \in BOOLEAN, CompleteUploadBatchFile(r, answered)
        PROVE  BatchInv'
    BY <2>5, CompleteStep
  <2>6. CASE AbortUploadBatchFileAttempt(r)
    <3>1. CASE OwnsAttempt(r)
      BY <2>6, <3>1, AbortStep
    <3>2. CASE ~OwnsAttempt(r)
      <4>1. UNCHANGED <<file, page>>
        BY <2>6, <3>2 DEF AbortUploadBatchFileAttempt
      <4> QED
        BY <2>6, <4>1, MemoryStep
    <3> QED
      BY <3>1, <3>2
  <2> QED
    BY <1>5, <2>1, <2>2, <2>3, <2>4, <2>5, <2>6 DEF Step
<1>6. ASSUME NEW r \in Requests, NEW f \in Files, ClaimUploadBatchFile(r, f) \/ ReplayCompleted(r, f)
      PROVE  BatchInv'
  BY <1>6, ClaimStep, ReplayStep
<1>7. CASE UNCHANGED vars
  BY <1>7 DEF vars, BatchInv, TypeOK, FilesInv, RequestsInv, AttemptsDistinct, BatchMatchesFiles
<1> QED
  BY <1>1, <1>2, <1>3, <1>4, <1>5, <1>6, <1>7 DEF Next

\* The invariant holds in every state of the batch.
THEOREM BatchInvariant ==
  ASSUME BatchAssumption
  PROVE  Spec => []BatchInv
<1>1. Init => BatchInv
  BY InitInv
<1>2. BatchInv /\ [Next]_vars => BatchInv'
  BY NextInv
<1> QED
  BY <1>1, <1>2, PTL DEF Spec

\* A completed file's image, OCR run, annotation page and job were all made by the
\* attempt that completed it, and every response for the file named that image
\* (ClaimUploadBatchFile, CompleteUploadBatchFile).
THEOREM CompletedFilesStayWhole ==
  ASSUME BatchAssumption
  PROVE  Spec => []CompletedFilesWhole
<1>1. BatchInv => CompletedFilesWhole
  BY DEF BatchInv, FilesInv, FileOK, CompletedFilesWhole
<1> QED
  BY <1>1, BatchInvariant, PTL

\* An image that exists belongs to the current attempt of a file that is in
\* progress or complete: nothing is left of any other (cleanupUploadBatchFileImage).
THEOREM ImagesStayOwned ==
  ASSUME BatchAssumption
  PROVE  Spec => []ImagesHaveOwners
<1>1. BatchInv => ImagesHaveOwners
  BY DEF BatchInv, FilesInv, FileOK, ImagesHaveOwners
<1> QED
  BY <1>1, BatchInvariant, PTL

\* The batch is complete exactly when its files are, and a canceled one has no
\* job pending or running (CompleteUploadBatchIfReadyManual, CancelUploadBatch).
THEOREM BatchStaysInStep ==
  ASSUME BatchAssumption
  PROVE  Spec => []BatchMatchesFiles
<1>1. BatchInv => BatchMatchesFiles
  BY DEF BatchInv
<1> QED
  BY <1>1, BatchInvariant, PTL

\* What a step may do to a request that it does not move, and whose lease is live.
Undisturbed(r) ==
    (Active(r) /\ request'[r] = request[r]) =>
        \/ Active(r)' /\ page'[request[r].file].image = page[request[r].file].image
        \/ batch' = "canceled"
        \/ page' = page /\ file'[request[r].file].lease = 0

\* No step disturbs it: whoever else writes the rows of a file holds its lock,
\* and the lock names one request.
LEMMA StepUndisturbed ==
  ASSUME BatchAssumption, BatchInv, Next, NEW r \in Requests
  PROVE  Undisturbed(r)
<1> SUFFICES ASSUME Active(r), request'[r] = request[r]
             PROVE  \/ Active(r)' /\ page'[request[r].file].image = page[request[r].file].image
                    \/ batch' = "canceled"
                    \/ page' = page /\ file'[request[r].file].lease = 0
  BY DEF Undisturbed
<1>1. PICK f \in Files : f = request[r].file
  BY DEF BatchInv, TypeOK
<1>2. /\ request \in [Requests -> RequestType] /\ page \in [Files -> PageType]
      /\ file \in [Files -> FileType] /\ file[f] \in FileType /\ page[f] \in PageType
      /\ file[f].lease \in Int /\ LeaseTime \in Int /\ LeaseTime > 0
  BY Types, Bounds DEF BatchInv, FileType
<1>3. /\ batch = "in_progress" /\ file[f].status = "processing" /\ file[f].lock = request[r].attempt
      /\ file[f].lease > 0
  BY <1>1 DEF Active, LiveLease
<1>4. /\ request[r].pc # "idle" /\ page[f].image \in {0, request[r].attempt}
      /\ \A s \in Requests : request[s].file = f /\ request[s].attempt = request[r].attempt => s = r
  BY Zenon, <1>1, <1>3, OwnerIsLast
<1> DEFINE Kept == /\ batch' = batch /\ file'[f].status = file[f].status /\ file'[f].lock = file[f].lock
                   /\ file'[f].lease > 0 /\ page'[f].image = page[f].image
<1>5. Kept => Active(r)' /\ page'[request[r].file].image = page[request[r].file].image
  BY <1>1, <1>3 DEF Active, LiveLease
<1>6. CASE StartUploadBatch
  BY <1>3, <1>6 DEF StartUploadBatch
<1>7. CASE CancelUploadBatch
  BY Zenon, <1>7 DEF CancelUploadBatch
<1>8. CASE Tick
  <2>1. /\ file'[f] = [file[f] EXCEPT !.lease = IF @ >= 0 THEN @ - 1 ELSE @]
        /\ page' = page /\ batch' = batch
    BY <1>8 DEF Tick
  <2>2. /\ file'[f].status = file[f].status /\ file'[f].lock = file[f].lock
        /\ file'[f].lease = file[f].lease - 1
    BY <1>2, <1>3, <2>1 DEF FileType
  <2>3. file'[f].lease = 0 \/ file'[f].lease > 0
    BY <1>2, <1>3, <2>2
  <2> QED
    BY <1>1, <1>5, <2>1, <2>2, <2>3
<1>9. ASSUME NEW g \in Files, RunJob(g) \/ SettleJob(g)
      PROVE  Kept
  <2>1. PICK outcome : page' = [page EXCEPT ![g].job = outcome]
    BY <1>9 DEF RunJob, SettleJob
  <2>2. page'[f].image = page[f].image
    BY <1>2, <2>1 DEF PageType
  <2> QED
    BY <1>3, <1>9, <2>2 DEF RunJob, SettleJob
<1>10. ASSUME NEW s \in Requests, NEW g \in Files, ClaimUploadBatchFile(s, g) \/ ReplayCompleted(s, g)
       PROVE  Kept
  <2>1. CASE ClaimUploadBatchFile(s, g)
    <3>1. g # f
      BY <1>2, <1>3, <2>1 DEF ClaimUploadBatchFile, Claimable, Expired
    <3> QED
      BY <1>2, <1>3, <2>1, <3>1 DEF ClaimUploadBatchFile
  <2>2. CASE ReplayCompleted(s, g)
    BY <1>3, <2>2 DEF ReplayCompleted
  <2> QED
    BY <1>10, <2>1, <2>2
<1>11. ASSUME NEW s \in Requests, RenewUploadBatchFileLease(s) \/ Heartbeat(s)
       PROVE  Kept
  <2>1. PICK g \in Files : g = request[s].file
    BY DEF BatchInv, TypeOK
  <2>2. file' = [file EXCEPT ![g].lease = LeaseTime] /\ page' = page /\ batch' = batch
    BY <1>11, <2>1 DEF RenewUploadBatchFileLease, Heartbeat
  <2>3. /\ file'[f].status = file[f].status /\ file'[f].lock = file[f].lock
        /\ file'[f].lease \in {file[f].lease, LeaseTime}
    BY <1>2, <2>2 DEF FileType
  <2> QED
    BY <1>2, <1>3, <2>2, <2>3
<1>12. ASSUME NEW s \in Requests, Step(s) \/ Crash(s), ~RenewUploadBatchFileLease(s)
       PROVE  Kept
  <2>1. s # r
    <3>1. request[s].pc # "idle" /\ request'[s].pc # request[s].pc
      <4>1. request[s] \in RequestType /\ Idle.pc = "idle"
        BY <1>2, Bounds
      <4>2. ASSUME NEW step, request' = Advance(s, step)
            PROVE  request'[s].pc = step
        BY <1>2, <4>2 DEF Advance, RequestType
      <4>3. CASE ProcessUpload(s) \/ CreateOCRRun(s) \/ CreateInitialAnnotationPage(s) \/ CreateForUploadBatchFile(s)
        BY <4>2, <4>3 DEF ProcessUpload, CreateOCRRun, CreateInitialAnnotationPage, CreateForUploadBatchFile, At
      <4>4. CASE EnsureUploadBatchImage(s)
        BY <1>2, <4>4 DEF EnsureUploadBatchImage, At, Advance, RequestType
      <4>5. ASSUME NEW answered \in BOOLEAN, CompleteUploadBatchFile(s, answered)
            PROVE  request[s].pc # "idle" /\ request'[s].pc # request[s].pc
        BY <1>2, <4>1, <4>5 DEF CompleteUploadBatchFile, At, RequestType
      <4>6. CASE Fail(s)
        BY <1>2, <4>6 DEF Fail, Steps, RequestType
      <4>7. CASE Crash(s) \/ AbortUploadBatchFileAttempt(s)
        BY <1>2, <4>1, <4>7 DEF Crash, AbortUploadBatchFileAttempt
      <4> QED
        BY <1>12, <4>3, <4>4, <4>5, <4>6, <4>7 DEF Step
    <3> QED
      BY <3>1
  <2>2. PICK g \in Files : g = request[s].file
    BY DEF BatchInv, TypeOK
  <2>3. CASE ProcessUpload(s) \/ Fail(s) \/ Crash(s)
    BY <1>3, <2>3 DEF ProcessUpload, Fail, Crash
  <2>4. CASE CreateOCRRun(s)
    BY <1>2, <1>3, <2>4 DEF CreateOCRRun, PageType
  <2>5. CASE CreateInitialAnnotationPage(s)
    BY <1>2, <1>3, <2>5 DEF CreateInitialAnnotationPage, PageType
  <2>6. CASE CreateForUploadBatchFile(s)
    BY <1>2, <1>3, <2>6 DEF CreateForUploadBatchFile, PageType
  <2>7. CASE EnsureUploadBatchImage(s)
    <3>1. g # f
      BY <1>3, <1>4, <2>1, <2>2, <2>7 DEF EnsureUploadBatchImage, Active
    <3> QED
      BY <1>2, <1>3, <2>2, <2>7, <3>1 DEF EnsureUploadBatchImage
  <2>8. ASSUME NEW answered \in BOOLEAN, CompleteUploadBatchFile(s, answered)
        PROVE  Kept
    <3>1. g # f
      BY <1>3, <1>4, <2>1, <2>2, <2>8 DEF CompleteUploadBatchFile, Active
    <3>2. file'[f] = file[f] /\ page' = page
      BY <1>2, <2>2, <2>8, <3>1 DEF CompleteUploadBatchFile
    <3>3. batch' = batch
      BY <1>3, <2>2, <2>8, <3>1 DEF CompleteUploadBatchFile, BatchReady
    <3> QED
      BY <1>3, <3>2, <3>3
  <2>9. CASE AbortUploadBatchFileAttempt(s)
    <3>1. CASE OwnsAttempt(s)
      <4>1. g # f
        BY <1>3, <1>4, <2>1, <2>2, <3>1 DEF OwnsAttempt
      <4> QED
        BY <1>2, <1>3, <2>2, <2>9, <3>1, <4>1 DEF AbortUploadBatchFileAttempt, AbortCleansImage
    <3>2. CASE ~OwnsAttempt(s)
      BY <1>3, <2>9, <3>2 DEF AbortUploadBatchFileAttempt
    <3> QED
      BY <3>1, <3>2
  <2> QED
    BY <1>12, <2>3, <2>4, <2>5, <2>6, <2>7, <2>8, <2>9 DEF Step
<1>13. \/ StartUploadBatch \/ CancelUploadBatch \/ Tick \/ Kept
  BY <1>9, <1>10, <1>11, <1>12 DEF Next
<1> QED
  BY <1>5, <1>6, <1>7, <1>8, <1>13

\* A request whose lease is live loses its file, or its image, only by a step of
\* its own, by the client's cancellation or by time (AbortUploadBatchFileAttempt:
\* "a stale request can never delete its successor's image").
THEOREM OwnersStayUndisturbed ==
  ASSUME BatchAssumption
  PROVE  Spec => OwnersAreUndisturbed
<1>1. BatchInv /\ [Next]_vars => [\A r \in Requests : Undisturbed(r)]_vars
  BY StepUndisturbed
<1>2. BatchInv /\ [Next]_vars =>
        [\A r \in Requests :
          (Active(r) /\ request'[r] = request[r]) =>
              \/ Active(r)' /\ page'[request[r].file].image = page[request[r].file].image
              \/ batch' = "canceled"
              \/ page' = page /\ file'[request[r].file].lease = 0]_vars
  BY <1>1 DEF Undisturbed
<1> QED
  BY <1>2, BatchInvariant, PTL DEF Spec, OwnersAreUndisturbed

=============================================================================
