--------------------------- MODULE TranscriptionJobs ---------------------------
(***************************************************************************)
(* The durable transcription queue: the rows of transcription_jobs,        *)
(* transcription_job_attempts and transcription_job_checkpoints, the       *)
(* canonical AnnotationPage revision every job is fenced by, the workers   *)
(* that claim jobs under a lease, and the people who edit, reprocess and   *)
(* cancel while workers run.                                               *)
(*                                                                         *)
(* One action is one database transaction, or one unfenced read of a       *)
(* worker; a worker may stop, or be paused past its lease, between any two *)
(* of them.  Pub/Sub wake-ups carry no state: a lost, repeated or late one *)
(* is a claim that is not made, made twice or made late.                   *)
(***************************************************************************)
EXTENDS Integers, FiniteSets, Sequences

CONSTANTS
  Images,         \* item images of one workspace
  Contexts,       \* (context id, frozen snapshot) pairs a job can be asked for
  PageContexts,   \* the ones whose provider recognises a page in one call (kraken)
  Workers,        \* worker goroutines of every process
  Editors,        \* people with the page open in the editor
  Lines,          \* line annotations of a segmented page
  MaxAttempts,    \* transcription_jobs.max_attempts
  MaxActive,      \* TranscriptionJobAdmissionPolicy.maxActivePerWorkspace
  MaxTerminal,    \* MaxTerminalTranscriptionJobsPerWorkspace
  LeaseTime,      \* lease length in ticks
  MaxJobs,        \* bound: job ids handed out
  MaxRevision     \* bound: revision after which nobody edits

ASSUME ConstantsAssumption ==
  /\ PageContexts \subseteq Contexts
  /\ MaxAttempts \in Nat \ {0} /\ MaxActive \in Nat \ {0} /\ MaxTerminal \in Nat \ {0}
  /\ LeaseTime \in Nat \ {0} /\ MaxJobs \in Nat /\ MaxRevision \in Nat
  /\ IsFiniteSet(Lines)

VARIABLES
  written,      \* per image, the canonical page's revisions: what each was derived from, and the job that wrote it
  job,          \* transcription_jobs: the rows present, by id
  lastJob,      \* AUTO_INCREMENT
  attempt,      \* transcription_job_attempts, per job in attempt order
  checkpoint,   \* transcription_job_checkpoints: the page row and the line rows
  event,        \* events committed to event_outbox for a job, in order
  worker,       \* what each worker holds in memory
  editor        \* the revision of each page that each editor has open, 0 when closed

store == <<written, job, lastJob, attempt, checkpoint, event>>
vars == <<written, job, lastJob, attempt, checkpoint, event, worker, editor>>

--------------------------------------------------------------------------------
(* Rows *)

JobId == 1 .. MaxJobs
Jobs == DOMAIN job
Revision(i) == Len(written[i])

ActiveStatus == {"pending", "running"}
TerminalStatus == {"completed", "failed", "canceled", "superseded"}
Outcomes == {"running", "completed", "retryable_failed", "failed", "canceled", "superseded", "lease_expired"}

ActiveJobs == {j \in Jobs : job[j].status \in ActiveStatus}
TerminalJobs == {j \in Jobs : job[j].status \in TerminalStatus}
BugActiveOn(i) == {j \in Jobs : job[j].status = "running" /\ job[j].image = i}
ActiveOn(i) == {j \in ActiveJobs : job[j].image = i}

\* locked_by is a random value per claim; the claim it was drawn for names it.
NoToken == <<0, 0>>
NewLeaseOwner(j, n) == <<j, n>>

\* lease_until as ticks to go: above 1 it is later than NOW(), at 1 it equals
\* NOW() and neither the fence nor a reclaim accepts it, at 0 it has passed.
NoLease == 0
FreshLease == LeaseTime + 1

NewRow(i, c, revision) ==
  [status |-> "pending", image |-> i, context |-> c, input |-> revision, attempts |-> 0,
   waiting |-> FALSE, lease |-> NoLease, token |-> NoToken, lastResult |-> FALSE]

\* The update every transition to a state without a worker makes, but for
\* last_result_annotation_json, which RetryOrFail leaves in the row.
Released(row, status) ==
  [row EXCEPT !.status = status, !.waiting = FALSE, !.lease = NoLease, !.token = NoToken]

Closed(row, status) == [Released(row, status) EXCEPT !.lastResult = FALSE]

NoCheckpoint == [base |-> 0, lines |-> {}]

BugDropCheckpoints(jobs) ==
  checkpoint' = [j \in JobId |-> IF j \in jobs THEN [checkpoint[j] EXCEPT !.lines = {}] ELSE checkpoint[j]]

DropCheckpoints(jobs) ==
  checkpoint' = [j \in JobId |-> IF j \in jobs THEN NoCheckpoint ELSE checkpoint[j]]

\* finishTranscriptionAttempt on the job's current attempt row.
FinishAttempt(j, outcome, result) ==
  [attempt[j] EXCEPT ![job[j].attempts] = [outcome |-> outcome, result |-> result]]

\* The row the finish must find, or the whole transaction rolls back.
AttemptOpen(j) ==
  /\ job[j].attempts \in DOMAIN attempt[j]
  /\ attempt[j][job[j].attempts].outcome = "running"

IdleWorker ==
  [pc |-> "idle", job |-> 0, attempt |-> 0, input |-> 0, token |-> NoToken,
   base |-> 0, line |-> [l \in Lines |-> "todo"], retry |-> FALSE, error |-> "none"]

ClaimedWorker(j, n) ==
  [IdleWorker EXCEPT !.pc = "claimed", !.job = j, !.attempt = n, !.input = job[j].input,
                     !.token = NewLeaseOwner(j, n)]

Processing == {"claimed", "loaded", "segment", "lines", "commit"}

BugFenceHolds(w) ==
  LET me == worker[w] IN
  /\ me.job \in Jobs
  /\ job[me.job].status = "running"
  /\ job[me.job].lease > 1

\* WHERE clause of every worker-owned statement.
FenceHolds(w) ==
  LET me == worker[w] IN
  /\ me.job \in Jobs
  /\ job[me.job].status = "running"
  /\ job[me.job].attempts = me.attempt
  /\ job[me.job].input = me.input
  /\ job[me.job].token = me.token
  /\ job[me.job].lease > 1

Init ==
  /\ written = [i \in Images |-> <<>>]
  /\ job = [j \in {} |-> 0]
  /\ lastJob = 0
  /\ attempt = [j \in JobId |-> <<>>]
  /\ checkpoint = [j \in JobId |-> NoCheckpoint]
  /\ event = [j \in JobId |-> <<>>]
  /\ worker = [w \in Workers |-> IdleWorker]
  /\ editor = [e \in Editors |-> [i \in Images |-> 0]]

--------------------------------------------------------------------------------
(* The canonical page and its human writers *)

Write(i, from, by) ==
  written' = [written EXCEPT ![i] = Append(@, [base |-> from, job |-> by])]

\* SavePage with expected revision 0: create only.
CreatePage(i) ==
  /\ Revision(i) = 0
  /\ Write(i, 0, 0)
  /\ UNCHANGED <<job, lastJob, attempt, checkpoint, event, worker, editor>>

OpenPage(e, i) ==
  /\ Revision(i) > 0
  /\ editor' = [editor EXCEPT ![e][i] = Revision(i)]
  /\ UNCHANGED <<store, worker>>

BugSavePage(e, i) ==
  /\ editor[e][i] > 0
  /\ Revision(i) < MaxRevision
  /\ Write(i, editor[e][i], 0)
  /\ editor' = [editor EXCEPT ![e][i] = Revision(i) + 1]
  /\ UNCHANGED <<job, lastJob, attempt, checkpoint, event, worker>>

\* SavePage at the revision the editor loaded; any other revision is a conflict
\* that changes nothing.
SavePage(e, i) ==
  /\ editor[e][i] > 0 /\ editor[e][i] = Revision(i)
  /\ Revision(i) < MaxRevision
  /\ Write(i, editor[e][i], 0)
  /\ editor' = [editor EXCEPT ![e][i] = Revision(i) + 1]
  /\ UNCHANGED <<job, lastJob, attempt, checkpoint, event, worker>>

--------------------------------------------------------------------------------
(* Admission *)

BugExpendable ==
  LET excess == Cardinality(TerminalJobs) - MaxTerminal IN
  {gone \in SUBSET TerminalJobs :
     Cardinality(gone) = IF Cardinality(TerminalJobs) > MaxTerminal THEN excess ELSE 0}

\* Terminal rows beyond the retention target.  Which are oldest depends on wall
\* clock updated_at, so any choice of that many is allowed.
Expendable ==
  LET excess == Cardinality(TerminalJobs) - (MaxTerminal - 1) IN
  {gone \in SUBSET TerminalJobs :
     Cardinality(gone) = IF Cardinality(TerminalJobs) > MaxTerminal - 1 THEN excess ELSE 0}

Matches(j, i, c) == job[j].context = c /\ job[j].input = Revision(i)

\* Deletes the expendable history only: the request was answered by a live job.
Retain(gone) ==
  /\ job' = [j \in Jobs \ gone |-> job[j]]
  /\ attempt' = [j \in JobId |-> IF j \in gone THEN <<>> ELSE attempt[j]]
  /\ DropCheckpoints(gone)

\* Supersedes the image's active job, closing its attempt, and inserts the
\* pending successor; a workspace at its limit admits no job for an idle image.
Admit(i, c, revision, gone) ==
  /\ lastJob < MaxJobs
  /\ ActiveOn(i) = {} => Cardinality(ActiveJobs) < MaxActive
  /\ \A j \in ActiveOn(i) : job[j].status = "running" => AttemptOpen(j)
  /\ lastJob' = lastJob + 1
  /\ job' = [j \in (Jobs \ gone) \cup {lastJob + 1} |->
               IF j = lastJob + 1 THEN NewRow(i, c, revision)
               ELSE IF j \in ActiveOn(i) THEN Closed(job[j], "superseded")
               ELSE job[j]]
  /\ attempt' = [j \in JobId |->
                   IF j \in gone THEN <<>>
                   ELSE IF j \in ActiveOn(i) /\ job[j].status = "running" THEN FinishAttempt(j, "superseded", 0)
                   ELSE attempt[j]]
  /\ DropCheckpoints(gone \cup ActiveOn(i))

CreateJob(i, c) ==
  /\ Revision(i) > 0
  /\ \E gone \in Expendable :
       IF \E j \in ActiveOn(i) : Matches(j, i, c)
       THEN Retain(gone) /\ UNCHANGED lastJob
       ELSE Admit(i, c, Revision(i), gone)
  /\ UNCHANGED <<written, event, worker, editor>>

\* SavePageAndStartReprocessing: the page as the provider re-segmented it, at
\* the revision the caller reviewed, and the job that will transcribe it.
Reprocess(e, i, c) ==
  /\ editor[e][i] > 0 /\ editor[e][i] = Revision(i)
  /\ Revision(i) < MaxRevision
  /\ Write(i, editor[e][i], 0)
  /\ \E gone \in Expendable : Admit(i, c, Revision(i) + 1, gone)
  /\ event' = [event EXCEPT ![lastJob + 1] = Append(@, "reprocessed")]
  /\ editor' = [editor EXCEPT ![e][i] = Revision(i) + 1]
  /\ UNCHANGED worker

BugCancelTerminal(j) ==
  /\ j \in Jobs
  /\ job' = [job EXCEPT ![j] = Closed(@, "canceled")]
  /\ DropCheckpoints({j})
  /\ UNCHANGED <<written, lastJob, attempt, event, worker, editor>>

BugCancelOpenAttempt(j) ==
  /\ j \in ActiveJobs
  /\ job' = [job EXCEPT ![j] = Closed(@, "canceled")]
  /\ DropCheckpoints({j})
  /\ UNCHANGED <<written, lastJob, attempt, event, worker, editor>>

Cancel(j) ==
  /\ j \in ActiveJobs
  /\ job[j].status = "running" => AttemptOpen(j)
  /\ job' = [job EXCEPT ![j] = Closed(@, "canceled")]
  /\ attempt' = IF job[j].status = "running"
                THEN [attempt EXCEPT ![j] = FinishAttempt(j, "canceled", 0)] ELSE attempt
  /\ DropCheckpoints({j})
  /\ UNCHANGED <<written, lastJob, event, worker, editor>>

--------------------------------------------------------------------------------
(* Claims *)

Due(j) == job[j].status = "pending" /\ ~job[j].waiting /\ job[j].attempts < MaxAttempts
BugExpired(j) == FALSE
Expired(j) == job[j].status = "running" /\ job[j].lease = 0

BugClaimable == {j \in Jobs : Due(j) \/ Expired(j)}
Claimable == {j \in Jobs : Due(j) \/ (Expired(j) /\ job[j].attempts < MaxAttempts)}
Exhausted == {j \in Jobs : Expired(j) /\ job[j].attempts >= MaxAttempts}

\* One claim transaction: dead jobs fail for good, and the taken one, if any, is
\* leased to the worker.  An expired attempt is closed before its successor opens.
Claim(w, dead, taken) ==
  /\ worker[w].pc = "idle"
  /\ \A j \in dead \cup taken : job[j].status = "running" => AttemptOpen(j)
  /\ job' = [j \in Jobs |->
               IF j \in dead THEN Closed(job[j], "failed")
               ELSE IF j \in taken
               THEN [job[j] EXCEPT !.status = "running", !.attempts = @ + 1, !.waiting = FALSE,
                                   !.lease = FreshLease, !.token = NewLeaseOwner(j, job[j].attempts + 1),
                                   !.lastResult = FALSE]
               ELSE job[j]]
  /\ attempt' = [j \in JobId |->
                   LET closed == IF j \in dead \cup taken /\ job[j].status = "running"
                                 THEN FinishAttempt(j, "lease_expired", 0) ELSE attempt[j]
                   IN IF j \in taken THEN Append(closed, [outcome |-> "running", result |-> 0]) ELSE closed]
  /\ DropCheckpoints(dead)
  /\ worker' = [worker EXCEPT ![w] =
                  IF taken = {} THEN @
                  ELSE LET j == CHOOSE j \in taken : TRUE IN ClaimedWorker(j, job[j].attempts + 1)]
  /\ UNCHANGED <<written, lastJob, event, editor>>

\* A wake-up names the job; one that is not claimable is acknowledged.
ClaimByID(w, j) ==
  \/ j \in Exhausted /\ Claim(w, {j}, {})
  \/ j \in Claimable /\ Claim(w, {}, {j})

\* Polling and recovery take the oldest, failing every exhausted job they pass.
ClaimNext(w) ==
  \/ /\ Claimable = {} /\ Exhausted # {}
     /\ Claim(w, Exhausted, {})
  \/ \E j \in Claimable :
       /\ \A k \in Claimable : j <= k
       /\ Claim(w, {k \in Exhausted : k < j}, {j})

--------------------------------------------------------------------------------
(* A worker between its claim and its commit *)

Step(w, changes) == worker' = [worker EXCEPT ![w] = changes]

Failing(w, error) == [worker[w] EXCEPT !.pc = "failing", !.error = error]

\* Unfenced read of the canonical page.
LoadPage(w) ==
  LET me == worker[w]
      current == Revision(job[me.job].image)
  IN
  /\ me.pc = "claimed" /\ me.job \in Jobs
  /\ Step(w, IF current = me.input THEN [me EXCEPT !.pc = "loaded", !.base = current]
             ELSE Failing(w, "permanent"))
  /\ UNCHANGED <<store, editor>>

BugRecognised(j, lines) == [l \in Lines |-> IF job[j].context \in PageContexts THEN "done" ELSE "todo"]

\* Lines whose result needs no further call.
Recognised(j, lines) == [l \in Lines |-> IF l \in lines \/ job[j].context \in PageContexts THEN "done" ELSE "todo"]

\* A page checkpoint is restored with its line results, or found invalid; without
\* a usable one every row is cleared and the worker starts from the page it read.
RestoreCheckpoint(w) ==
  LET me == worker[w]
      saved == checkpoint[me.job]
  IN
  /\ me.pc = "loaded" /\ FenceHolds(w)
  /\ \/ /\ saved.base # 0
        /\ Step(w, [me EXCEPT !.pc = "lines", !.base = saved.base, !.line = Recognised(me.job, saved.lines)])
        /\ UNCHANGED checkpoint
     \/ /\ Step(w, [me EXCEPT !.pc = "segment"])
        /\ DropCheckpoints({me.job})
  /\ UNCHANGED <<written, job, lastJob, attempt, event, editor>>

\* Segmentation or whole-page recognition, SetTotalSegments, page checkpoint.
SegmentPage(w) ==
  LET me == worker[w] IN
  /\ me.pc = "segment" /\ FenceHolds(w)
  /\ Step(w, [me EXCEPT !.pc = "lines", !.line = Recognised(me.job, {})])
  /\ checkpoint' = [checkpoint EXCEPT ![me.job].base = me.base]
  /\ UNCHANGED <<written, job, lastJob, attempt, event, editor>>

MarkLine(w, l, state) == [worker[w] EXCEPT !.line[l] = state]

UpdateProgress(w, result) ==
  /\ FenceHolds(w)
  /\ job' = [job EXCEPT ![worker[w].job].lastResult = result]

StartLine(w, l) ==
  /\ worker[w].pc = "lines" /\ worker[w].line[l] = "todo"
  /\ UpdateProgress(w, FALSE)
  /\ Step(w, MarkLine(w, l, "busy"))
  /\ UNCHANGED <<written, lastJob, attempt, checkpoint, event, editor>>

\* The provider answered: the result is durable before it is counted.
SaveLine(w, l) ==
  /\ worker[w].pc = "lines" /\ worker[w].line[l] = "busy"
  /\ FenceHolds(w)
  /\ checkpoint' = [checkpoint EXCEPT ![worker[w].job].lines = @ \cup {l}]
  /\ Step(w, MarkLine(w, l, "saved"))
  /\ UNCHANGED <<written, job, lastJob, attempt, event, editor>>

ReportLine(w, l) ==
  /\ worker[w].pc = "lines" /\ worker[w].line[l] = "saved"
  /\ UpdateProgress(w, TRUE)
  /\ Step(w, MarkLine(w, l, "done"))
  /\ UNCHANGED <<written, lastJob, attempt, checkpoint, event, editor>>

\* No text, or an error worth a retry of the whole job if no line succeeds.
FailLine(w, l, retryable) ==
  /\ worker[w].pc = "lines" /\ worker[w].line[l] = "busy"
  /\ UpdateProgress(w, FALSE)
  /\ Step(w, [MarkLine(w, l, "failed") EXCEPT !.retry = @ \/ retryable])
  /\ UNCHANGED <<written, lastJob, attempt, checkpoint, event, editor>>

BugFinishLines(w) ==
  LET me == worker[w] IN
  /\ me.pc = "lines" /\ \A l \in Lines : me.line[l] \notin {"todo", "busy"}
  /\ Step(w, [me EXCEPT !.pc = "commit"])
  /\ UNCHANGED <<store, editor>>

FinishLines(w) ==
  LET me == worker[w]
      completed == {l \in Lines : me.line[l] = "done"}
      failed == {l \in Lines : me.line[l] = "failed"}
  IN
  /\ me.pc = "lines" /\ completed \cup failed = Lines
  /\ Step(w, IF completed # {} \/ failed = {} THEN [me EXCEPT !.pc = "commit"]
             ELSE Failing(w, IF me.retry THEN "retryable" ELSE "permanent"))
  /\ UNCHANGED <<store, editor>>

BugCommitPage(w) ==
  LET me == worker[w]
      i == job[me.job].image
  IN
  /\ me.pc = "commit" /\ FenceHolds(w)
  /\ Revision(i) = me.input
  /\ Write(i, me.base, me.job)
  /\ Step(w, IdleWorker)
  /\ UNCHANGED <<job, lastJob, attempt, checkpoint, event, editor>>

\* SavePageAndCompleteTranscriptionJob: page, attempt, job, checkpoints and event
\* in one transaction, or a revision conflict that fails the job for good.
CommitPage(w) ==
  LET me == worker[w]
      i == job[me.job].image
  IN
  /\ me.pc = "commit" /\ FenceHolds(w)
  /\ IF Revision(i) = me.input
     THEN /\ AttemptOpen(me.job)
          /\ Write(i, me.base, me.job)
          /\ job' = [job EXCEPT ![me.job] = Closed(@, "completed")]
          /\ attempt' = [attempt EXCEPT ![me.job] = FinishAttempt(me.job, "completed", Revision(i) + 1)]
          /\ DropCheckpoints({me.job})
          /\ event' = [event EXCEPT ![me.job] = Append(@, "completed")]
          /\ Step(w, IdleWorker)
     ELSE /\ Step(w, Failing(w, "permanent"))
          /\ UNCHANGED <<written, job, attempt, checkpoint, event>>
  /\ UNCHANGED <<lastJob, editor>>

\* Any error return on the way: a dependency failed, the job cannot succeed, or
\* the worker is shutting down.
Abort(w, error) ==
  /\ worker[w].pc \in Processing
  /\ Step(w, Failing(w, error))
  /\ UNCHANGED <<store, editor>>

FailsJob(row, error) == error = "permanent" \/ row.attempts >= MaxAttempts

BugFailureEvent(j, terminal, error) == event' = [event EXCEPT ![j] = Append(@, "failed")]

\* A worker that is shutting down records its failure without an event.
FailureEvent(j, terminal, error) ==
  event' = IF terminal /\ error # "interrupted" THEN [event EXCEPT ![j] = Append(@, "failed")] ELSE event

RecordFailure(w) ==
  LET me == worker[w]
      row == job[me.job]
      terminal == FailsJob(row, me.error)
      status == IF terminal THEN "failed" ELSE "pending"
      ended == IF me.error = "retryable" THEN Released(row, status) ELSE Closed(row, status)
  IN
  /\ me.pc = "failing" /\ FenceHolds(w) /\ AttemptOpen(me.job)
  /\ attempt' = [attempt EXCEPT ![me.job] =
                   FinishAttempt(me.job, IF terminal THEN "failed" ELSE "retryable_failed", 0)]
  /\ job' = [job EXCEPT ![me.job] = [ended EXCEPT !.waiting = ~terminal]]
  /\ DropCheckpoints(IF terminal THEN {me.job} ELSE {})
  /\ FailureEvent(me.job, terminal, me.error)
  /\ Step(w, IdleWorker)
  /\ UNCHANGED <<written, lastJob, editor>>

\* A fenced statement or a heartbeat matched no row: only the lease's owner may
\* write, so the worker drops the job.
LoseLease(w) ==
  /\ worker[w].pc \in Processing \cup {"failing"}
  /\ ~FenceHolds(w)
  /\ Step(w, IdleWorker)
  /\ UNCHANGED <<store, editor>>

Heartbeat(w) ==
  /\ worker[w].pc \in Processing /\ FenceHolds(w)
  /\ job' = [job EXCEPT ![worker[w].job].lease = FreshLease]
  /\ UNCHANGED <<written, lastJob, attempt, checkpoint, event, worker, editor>>

Crash(w) ==
  /\ worker[w].pc # "idle"
  /\ Step(w, IdleWorker)
  /\ UNCHANGED <<store, editor>>

--------------------------------------------------------------------------------
(* Time *)

LeaseElapses(j) ==
  /\ j \in Jobs /\ job[j].status = "running" /\ job[j].lease > 0
  /\ job' = [job EXCEPT ![j].lease = @ - 1]
  /\ UNCHANGED <<written, lastJob, attempt, checkpoint, event, worker, editor>>

RetryElapses(j) ==
  /\ j \in Jobs /\ job[j].waiting
  /\ job' = [job EXCEPT ![j].waiting = FALSE]
  /\ UNCHANGED <<written, lastJob, attempt, checkpoint, event, worker, editor>>

--------------------------------------------------------------------------------

Errors == {"permanent", "retryable", "interrupted"}

\* The steps a running worker takes by itself; the rest of Next are requests,
\* faults and the clock.
WorkerStep(w) ==
  \/ LoadPage(w) \/ RestoreCheckpoint(w) \/ SegmentPage(w)
  \/ \E l \in Lines : StartLine(w, l) \/ SaveLine(w, l) \/ ReportLine(w, l)
  \/ FinishLines(w) \/ CommitPage(w) \/ RecordFailure(w) \/ LoseLease(w)

Next ==
  \/ \E i \in Images : CreatePage(i)
  \/ \E e \in Editors, i \in Images : OpenPage(e, i) \/ SavePage(e, i)
  \/ \E i \in Images, c \in Contexts : CreateJob(i, c)
  \/ \E e \in Editors, i \in Images, c \in Contexts : Reprocess(e, i, c)
  \/ \E j \in JobId : Cancel(j) \/ LeaseElapses(j) \/ RetryElapses(j)
  \/ \E w \in Workers, j \in JobId : ClaimByID(w, j)
  \/ \E w \in Workers : ClaimNext(w) \/ WorkerStep(w) \/ Heartbeat(w) \/ Crash(w)
  \/ \E w \in Workers, l \in Lines, retryable \in BOOLEAN : FailLine(w, l, retryable)
  \/ \E w \in Workers, error \in Errors : Abort(w, error)

Spec == Init /\ [][Next]_vars

\* Polling and recovery loops keep claiming, started work goes on or is dropped,
\* and clocks advance.  Nothing is assumed of requests, crashes or errors.
Fairness ==
  /\ WF_vars(\E w \in Workers : ClaimNext(w))
  /\ \A w \in Workers : WF_vars(WorkerStep(w))
  /\ \A j \in JobId : WF_vars(LeaseElapses(j)) /\ WF_vars(RetryElapses(j))

FairSpec == Spec /\ Fairness

--------------------------------------------------------------------------------
(* Properties *)

WorkerType ==
  [pc : {"idle", "failing"} \cup Processing, job : 0 .. MaxJobs, attempt : 0 .. MaxAttempts, input : Nat,
   token : Nat \X Nat, base : Nat, line : [Lines -> {"todo", "busy", "saved", "done", "failed"}],
   retry : BOOLEAN, error : Errors \cup {"none"}]

RowType ==
  [status : ActiveStatus \cup TerminalStatus, image : Images, context : Contexts, input : Nat \ {0},
   attempts : 0 .. MaxAttempts, waiting : BOOLEAN, lease : 0 .. FreshLease, token : Nat \X Nat,
   lastResult : BOOLEAN]

\* Every table and every worker's memory holds values of its columns' types.
TypeOK ==
  /\ written \in [Images -> Seq([base : Nat, job : 0 .. MaxJobs])]
  /\ lastJob \in 0 .. MaxJobs
  /\ Jobs \subseteq 1 .. lastJob /\ job \in [Jobs -> RowType]
  /\ attempt \in [JobId -> Seq([outcome : Outcomes, result : Nat])]
  /\ checkpoint \in [JobId -> [base : Nat, lines : SUBSET Lines]]
  /\ event \in [JobId -> Seq({"completed", "failed", "reprocessed"})]
  /\ worker \in [Workers -> WorkerType]
  /\ editor \in [Editors -> [Images -> Nat]]

\* active_item_image_id is unique: createLocked and commitAnnotationReprocess
\* never leave two pending or running jobs on one image.
OneActiveJobPerImage ==
  \A j, k \in ActiveJobs : job[j].image = job[k].image => j = k

\* The compare-and-swap of savePage loses no correction: every revision was
\* derived from the one it replaced, whether a person, a reprocess or a worker
\* resuming an earlier attempt's checkpoint wrote it.
NoLostUpdate ==
  \A i \in Images : \A n \in DOMAIN written[i] : written[i][n].base = n - 1

\* A worker's revision and the job's terminal state are one transaction: a job
\* wrote a revision exactly when it is completed, that revision follows its input
\* revision, and its last attempt records it as the result.
CommitIsAtomic ==
  \A j \in Jobs :
    LET i == job[j].image
        mine == {n \in DOMAIN written[i] : written[i][n].job = j}
    IN IF job[j].status = "completed"
       THEN /\ mine = {job[j].input + 1}
            /\ attempt[j][job[j].attempts] = [outcome |-> "completed", result |-> job[j].input + 1]
       ELSE mine = {}

\* The queue row and the audit rows agree: a job runs exactly when its current
\* attempt is open, no other attempt is open, and every attempt has its row.
AttemptsMatchJob ==
  \A j \in Jobs :
    /\ Len(attempt[j]) = job[j].attempts
    /\ \A n \in DOMAIN attempt[j] :
         attempt[j][n].outcome = "running" <=> n = job[j].attempts /\ job[j].status = "running"

\* A failure never leaves a job pending with its attempts spent: no claim query
\* would ever select it again.
NoStrandedJob ==
  \A j \in Jobs : job[j].status = "pending" => job[j].attempts < MaxAttempts

\* Every terminal transition deletes the job's checkpoints and clears its lease,
\* so a worker that still holds the old token passes no fence.
TerminalJobsHoldNothing ==
  \A j \in TerminalJobs :
    /\ checkpoint[j] = NoCheckpoint
    /\ job[j].lease = NoLease /\ job[j].token = NoToken

\* The attempt fence admits one worker per job, whatever leases expired, were
\* reclaimed, or were renewed late.
OneOwnerPerJob ==
  \A v, w \in Workers :
    FenceHolds(v) /\ FenceHolds(w) /\ worker[v].job = worker[w].job => v = w

\* A resumed attempt repeats no checkpointed provider call: the lease holder
\* knows every line result that is durable for its job.
NoRepeatedLine ==
  \A w \in Workers :
    worker[w].pc \in {"lines", "commit"} /\ FenceHolds(w) =>
      \A l \in checkpoint[worker[w].job].lines : worker[w].line[l] \in {"saved", "done"}

\* A page about to be committed accounts for every line, at least one of them
\* with a durable result unless the provider recognises whole pages.
CommitsWholePage ==
  \A w \in Workers :
    worker[w].pc = "commit" /\ FenceHolds(w) =>
      /\ \A l \in Lines : worker[w].line[l] \in {"done", "failed"}
      /\ job[worker[w].job].context \notin PageContexts =>
           {l \in Lines : worker[w].line[l] = "done"} = checkpoint[worker[w].job].lines

\* What a job's line results are worth to its lease holder.
LinesHold == NoRepeatedLine /\ CommitsWholePage

\* Admission keeps the queue within its limit, and retention at admission keeps
\* the whole history within the sum of both limits.
HistoryBounded ==
  /\ Cardinality(ActiveJobs) <= MaxActive
  /\ Cardinality(Jobs) <= MaxActive + MaxTerminal

\* The events of a job that tell of its end, by their place in the outbox.
Ends(j) == {n \in DOMAIN event[j] : event[j][n] # "reprocessed"}

\* A consumer hears of a job's end at most once, and hears what happened: the
\* event is inserted by the transaction that ends the job, and a completion is
\* never without its event.
TerminalEventsMatch ==
  \A j \in Jobs :
    /\ \A m, n \in Ends(j) : m = n
    /\ \A n \in Ends(j) : event[j][n] = job[j].status
    /\ job[j].status = "completed" => Ends(j) # {}

\* What a step may do to a job: retention removes an ended one with its audit
\* trail; otherwise an ended row stays, and so does every finished attempt.
KeepsHistory(j) ==
  \/ j \notin DOMAIN job' /\ attempt'[j] = <<>> /\ j \in TerminalJobs
  \/ /\ j \in DOMAIN job'
     /\ job[j].status \in TerminalStatus => job'[j] = job[j]
     /\ \A n \in DOMAIN attempt[j] :
          /\ n \in DOMAIN attempt'[j]
          /\ attempt[j][n].outcome # "running" => attempt'[j][n] = attempt[j][n]

\* An attempt's outcome is written once and a terminal job stays as it ended;
\* only retention removes them, and only together.
HistoryIsImmutable == [][\A j \in Jobs : KeepsHistory(j)]_vars

\* What a caller of the service sees of a row.
RequestOf(row) ==
  [image |-> row.image, input |-> row.input,
   state |-> IF row.status \in ActiveStatus THEN "open" ELSE row.status]

\* The queue keeps the service's promises: hidden behind the open state, every
\* claim, retry, lease expiry, reclaim, checkpoint and crash is invisible, and a
\* worker's commit is a completion at the revision the job was requested for.
Service == INSTANCE TranscriptionService WITH
  revision <- [i \in Images |-> Revision(i)],
  request <- [j \in Jobs |-> RequestOf(job[j])],
  lastRequest <- lastJob

ImplementsService == Service!Spec

\* A terminal projection holds no annotation JSON, as transcription_admission.go
\* says of the history it retains.
TerminalDiscardsAnnotationJSON ==
  \A j \in TerminalJobs : ~job[j].lastResult

\* Every job ends: whatever workers crash, stall or lose their lease, attempts
\* run out and the recovery loop finds the job.
JobsSettle ==
  \A j \in JobId : (j \in ActiveJobs) ~> (j \notin ActiveJobs)

================================================================================
