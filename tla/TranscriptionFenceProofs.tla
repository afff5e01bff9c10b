----------------------- MODULE TranscriptionFenceProofs -----------------------
(* What the attempt fence and the compare-and-swap guarantee for every number of
   images, workers, editors, lines and attempts: one owner per job, no lost
   correction, nothing left behind by a job that ended, no line recognised twice
   or left out of a page. *)
EXTENDS TranscriptionJobsProofs

--------------------------------------------------------------------------------
(* Revisions and checkpoints *)

\* A checkpoint exists only for a live job, and describes its input revision.
CheckpointInput ==
  \A j \in JobId :
    IF j \in ActiveJobs THEN checkpoint[j].base \in {0, job[j].input} ELSE checkpoint[j] = NoCheckpoint

\* A worker that has read the page holds the revision its claim was made for.
WorkerInput ==
  \A w \in Workers :
    worker[w].pc \in {"loaded", "segment", "lines", "commit"} => worker[w].base = worker[w].input

RevisionInv == NoLostUpdate /\ CheckpointInput /\ WorkerInput

\* Appending a revision derived from the current one loses nothing.
LEMMA WriteInv ==
  ASSUME TypeOK, NoLostUpdate, NEW i \in Images, NEW by \in 0 .. MaxJobs, Write(i, Revision(i), by)
  PROVE  NoLostUpdate'
<1>1. written[i] \in Seq([base : Nat, job : 0 .. MaxJobs]) /\ Revision(i) \in Nat
  BY Zenon, RevisionType DEF TypeOK
<1>2. [base |-> Revision(i), job |-> by] \in [base : Nat, job : 0 .. MaxJobs]
  BY <1>1
<1>3. \A k \in Images : written'[k] = IF k = i THEN Append(written[i], [base |-> Revision(i), job |-> by]) ELSE written[k]
  BY DEF Write, TypeOK
<1>4. \A n \in DOMAIN written'[i] : written'[i][n].base = n - 1
  <2> DEFINE e == [base |-> Revision(i), job |-> by]
             s == Append(written[i], e)
  <2>1. /\ Len(s) = Revision(i) + 1 /\ s[Revision(i) + 1] = e /\ DOMAIN s = 1 .. Len(s)
        /\ \A n \in 1 .. Revision(i) : s[n] = written[i][n]
    BY <1>1, <1>2 DEF Revision
  <2>2. \A n \in 1 .. Revision(i) : written[i][n].base = n - 1
    BY <1>1 DEF NoLostUpdate, Revision
  <2>3. e.base = Revision(i)
    OBVIOUS
  <2> HIDE DEF s, e
  <2>4. written'[i] = s
    BY Zenon, <1>3 DEF s, e
  <2>5. \A n \in 1 .. Revision(i) + 1 : s[n].base = n - 1
    BY <1>1, <2>1, <2>2, <2>3
  <2> QED
    BY <2>1, <2>4, <2>5
<1> QED
  BY <1>3, <1>4 DEF NoLostUpdate

\* Deleting the checkpoints of every job that leaves the active set is enough.
LEMMA DropInv ==
  ASSUME TypeOK, CheckpointInput, NEW S, DropCheckpoints(S),
         \A j \in JobId \cap ActiveJobs : j \in S \/ (j \in ActiveJobs' /\ job'[j].input = job[j].input)
  PROVE  CheckpointInput'
<1>1. \A j \in JobId : checkpoint'[j] = IF j \in S THEN NoCheckpoint ELSE checkpoint[j]
  BY DEF DropCheckpoints
<1> SUFFICES ASSUME NEW j \in JobId
             PROVE  IF j \in ActiveJobs' THEN checkpoint'[j].base \in {0, job'[j].input} ELSE checkpoint'[j] = NoCheckpoint
  BY DEF CheckpointInput
<1>2. NoCheckpoint.base = 0
  BY DEF NoCheckpoint
<1>3. CASE j \in S
  BY <1>1, <1>2, <1>3
<1>4. CASE j \notin S
  <2>1. checkpoint'[j] = checkpoint[j]
    BY <1>1, <1>4
  <2>2. CASE j \in ActiveJobs
    BY <1>4, <2>1, <2>2 DEF CheckpointInput
  <2>3. CASE j \notin ActiveJobs
    BY <1>2, <2>1, <2>3 DEF CheckpointInput
  <2> QED
    BY <2>2, <2>3
<1> QED
  BY <1>3, <1>4

\* The lease holder works for the revision its job was admitted for.
LEMMA HolderInput ==
  ASSUME TypeOK, RevisionInv, NEW w \in Workers, FenceHolds(w)
  PROVE  /\ worker[w].job \in JobId /\ worker[w].job \in ActiveJobs
         /\ job[worker[w].job].status = "running"
         /\ worker[w].input = job[worker[w].job].input
         /\ worker[w].pc \in {"loaded", "segment", "lines", "commit"} => worker[w].base = job[worker[w].job].input
  BY IdTypes DEF RevisionInv, WorkerInput, FenceHolds, ActiveJobs, ActiveStatus

\* Every writer of a page derived it from the revision it replaces.
LEMMA LostUpdateStep ==
  ASSUME TypeOK, RevisionInv, Next
  PROVE  NoLostUpdate'
<1> USE DEF RevisionInv, store
<1>1. 0 \in 0 .. MaxJobs
  BY IdTypes
<1>2. CASE UNCHANGED written
  BY <1>2 DEF NoLostUpdate
<1>3. ASSUME NEW i \in Images, CreatePage(i) PROVE NoLostUpdate'
  BY <1>1, <1>3, WriteInv DEF CreatePage
<1>4. ASSUME NEW x \in Editors, NEW i \in Images, SavePage(x, i) PROVE NoLostUpdate'
  BY <1>1, <1>4, WriteInv DEF SavePage
<1>5. ASSUME NEW x \in Editors, NEW i \in Images, NEW c \in Contexts, Reprocess(x, i, c) PROVE NoLostUpdate'
  BY <1>1, <1>5, WriteInv DEF Reprocess
<1>6. ASSUME NEW w \in Workers, CommitPage(w) PROVE NoLostUpdate'
  <2> DEFINE i == job[worker[w].job].image
  <2>1. i \in Images /\ worker[w].job \in 0 .. MaxJobs
    BY <1>6, IdTypes DEF CommitPage, FenceHolds, RowType, JobId
  <2>2. CASE Revision(i) = worker[w].input
    <3>1. worker[w].base = Revision(i)
      BY <1>6, <2>2, HolderInput DEF CommitPage
    <3> QED
      BY <1>6, <2>1, <2>2, <3>1, WriteInv DEF CommitPage
  <2>3. CASE Revision(i) # worker[w].input
    BY <1>2, <1>6, <2>3 DEF CommitPage
  <2> QED
    BY <2>2, <2>3
<1>7. \/ UNCHANGED written
      \/ \E i \in Images : CreatePage(i)
      \/ \E x \in Editors, i \in Images : SavePage(x, i)
      \/ \E x \in Editors, i \in Images, c \in Contexts : Reprocess(x, i, c)
      \/ \E w \in Workers : CommitPage(w)
  BY Zenon DEF Next, WorkerStep, OpenPage, CreateJob, Cancel, LeaseElapses, RetryElapses, ClaimByID, ClaimNext, Claim,
         LoadPage, RestoreCheckpoint, SegmentPage, StartLine, SaveLine, ReportLine, FailLine, FinishLines, Abort,
         RecordFailure, LoseLease, Heartbeat, Crash
<1> QED
  BY <1>2, <1>3, <1>4, <1>5, <1>6, <1>7

\* A worker's base revision changes only to its claim's input revision.
LEMMA WorkerInputStep ==
  ASSUME TypeOK, RevisionInv, Next
  PROVE  WorkerInput'
<1> USE DEF RevisionInv
<1> DEFINE ok(m) == m.pc \in {"loaded", "segment", "lines", "commit"} => m.base = m.input
<1>1. CASE UNCHANGED worker
  BY <1>1 DEF WorkerInput
<1>2. ASSUME NEW w \in Workers, NEW m, worker' = [worker EXCEPT ![w] = m], ok(m)
      PROVE  WorkerInput'
  BY <1>2 DEF WorkerInput, TypeOK
<1>3. ok(IdleWorker)
  BY DEF IdleWorker
<1>4. \A w \in Workers : worker[w] \in WorkerType /\ ok(worker[w])
  BY DEF TypeOK, WorkerInput
<1>5. \A w \in Workers, error \in Errors : ok(Failing(w, error))
  BY <1>4 DEF Failing, WorkerType
<1>6. ASSUME NEW w \in Workers, NEW dead, NEW taken, Claim(w, dead, taken) PROVE WorkerInput'
  <2> DEFINE k == CHOOSE j \in taken : TRUE
             m == ClaimedWorker(k, job[k].attempts + 1)
  <2>1. ok(m)
    BY DEF ClaimedWorker, IdleWorker
  <2>2. CASE taken = {}
    BY Zenon, <1>2, <1>4, <1>6, <2>2 DEF Claim
  <2>3. CASE taken # {}
    <3> HIDE DEF ok
    <3>1. worker' = [worker EXCEPT ![w] = m]
      BY Zenon, <1>6, <2>3 DEF Claim
    <3> QED
      BY <1>2, <2>1, <3>1
  <2> QED
    BY <2>2, <2>3
<1>7. ASSUME NEW w \in Workers, LoadPage(w) PROVE WorkerInput'
  <2>1. ok([worker[w] EXCEPT !.pc = "loaded", !.base = worker[w].input])
    BY <1>4 DEF WorkerType
  <2> QED
    BY Zenon, <1>2, <1>5, <1>7, <2>1 DEF LoadPage, Step, Errors
<1>8. ASSUME NEW w \in Workers, RestoreCheckpoint(w) PROVE WorkerInput'
  <2> DEFINE j == worker[w].job
             lines == Recognised(j, checkpoint[j].lines)
  <2>1. j \in ActiveJobs /\ j \in JobId /\ worker[w].input = job[j].input /\ worker[w].base = worker[w].input
    BY <1>8, HolderInput DEF RestoreCheckpoint
  <2>2. checkpoint[j].base # 0 => ok([worker[w] EXCEPT !.pc = "lines", !.base = checkpoint[j].base, !.line = lines])
    <3>1. checkpoint[j].base # 0 => checkpoint[j].base = worker[w].input
      BY <2>1 DEF CheckpointInput
    <3> HIDE DEF lines
    <3> QED
      BY <1>4, <3>1 DEF WorkerType
  <2>3. ok([worker[w] EXCEPT !.pc = "segment"])
    BY <1>4, <2>1 DEF WorkerType
  <2> HIDE DEF lines, ok
  <2> QED
    BY <1>2, <1>8, <2>2, <2>3 DEF RestoreCheckpoint, Step, lines
<1>9. ASSUME NEW w \in Workers, SegmentPage(w) PROVE WorkerInput'
  <2> DEFINE m == [worker[w] EXCEPT !.pc = "lines", !.line = Recognised(worker[w].job, {})]
  <2>1. ok(m)
    BY <1>4, <1>9 DEF SegmentPage, WorkerType
  <2> QED
    BY Zenon, <1>2, <1>9, <2>1 DEF SegmentPage, Step
<1>10. ASSUME NEW w \in Workers, NEW l \in Lines, NEW retryable \in BOOLEAN,
              StartLine(w, l) \/ SaveLine(w, l) \/ ReportLine(w, l) \/ FailLine(w, l, retryable)
       PROVE  WorkerInput'
  <2>1. ASSUME NEW state PROVE ok(MarkLine(w, l, state)) /\ ok([MarkLine(w, l, state) EXCEPT !.retry = @ \/ retryable])
    <3>1. ok(MarkLine(w, l, state)) /\ DOMAIN MarkLine(w, l, state) = DOMAIN worker[w]
      BY <1>4 DEF MarkLine, WorkerType
    <3>2. {"pc", "base", "input", "retry"} \subseteq DOMAIN worker[w]
      BY <1>4 DEF WorkerType
    <3> QED
      BY <3>1, <3>2
  <2> HIDE DEF ok
  <2> QED
    BY Zenon, <1>2, <1>10, <2>1 DEF StartLine, SaveLine, ReportLine, FailLine, Step
<1>11. ASSUME NEW w \in Workers, FinishLines(w) PROVE WorkerInput'
  <2>1. ok([worker[w] EXCEPT !.pc = "commit"])
    BY <1>4, <1>11 DEF FinishLines, WorkerType
  <2> HIDE DEF ok
  <2> QED
    BY <1>2, <1>5, <1>11, <2>1 DEF FinishLines, Step, Errors
<1>12. ASSUME NEW w \in Workers, CommitPage(w) \/ RecordFailure(w) \/ LoseLease(w) \/ Crash(w) PROVE WorkerInput'
  BY <1>2, <1>3, <1>5, <1>12 DEF CommitPage, RecordFailure, LoseLease, Crash, Step, Errors
<1>13. ASSUME NEW w \in Workers, NEW error \in Errors, Abort(w, error) PROVE WorkerInput'
  BY Zenon, <1>2, <1>5, <1>13 DEF Abort, Step
<1>14. ASSUME NEW w \in Workers, ClaimNext(w) \/ \E j \in JobId : ClaimByID(w, j) PROVE WorkerInput'
  BY Zenon, <1>6, <1>14 DEF ClaimNext, ClaimByID
<1>15. \/ UNCHANGED worker
       \/ \E w \in Workers, j \in JobId : ClaimByID(w, j)
       \/ \E w \in Workers : \/ ClaimNext(w) \/ LoadPage(w) \/ RestoreCheckpoint(w) \/ SegmentPage(w) \/ FinishLines(w)
                            \/ CommitPage(w) \/ RecordFailure(w) \/ LoseLease(w) \/ Crash(w)
       \/ \E w \in Workers, error \in Errors : Abort(w, error)
       \/ \E w \in Workers, l \in Lines : StartLine(w, l) \/ SaveLine(w, l) \/ ReportLine(w, l)
       \/ \E w \in Workers, l \in Lines, retryable \in BOOLEAN : FailLine(w, l, retryable)
  BY Zenon DEF Next, WorkerStep, CreatePage, OpenPage, SavePage, CreateJob, Reprocess, Cancel, LeaseElapses, RetryElapses, Heartbeat
<1> QED
  BY Zenon, <1>1, <1>7, <1>8, <1>9, <1>10, <1>11, <1>12, <1>13, <1>14, <1>15

\* A job keeps its input revision while it is active, and loses its checkpoints
\* when it stops being active.
LEMMA CheckpointStep ==
  ASSUME TypeOK, RevisionInv, Next
  PROVE  CheckpointInput'
<1> USE DEF RevisionInv, store
<1>0. \A j \in Jobs : j \in JobId /\ job[j] \in RowType
  BY IdTypes
<1>1. ASSUME UNCHANGED <<job, checkpoint>> PROVE CheckpointInput'
  BY <1>1 DEF CheckpointInput, ActiveJobs, Jobs
\* A row update that keeps the job active and its input.
<1>2. ASSUME NEW j \in Jobs, NEW r, job' = [job EXCEPT ![j] = r], r.input = job[j].input,
             r.status \in ActiveStatus <=> job[j].status \in ActiveStatus
      PROVE  ActiveJobs' = ActiveJobs /\ \A k \in Jobs : job'[k].input = job[k].input
  BY <1>2 DEF ActiveJobs, Jobs
<1>3. ASSUME NEW j \in Jobs, NEW r, job' = [job EXCEPT ![j] = r], r.input = job[j].input,
             r.status \in ActiveStatus <=> job[j].status \in ActiveStatus, UNCHANGED checkpoint
      PROVE  CheckpointInput'
  <2>1. ActiveJobs' = ActiveJobs /\ \A k \in Jobs : job'[k].input = job[k].input
    BY Zenon, <1>2, <1>3
  <2> QED
    BY <1>3, <2>1 DEF CheckpointInput, ActiveJobs
\* A row update that ends the job.
<1>4. ASSUME NEW j \in Jobs, NEW r, job' = [job EXCEPT ![j] = r], DropCheckpoints({j})
      PROVE  CheckpointInput'
  <2>1. \A k \in Jobs \ {j} : k \in DOMAIN job' /\ job'[k] = job[k]
    BY <1>4 DEF Jobs
  <2>2. \A k \in JobId \cap ActiveJobs : k \in {j} \/ (k \in ActiveJobs' /\ job'[k].input = job[k].input)
    BY <2>1 DEF ActiveJobs, Jobs
  <2> QED
    BY <1>4, <2>2, DropInv
<1>5. ASSUME NEW i \in Images, NEW c \in Contexts, NEW n, NEW gone \in Expendable, Admit(i, c, n, gone)
      PROVE  CheckpointInput'
  <2>1. gone \subseteq TerminalJobs
    BY DEF Expendable
  <2>2. \A k \in ActiveJobs : k \notin gone /\ k # lastJob + 1 /\ k \in Jobs
    BY <2>1, IdTypes DEF ActiveJobs, TerminalJobs, ActiveStatus, TerminalStatus
  <2>3. \A k \in ActiveJobs \ ActiveOn(i) : k \in DOMAIN job' /\ job'[k] = job[k]
    BY <1>5, <2>2 DEF Admit
  <2>4. \A k \in JobId \cap ActiveJobs : k \in gone \cup ActiveOn(i) \/ (k \in ActiveJobs' /\ job'[k].input = job[k].input)
    BY <2>3 DEF ActiveJobs, Jobs
  <2> QED
    BY Zenon, <1>5, <2>4, DropInv DEF Admit
<1>6. ASSUME NEW i \in Images, NEW c \in Contexts, CreateJob(i, c) PROVE CheckpointInput'
  <2>1. PICK gone \in Expendable : IF \E j \in ActiveOn(i) : Matches(j, i, c)
                                  THEN Retain(gone) /\ UNCHANGED lastJob
                                  ELSE Admit(i, c, Revision(i), gone)
    BY <1>6 DEF CreateJob
  <2>2. CASE Retain(gone)
    <3>1. \A k \in ActiveJobs : k \in DOMAIN job' /\ job'[k] = job[k]
      BY <2>2 DEF Retain, Expendable, ActiveJobs, TerminalJobs, ActiveStatus, TerminalStatus
    <3>2. \A k \in JobId \cap ActiveJobs : k \in gone \/ (k \in ActiveJobs' /\ job'[k].input = job[k].input)
      BY <3>1 DEF ActiveJobs, Jobs
    <3> QED
      BY Zenon, <2>2, <3>2, DropInv DEF Retain
  <2> QED
    BY <1>5, <2>1, <2>2
<1>7. ASSUME NEW x \in Editors, NEW i \in Images, NEW c \in Contexts, Reprocess(x, i, c) PROVE CheckpointInput'
  BY <1>5, <1>7 DEF Reprocess
<1>8. ASSUME NEW j \in JobId, Cancel(j) PROVE CheckpointInput'
  BY Zenon, <1>4, <1>8 DEF Cancel, ActiveJobs
<1>9. ASSUME NEW j \in JobId, LeaseElapses(j) \/ RetryElapses(j) PROVE CheckpointInput'
  <2> DEFINE r1 == [job[j] EXCEPT !.lease = @ - 1]
             r2 == [job[j] EXCEPT !.waiting = FALSE]
  <2>1. j \in Jobs /\ UNCHANGED checkpoint /\ (job' = [job EXCEPT ![j] = r1] \/ job' = [job EXCEPT ![j] = r2])
    BY <1>9 DEF LeaseElapses, RetryElapses
  <2>2. r1.input = job[j].input /\ r1.status = job[j].status /\ r2.input = job[j].input /\ r2.status = job[j].status
    BY <1>0, <2>1 DEF RowType
  <2> HIDE DEF r1, r2
  <2> QED
    BY <1>3, <2>1, <2>2
<1>10. ASSUME NEW w \in Workers, NEW dead, NEW taken, dead \subseteq Jobs, taken \subseteq Jobs,
              \A j \in taken : job[j].status \in ActiveStatus, Claim(w, dead, taken)
       PROVE  CheckpointInput'
  <2> DEFINE lease(j) == [job[j] EXCEPT !.status = "running", !.attempts = @ + 1, !.waiting = FALSE,
                                   !.lease = FreshLease, !.token = NewLeaseOwner(j, job[j].attempts + 1),
                                   !.lastResult = FALSE]
  <2>1. \A k \in Jobs \ dead : k \in DOMAIN job' /\ job'[k] = IF k \in taken THEN lease(k) ELSE job[k]
    BY Zenon, <1>10 DEF Claim
  <2>2. \A k \in Jobs : lease(k).status = "running" /\ lease(k).input = job[k].input
    BY <1>0 DEF RowType
  <2> HIDE DEF lease
  <2>3. \A k \in JobId \cap ActiveJobs : k \in dead \/ (k \in ActiveJobs' /\ job'[k].input = job[k].input)
    BY <2>1, <2>2 DEF ActiveJobs, ActiveStatus, Jobs
  <2> QED
    BY Zenon, <1>10, <2>3, DropInv DEF Claim
<1>11. ASSUME NEW w \in Workers, ClaimNext(w) \/ \E j \in JobId : ClaimByID(w, j) PROVE CheckpointInput'
  <2>1. Exhausted \subseteq Jobs /\ \A j \in Claimable : j \in Jobs /\ job[j].status \in ActiveStatus
    BY DEF Exhausted, Claimable, Due, Expired, ActiveStatus
  <2>2. ASSUME NEW j \in JobId, ClaimByID(w, j) PROVE CheckpointInput'
    BY <1>10, <2>1, <2>2 DEF ClaimByID
  <2>3. ASSUME ClaimNext(w) PROVE CheckpointInput'
    <3>1. CASE Claim(w, Exhausted, {})
      BY <1>10, <2>1, <3>1
    <3>2. ASSUME NEW j \in Claimable, Claim(w, {k \in Exhausted : k < j}, {j}) PROVE CheckpointInput'
      <4>1. {k \in Exhausted : k < j} \subseteq Jobs /\ {j} \subseteq Jobs /\ \A k \in {j} : job[k].status \in ActiveStatus
        BY <2>1
      <4> QED
        BY <1>10, <3>2, <4>1
    <3> QED
      BY Zenon, <2>3, <3>1, <3>2 DEF ClaimNext
  <2> QED
    BY <1>11, <2>2, <2>3
<1>12. ASSUME NEW w \in Workers, RestoreCheckpoint(w) PROVE CheckpointInput'
  <2>1. CASE UNCHANGED checkpoint
    BY <1>1, <1>12, <2>1 DEF RestoreCheckpoint
  <2>2. CASE DropCheckpoints({worker[w].job})
    BY <1>12, <2>2, DropInv DEF RestoreCheckpoint, ActiveJobs, Jobs
  <2> QED
    BY <1>12, <2>1, <2>2 DEF RestoreCheckpoint
<1>13. ASSUME NEW w \in Workers, NEW l, SegmentPage(w) \/ SaveLine(w, l) PROVE CheckpointInput'
  <2> DEFINE j == worker[w].job
  <2>1. j \in JobId /\ j \in ActiveJobs /\ ActiveJobs' = ActiveJobs /\ UNCHANGED job
        /\ worker[w].base = job[j].input
    BY <1>13, HolderInput DEF SegmentPage, SaveLine, ActiveJobs, Jobs
  <2>2. checkpoint'[j].base \in {checkpoint[j].base, worker[w].base} /\ \A k \in JobId \ {j} : checkpoint'[k] = checkpoint[k]
    <3>1. checkpoint[j] \in [base : Nat, lines : SUBSET Lines] /\ checkpoint \in [JobId -> [base : Nat, lines : SUBSET Lines]]
      BY <2>1 DEF TypeOK
    <3> QED
      BY <1>13, <2>1, <3>1 DEF SegmentPage, SaveLine
  <2> QED
    BY <2>1, <2>2 DEF CheckpointInput
<1>14. ASSUME NEW w \in Workers, NEW l, NEW b \in BOOLEAN,
              StartLine(w, l) \/ ReportLine(w, l) \/ FailLine(w, l, b) \/ Heartbeat(w)
       PROVE  CheckpointInput'
  <2> DEFINE j == worker[w].job
             r(x) == [job[j] EXCEPT !.lastResult = x]
             h == [job[j] EXCEPT !.lease = FreshLease]
  <2>1. j \in Jobs /\ UNCHANGED checkpoint /\ (job' = [job EXCEPT ![j] = h] \/ \E x \in BOOLEAN : job' = [job EXCEPT ![j] = r(x)])
    BY Zenon, <1>14 DEF StartLine, ReportLine, FailLine, Heartbeat, UpdateProgress, FenceHolds
  <2>2. h.input = job[j].input /\ h.status = job[j].status /\ \A x \in BOOLEAN : r(x).input = job[j].input /\ r(x).status = job[j].status
    BY <1>0, <2>1 DEF RowType
  <2> HIDE DEF r, h
  <2> QED
    BY <1>3, <2>1, <2>2
<1>15. ASSUME NEW w \in Workers, CommitPage(w) PROVE CheckpointInput'
  BY Zenon, <1>1, <1>4, <1>15 DEF CommitPage, FenceHolds
<1>16. ASSUME NEW w \in Workers, RecordFailure(w) PROVE CheckpointInput'
  <2> DEFINE j == worker[w].job
             terminal == FailsJob(job[j], worker[w].error)
             status == IF terminal THEN "failed" ELSE "pending"
             ended == IF worker[w].error = "retryable" THEN Released(job[j], status) ELSE Closed(job[j], status)
             r == [ended EXCEPT !.waiting = ~terminal]
  <2>1. j \in Jobs /\ job[j] \in RowType /\ job[j].status = "running"
    BY <1>0, <1>16 DEF RecordFailure, FenceHolds
  <2>2. job' = [job EXCEPT ![j] = r] /\ DropCheckpoints(IF terminal THEN {j} ELSE {})
    BY <1>16 DEF RecordFailure
  <2> HIDE DEF r, terminal
  <2>3. CASE terminal
    BY Zenon, <1>4, <2>1, <2>2, <2>3
  <2>4. CASE ~terminal
    <3>1. ended.input = job[j].input /\ ended.status = "pending" /\ DOMAIN ended = DOMAIN job[j]
      BY <2>1, <2>4 DEF Released, Closed, RowType
    <3>2. r.input = job[j].input /\ r.status = "pending"
      <4> HIDE DEF ended
      <4> QED
        BY <2>1, <3>1 DEF r, RowType
    <3>3. ActiveJobs' = ActiveJobs /\ \A k \in Jobs : job'[k].input = job[k].input
      BY Zenon, <1>2, <2>1, <2>2, <3>2 DEF ActiveStatus
    <3> QED
      BY <2>2, <2>4, <3>3, DropInv DEF ActiveJobs
  <2> QED
    BY <2>3, <2>4
<1>17. \/ UNCHANGED <<job, checkpoint>>
       \/ \E i \in Images, c \in Contexts : CreateJob(i, c)
       \/ \E x \in Editors, i \in Images, c \in Contexts : Reprocess(x, i, c)
       \/ \E j \in JobId : Cancel(j) \/ LeaseElapses(j) \/ RetryElapses(j)
       \/ \E w \in Workers : \/ ClaimNext(w) \/ \E j \in JobId : ClaimByID(w, j)
                             \/ RestoreCheckpoint(w) \/ SegmentPage(w) \/ Heartbeat(w) \/ CommitPage(w) \/ RecordFailure(w)
                             \/ \E l \in Lines : StartLine(w, l) \/ SaveLine(w, l) \/ ReportLine(w, l)
                             \/ \E l \in Lines, b \in BOOLEAN : FailLine(w, l, b)
  BY Zenon DEF Next, WorkerStep, CreatePage, OpenPage, SavePage, LoadPage, FinishLines, Abort, LoseLease, Crash
<1> QED
  BY Zenon, <1>1, <1>6, <1>7, <1>8, <1>9, <1>11, <1>12, <1>13, <1>14, <1>15, <1>16, <1>17

\* No correction is lost, for any number of people, workers and attempts: each
\* revision is derived from its predecessor, because a resumed checkpoint and the
\* page a worker read are both at the input revision the fence and the
\* compare-and-swap of savePage insist on.
THEOREM NoUpdateLost == Spec => []NoLostUpdate
<1>1. Init => RevisionInv
  BY DEF Init, RevisionInv, NoLostUpdate, CheckpointInput, WorkerInput, ActiveJobs, Jobs, IdleWorker
<1>2. TypeOK /\ RevisionInv /\ [Next]_vars => RevisionInv'
  <2>1. ASSUME RevisionInv, UNCHANGED vars PROVE RevisionInv'
    BY <2>1 DEF vars, RevisionInv, NoLostUpdate, CheckpointInput, WorkerInput, ActiveJobs, Jobs
  <2> QED
    BY <2>1, LostUpdateStep, CheckpointStep, WorkerInputStep DEF RevisionInv
<1>3. RevisionInv => NoLostUpdate
  BY DEF RevisionInv
<1> QED
  BY <1>1, <1>2, <1>3, TypesHold, PTL DEF Spec

\* A job that ended keeps no checkpoint, lease or owner, so neither a late worker
\* nor a successor can act on what it left.
THEOREM NothingLeftBehind == Spec => []TerminalJobsHoldNothing
<1>1. Init => RevisionInv /\ RowInv
  BY DEF Init, RevisionInv, NoLostUpdate, CheckpointInput, WorkerInput, ActiveJobs, Jobs, IdleWorker, RowInv,
         OneActiveJobPerImage, AttemptsMatchJob, NoStrandedJob, LeaseState, NoOrphanAttempts
<1>2. TypeOK /\ RevisionInv /\ RowInv /\ [Next]_vars => RevisionInv' /\ RowInv'
  <2>1. ASSUME RevisionInv, RowInv, UNCHANGED vars PROVE RevisionInv' /\ RowInv'
    BY <2>1 DEF vars, RevisionInv, NoLostUpdate, CheckpointInput, WorkerInput, ActiveJobs, Jobs, RowInv,
                OneActiveJobPerImage, AttemptsMatchJob, NoStrandedJob, LeaseState, NoOrphanAttempts
  <2> QED
    BY <2>1, LostUpdateStep, CheckpointStep, WorkerInputStep, RowStep DEF RevisionInv
<1>3. TypeOK /\ RevisionInv /\ RowInv => TerminalJobsHoldNothing
  BY IdTypes DEF RevisionInv, CheckpointInput, RowInv, LeaseState, TerminalJobsHoldNothing, TerminalJobs,
                 ActiveJobs, TerminalStatus, ActiveStatus
<1> QED
  BY <1>1, <1>2, <1>3, TypesHold, PTL DEF Spec

--------------------------------------------------------------------------------
(* The fence *)

\* Two busy workers never hold the same attempt of the same job, and no worker
\* is ahead of the row it claimed.
Claims ==
  /\ \A w \in Workers : IF worker[w].pc = "idle" THEN worker[w].job = 0
                        ELSE /\ worker[w].job \in 1 .. lastJob
                             /\ worker[w].job \in Jobs => worker[w].attempt <= job[worker[w].job].attempts
  /\ \A v, w \in Workers :
       worker[v].pc # "idle" /\ worker[w].pc # "idle" /\ worker[v].job = worker[w].job
         /\ worker[v].attempt = worker[w].attempt => v = w

\* A worker keeps its claim or drops it.
KeepsClaim(w) ==
  \/ worker'[w] = IdleWorker \/ worker'[w] = worker[w]
  \/ /\ worker[w].pc # "idle" /\ worker'[w].pc # "idle"
     /\ worker'[w].job = worker[w].job /\ worker'[w].attempt = worker[w].attempt

\* A row is new or keeps its attempt count.
KeepsAttempts ==
  /\ lastJob' \in {lastJob, lastJob + 1}
  /\ \A j \in DOMAIN job' : j = lastJob + 1 \/ (j \in Jobs /\ job'[j].attempts = job[j].attempts)

\* Without a claim, claims stay distinct.
LEMMA KeptClaims ==
  ASSUME TypeOK, Claims, KeepsAttempts, \A w \in Workers : KeepsClaim(w)
  PROVE  Claims'
<1>1. IdleWorker.pc = "idle" /\ IdleWorker.job = 0
  BY DEF IdleWorker
<1>2. lastJob \in Nat
  BY IdTypes
<1>3. \A w \in Workers : IF worker'[w].pc = "idle" THEN worker'[w].job = 0
                        ELSE /\ worker[w].pc # "idle" /\ worker'[w].job = worker[w].job
                             /\ worker'[w].attempt = worker[w].attempt
  BY <1>1 DEF KeepsClaim, Claims
<1>4. \A w \in Workers : worker'[w].pc # "idle" => worker'[w].job \in 1 .. lastJob'
  BY <1>2, <1>3 DEF Claims, KeepsAttempts
<1>5. \A w \in Workers : worker'[w].pc # "idle" /\ worker'[w].job \in DOMAIN job'
                          => worker'[w].attempt <= job'[worker'[w].job].attempts
  <2> SUFFICES ASSUME NEW w \in Workers, worker'[w].pc # "idle", worker'[w].job \in DOMAIN job'
               PROVE  worker'[w].attempt <= job'[worker'[w].job].attempts
    OBVIOUS
  <2>1. worker[w].job \in 1 .. lastJob /\ worker[w].job # lastJob + 1
    BY <1>2, <1>3 DEF Claims
  <2> QED
    BY <1>3, <2>1 DEF Claims, KeepsAttempts
<1> QED
  BY <1>3, <1>4, <1>5 DEF Claims, Jobs

\* A claim takes the next attempt number of a row, which no worker holds.
LEMMA NewClaim ==
  ASSUME TypeOK, Claims, NEW w \in Workers, NEW dead, NEW taken, Claim(w, dead, taken),
         dead \cap taken = {}, taken = {} \/ \E j \in Jobs : taken = {j}
  PROVE  Claims'
<1>1. \A j \in Jobs : job[j] \in RowType /\ job[j].attempts \in Nat
  BY IdTypes DEF RowType
<1>2. \A j \in Jobs : Closed(job[j], "failed").attempts = job[j].attempts
  BY <1>1 DEF Closed, Released, RowType
<1>3. CASE taken = {}
  <2>1. \A j \in DOMAIN job' : j \in Jobs /\ job'[j].attempts = job[j].attempts
    BY <1>2, <1>3 DEF Claim
  <2>2. \A v \in Workers : worker'[v] = worker[v]
    BY <1>3 DEF Claim, TypeOK
  <2> QED
    BY Zenon, <2>1, <2>2, KeptClaims DEF KeepsAttempts, KeepsClaim, Claim
<1>4. ASSUME NEW j \in Jobs, taken = {j} PROVE Claims'
  <2> DEFINE n == job[j].attempts + 1
             m == ClaimedWorker(j, n)
             lease == [job[j] EXCEPT !.status = "running", !.attempts = @ + 1, !.waiting = FALSE,
                                   !.lease = FreshLease, !.token = NewLeaseOwner(j, job[j].attempts + 1),
                                   !.lastResult = FALSE]
  <2>1. m.pc # "idle" /\ m.job = j /\ m.attempt = n
    BY DEF ClaimedWorker, IdleWorker
  <2>2. lease.attempts = n
    BY <1>1 DEF RowType
  <2>3. (CHOOSE k \in taken : TRUE) = j /\ taken # {}
    BY <1>4
  <2>4. worker' = [worker EXCEPT ![w] = m]
    BY Zenon, <2>3 DEF Claim
  <2>5. job' = [k \in Jobs |-> IF k \in dead THEN Closed(job[k], "failed") ELSE IF k \in taken THEN lease ELSE job[k]]
    BY Zenon, <1>4 DEF Claim
  <2> HIDE DEF m, lease
  <2>6. \A k \in DOMAIN job' : k \in Jobs /\ (k # j => job'[k].attempts = job[k].attempts)
    BY <1>2, <1>4, <2>5
  <2>7. CASE j \notin dead
    <3>1. DOMAIN job' = Jobs /\ job'[j].attempts = n
      BY <1>4, <2>2, <2>5, <2>7
    <3>2. \A v \in Workers : worker'[v] = IF v = w THEN m ELSE worker[v]
      BY <2>4 DEF TypeOK
    <3>3. j \in 1 .. lastJob /\ UNCHANGED lastJob
      BY Zenon, IdTypes DEF Claim, TypeOK
    <3>4. \A v \in Workers \ {w} : worker[v].pc # "idle" /\ worker[v].job = j => worker[v].attempt < n
      BY <1>1 DEF Claims, TypeOK, WorkerType
    <3>5. \A v \in Workers : IF worker'[v].pc = "idle" THEN worker'[v].job = 0
                            ELSE /\ worker'[v].job \in 1 .. lastJob'
                                 /\ worker'[v].job \in DOMAIN job' => worker'[v].attempt <= job'[worker'[v].job].attempts
      <4> SUFFICES ASSUME NEW v \in Workers
                   PROVE  IF worker'[v].pc = "idle" THEN worker'[v].job = 0
                          ELSE /\ worker'[v].job \in 1 .. lastJob'
                               /\ worker'[v].job \in DOMAIN job' => worker'[v].attempt <= job'[worker'[v].job].attempts
        OBVIOUS
      <4>1. CASE v = w
        BY <1>1, <2>1, <3>1, <3>2, <3>3, <4>1
      <4>2. CASE v # w
        <5>0. worker[v] \in WorkerType
          BY DEF TypeOK
        <5>1. worker'[v] = worker[v] /\ worker[v].attempt \in Nat
          BY <3>2, <4>2, <5>0, IdTypes DEF WorkerType
        <5>2. worker[v].job = j => (worker[v].pc # "idle" => worker[v].attempt <= n)
          BY <1>1, <3>4, <4>2, <5>1
        <5> QED
          BY <2>6, <3>1, <3>3, <5>1, <5>2 DEF Claims
      <4> QED
        BY <4>1, <4>2
    <3>6. \A u, v \in Workers : worker'[u].pc # "idle" /\ worker'[v].pc # "idle" /\ worker'[u].job = worker'[v].job
                                /\ worker'[u].attempt = worker'[v].attempt => u = v
      BY <1>1, <2>1, <3>2, <3>4 DEF Claims
    <3> QED
      BY <3>5, <3>6 DEF Claims, Jobs
  <2> QED
    BY <1>4, <2>7
<1> QED
  BY <1>3, <1>4

\* Every other step keeps the claims and the attempt counts.
LEMMA OtherSteps ==
  ASSUME TypeOK, Claims, Next
  PROVE  \/ KeepsAttempts /\ \A w \in Workers : KeepsClaim(w)
         \/ \E w \in Workers : ClaimNext(w) \/ \E j \in JobId : ClaimByID(w, j)
<1> DEFINE keep == KeepsAttempts /\ \A w \in Workers : KeepsClaim(w)
<1> USE DEF store
<1>1. \A j \in Jobs : job[j] \in RowType
  BY IdTypes
<1>2. ASSUME NEW w \in Workers, NEW m, Step(w, m),
             \/ m = IdleWorker
             \/ worker[w].pc # "idle" /\ m.pc # "idle" /\ m.job = worker[w].job /\ m.attempt = worker[w].attempt
      PROVE  \A v \in Workers : KeepsClaim(v)
  BY <1>2 DEF Step, KeepsClaim, TypeOK
<1>3. ASSUME UNCHANGED <<job, lastJob>> PROVE KeepsAttempts
  BY <1>3 DEF KeepsAttempts, Jobs
<1>4. ASSUME NEW j \in Jobs, NEW r, job' = [job EXCEPT ![j] = r], r.attempts = job[j].attempts, UNCHANGED lastJob
      PROVE  KeepsAttempts
  BY <1>4 DEF KeepsAttempts, Jobs
<1>5. ASSUME UNCHANGED worker PROVE \A v \in Workers : KeepsClaim(v)
  BY <1>5 DEF KeepsClaim
<1>6. \A w \in Workers : worker[w] \in WorkerType
  BY DEF TypeOK
<1>7. ASSUME NEW w \in Workers, NEW error \in Errors, worker[w].pc # "idle", Step(w, Failing(w, error))
      PROVE  \A v \in Workers : KeepsClaim(v)
  <2>1. Failing(w, error).pc # "idle" /\ Failing(w, error).job = worker[w].job /\ Failing(w, error).attempt = worker[w].attempt
    BY <1>6 DEF Failing, WorkerType
  <2> QED
    BY <1>2, <1>7, <2>1
<1>8. ASSUME NEW w \in Workers, NEW l, NEW b \in BOOLEAN,
             StartLine(w, l) \/ SaveLine(w, l) \/ ReportLine(w, l) \/ FailLine(w, l, b)
      PROVE  \A v \in Workers : KeepsClaim(v)
  <2>1. ASSUME NEW state, worker[w].pc = "lines"
        PROVE  /\ MarkLine(w, l, state).pc # "idle" /\ MarkLine(w, l, state).job = worker[w].job
               /\ MarkLine(w, l, state).attempt = worker[w].attempt /\ DOMAIN MarkLine(w, l, state) = DOMAIN worker[w]
    BY <1>6, <2>1 DEF MarkLine, WorkerType
  <2>2. PICK state \in {"busy", "saved", "done", "failed"} :
          worker[w].pc = "lines" /\ (Step(w, MarkLine(w, l, state)) \/ Step(w, [MarkLine(w, l, state) EXCEPT !.retry = @ \/ b]))
    BY Zenon, <1>8 DEF StartLine, SaveLine, ReportLine, FailLine
  <2> DEFINE m == MarkLine(w, l, state)
  <2>3. m.pc # "idle" /\ m.job = worker[w].job /\ m.attempt = worker[w].attempt /\ DOMAIN m = DOMAIN worker[w]
    BY <2>1, <2>2
  <2> HIDE DEF m
  <2>4. LET x == [m EXCEPT !.retry = @ \/ b] IN x.pc # "idle" /\ x.job = worker[w].job /\ x.attempt = worker[w].attempt
    BY <1>6, <2>3 DEF WorkerType
  <2> QED
    BY Zenon, <1>2, <2>2, <2>3, <2>4 DEF m
<1>9. ASSUME NEW w \in Workers,
             \/ LoadPage(w) \/ RestoreCheckpoint(w) \/ SegmentPage(w) \/ FinishLines(w)
      PROVE  keep
  <2>1. KeepsAttempts
    BY <1>3, <1>9 DEF LoadPage, RestoreCheckpoint, SegmentPage, FinishLines
  <2>2. worker[w] \in WorkerType /\ worker[w].pc # "idle"
    BY <1>6, <1>9 DEF LoadPage, RestoreCheckpoint, SegmentPage, FinishLines
  <2> DEFINE same(m) == m.pc # "idle" /\ m.job = worker[w].job /\ m.attempt = worker[w].attempt
  <2>3. ASSUME NEW m, same(m), Step(w, m) PROVE \A v \in Workers : KeepsClaim(v)
    BY <1>2, <2>2, <2>3
  <2>4. CASE LoadPage(w)
    <3> DEFINE m == [worker[w] EXCEPT !.pc = "loaded", !.base = Revision(job[worker[w].job].image)]
    <3>1. same(m)
      BY <2>2 DEF WorkerType
    <3>2. Step(w, m) \/ Step(w, Failing(w, "permanent"))
      BY <2>4 DEF LoadPage
    <3> HIDE DEF m
    <3> QED
      BY <1>7, <2>1, <2>2, <2>3, <3>1, <3>2 DEF Errors
  <2>5. CASE RestoreCheckpoint(w)
    <3> DEFINE saved == checkpoint[worker[w].job]
               m == [worker[w] EXCEPT !.pc = "lines", !.base = saved.base, !.line = Recognised(worker[w].job, saved.lines)]
               n == [worker[w] EXCEPT !.pc = "segment"]
    <3>1. same(m) /\ same(n)
      BY <2>2 DEF WorkerType
    <3>2. Step(w, m) \/ Step(w, n)
      BY <2>5 DEF RestoreCheckpoint
    <3> HIDE DEF m, n
    <3> QED
      BY <2>1, <2>3, <3>1, <3>2
  <2>6. CASE SegmentPage(w)
    <3> DEFINE m == [worker[w] EXCEPT !.pc = "lines", !.line = Recognised(worker[w].job, {})]
    <3>1. same(m) /\ Step(w, m)
      BY <2>2, <2>6 DEF WorkerType, SegmentPage
    <3> HIDE DEF m
    <3> QED
      BY <2>1, <2>3, <3>1
  <2>7. CASE FinishLines(w)
    <3> DEFINE m == [worker[w] EXCEPT !.pc = "commit"]
    <3>1. same(m)
      BY <2>2 DEF WorkerType
    <3>2. Step(w, m) \/ \E error \in Errors : Step(w, Failing(w, error))
      BY <2>7 DEF FinishLines, Errors
    <3> HIDE DEF m
    <3> QED
      BY <1>7, <2>1, <2>2, <2>3, <3>1, <3>2
  <2> QED
    BY <1>9, <2>4, <2>5, <2>6, <2>7
<1>10. ASSUME NEW w \in Workers, LoseLease(w) \/ Crash(w) \/ \E error \in Errors : Abort(w, error) PROVE keep
  <2>1. KeepsAttempts
    BY <1>3, <1>10 DEF LoseLease, Crash, Abort
  <2> QED
    BY <1>2, <1>7, <1>10, <2>1 DEF LoseLease, Crash, Abort, Processing
<1>11. ASSUME NEW w \in Workers, NEW l, NEW b \in BOOLEAN,
              StartLine(w, l) \/ SaveLine(w, l) \/ ReportLine(w, l) \/ FailLine(w, l, b)
       PROVE  keep
  <2>1. ASSUME NEW x, worker[w].job \in Jobs PROVE [job[worker[w].job] EXCEPT !.lastResult = x].attempts = job[worker[w].job].attempts
    BY <1>1, <2>1 DEF RowType
  <2>2. KeepsAttempts
    BY <1>3, <1>4, <1>11, <2>1, ZenonT(30)
    DEF StartLine, SaveLine, ReportLine, FailLine, UpdateProgress, FenceHolds
  <2> QED
    BY Zenon, <1>8, <1>11, <2>2
<1>12. ASSUME NEW w \in Workers, Heartbeat(w) PROVE keep
  <2>1. worker[w].job \in Jobs /\ [job[worker[w].job] EXCEPT !.lease = FreshLease].attempts = job[worker[w].job].attempts
    BY <1>1, <1>12 DEF Heartbeat, FenceHolds, RowType
  <2> QED
    BY Zenon, <1>4, <1>5, <1>12, <2>1 DEF Heartbeat
<1>13. ASSUME NEW j \in Jobs, NEW s PROVE Released(job[j], s).attempts = job[j].attempts /\ Closed(job[j], s).attempts = job[j].attempts
  BY <1>1 DEF Released, Closed, RowType
<1>14. ASSUME NEW w \in Workers, CommitPage(w) PROVE keep
  <2>1. worker[w].job \in Jobs /\ worker[w].pc # "idle"
    BY SMTT(20), <1>14 DEF CommitPage, FenceHolds
  <2>2. CASE Revision(job[worker[w].job].image) = worker[w].input
    BY <1>2, <1>4, <1>13, <1>14, <2>1, <2>2 DEF CommitPage
  <2>3. CASE Revision(job[worker[w].job].image) # worker[w].input
    BY <1>3, <1>7, <1>14, <2>1, <2>3 DEF CommitPage, Errors
  <2> QED
    BY <2>2, <2>3
<1>15. ASSUME NEW w \in Workers, RecordFailure(w) PROVE keep
  <2> DEFINE j == worker[w].job
             terminal == FailsJob(job[j], worker[w].error)
             status == IF terminal THEN "failed" ELSE "pending"
             ended == IF worker[w].error = "retryable" THEN Released(job[j], status) ELSE Closed(job[j], status)
             r == [ended EXCEPT !.waiting = ~terminal]
  <2>1. j \in Jobs /\ job' = [job EXCEPT ![j] = r] /\ UNCHANGED lastJob /\ Step(w, IdleWorker)
    BY <1>15 DEF RecordFailure, FenceHolds
  <2>2. ended.attempts = job[j].attempts /\ DOMAIN ended = DOMAIN job[j] /\ "attempts" \in DOMAIN job[j]
    BY <1>1, <2>1 DEF Released, Closed, RowType
  <2>3. r.attempts = job[j].attempts
    <3> HIDE DEF ended, terminal
    <3> QED
      BY <2>2
  <2> HIDE DEF r
  <2> QED
    BY Zenon, <1>2, <1>4, <2>1, <2>3
<1>16. ASSUME NEW j \in JobId, Cancel(j) PROVE keep
  BY Zenon, <1>4, <1>5, <1>13, <1>16 DEF Cancel, ActiveJobs
<1>17. ASSUME NEW j \in JobId, LeaseElapses(j) \/ RetryElapses(j) PROVE keep
  <2>1. j \in Jobs /\ [job[j] EXCEPT !.lease = @ - 1].attempts = job[j].attempts /\ [job[j] EXCEPT !.waiting = FALSE].attempts = job[j].attempts
    BY <1>1, <1>17 DEF LeaseElapses, RetryElapses, RowType
  <2> QED
    BY Zenon, <1>4, <1>5, <1>17, <2>1 DEF LeaseElapses, RetryElapses
<1>18. ASSUME NEW i, NEW c, NEW n, NEW gone, Admit(i, c, n, gone) PROVE KeepsAttempts
  BY <1>13, <1>18 DEF Admit, KeepsAttempts
<1>19. ASSUME NEW i \in Images, NEW c \in Contexts, CreateJob(i, c) PROVE keep
  <2>1. ASSUME NEW gone, Retain(gone), UNCHANGED lastJob PROVE KeepsAttempts
    BY <2>1 DEF Retain, KeepsAttempts, Jobs
  <2> QED
    BY <1>5, <1>18, <1>19, <2>1 DEF CreateJob
<1>20. ASSUME NEW x \in Editors, NEW i \in Images, NEW c \in Contexts, Reprocess(x, i, c) PROVE keep
  BY <1>5, <1>18, <1>20 DEF Reprocess
<1>21. ASSUME UNCHANGED <<job, lastJob, worker>> PROVE keep
  BY Zenon, <1>3, <1>5, <1>21
<1>22. \/ UNCHANGED <<job, lastJob, worker>>
       \/ \E i \in Images, c \in Contexts : CreateJob(i, c)
       \/ \E x \in Editors, i \in Images, c \in Contexts : Reprocess(x, i, c)
       \/ \E j \in JobId : Cancel(j) \/ LeaseElapses(j) \/ RetryElapses(j)
       \/ \E w \in Workers : ClaimNext(w) \/ WorkerStep(w) \/ Heartbeat(w) \/ Crash(w)
       \/ \E w \in Workers, j \in JobId : ClaimByID(w, j)
       \/ \E w \in Workers, l \in Lines, b \in BOOLEAN : FailLine(w, l, b)
       \/ \E w \in Workers, error \in Errors : Abort(w, error)
  BY DEF Next, CreatePage, OpenPage, SavePage
<1> HIDE DEF keep
<1>23. ASSUME NEW w \in Workers, WorkerStep(w) PROVE keep
  BY Zenon, <1>9, <1>10, <1>11, <1>14, <1>15, <1>23 DEF WorkerStep
<1>24. keep \/ \E w \in Workers : ClaimNext(w) \/ \E j \in JobId : ClaimByID(w, j)
  BY <1>10, <1>11, <1>12, <1>16, <1>17, <1>19, <1>20, <1>21, <1>22, <1>23
<1> QED
  BY <1>24 DEF keep

\* Every execution keeps the claims distinct.
LEMMA ClaimsKept == Spec => []Claims
<1>1. Init => Claims
  BY DEF Init, Claims, IdleWorker
<1>2. TypeOK /\ Claims /\ [Next]_vars => Claims'
  <2>1. ASSUME TypeOK, Claims, Next PROVE Claims'
    <3>1. ASSUME NEW w \in Workers, NEW j \in JobId, ClaimByID(w, j) PROVE Claims'
      <4>1. Exhausted \subseteq Jobs /\ Claimable \subseteq Jobs
        BY DEF Exhausted, Claimable
      <4> QED
        BY <2>1, <3>1, <4>1, NewClaim DEF ClaimByID
    <3>2. ASSUME NEW w \in Workers, ClaimNext(w) PROVE Claims'
      <4>1. CASE Claim(w, Exhausted, {})
        BY <2>1, <4>1, NewClaim
      <4>2. ASSUME NEW j \in Claimable, Claim(w, {k \in Exhausted : k < j}, {j}) PROVE Claims'
        <5>1. j \in Jobs /\ j \in Nat /\ {k \in Exhausted : k < j} \cap {j} = {}
          BY <2>1, IdTypes DEF Claimable, Exhausted
        <5> QED
          BY <2>1, <4>2, <5>1, NewClaim
      <4> QED
        BY Zenon, <3>2, <4>1, <4>2 DEF ClaimNext
    <3> QED
      BY <2>1, <3>1, <3>2, OtherSteps, KeptClaims
  <2>2. ASSUME Claims, UNCHANGED vars PROVE Claims'
    BY <2>2 DEF vars, Claims, Jobs
  <2> QED
    BY <2>1, <2>2
<1> QED
  BY <1>1, <1>2, TypesHold, PTL DEF Spec

\* Distinct claims have distinct owners.
LEMMA DistinctOwners ==
  ASSUME TypeOK, Claims
  PROVE  OneOwnerPerJob
BY IdTypes DEF Claims, OneOwnerPerJob, FenceHolds

\* However many leases expire, are reclaimed or are renewed late, no two workers
\* pass the fence of one job: an attempt number is handed out once.
THEOREM OneOwner == Spec => []OneOwnerPerJob
<1>1. TypeOK /\ Claims => OneOwnerPerJob
  BY DistinctOwners
<1> QED
  BY <1>1, ClaimsKept, TypesHold, PTL

--------------------------------------------------------------------------------
(* Line results *)

\* A row ends, is claimed once more, or keeps its claim and gets no older lease back.
RowGoesOn(j) ==
  \/ job'[j].status # "running"
  \/ job'[j].attempts = job[j].attempts + 1
  \/ /\ job'[j].status = job[j].status /\ job'[j].attempts = job[j].attempts /\ job'[j].input = job[j].input
     /\ job'[j].token = job[j].token /\ job'[j].context = job[j].context
     /\ job'[j].lease > 1 => job[j].lease > 1

RowsGoOn ==
  /\ DOMAIN job' \subseteq Jobs \cup {lastJob + 1}
  /\ \A j \in Jobs : j \in DOMAIN job' => RowGoesOn(j)

\* No step gives an expired lease back to the worker that lost it.
LEMMA RowsStep ==
  ASSUME TypeOK, Next
  PROVE  RowsGoOn
<1> USE DEF store
<1>1. \A j \in Jobs : job[j] \in RowType /\ job[j].lease \in Int
  BY IdTypes, ConstantsAssumption DEF RowType, FreshLease, ConstantsAssumption
<1>2. CASE UNCHANGED job
  BY <1>2 DEF RowsGoOn, RowGoesOn, Jobs
<1>3. ASSUME NEW j \in Jobs, NEW r, job' = [job EXCEPT ![j] = r],
             \/ r.status # "running"
             \/ /\ r.status = job[j].status /\ r.attempts = job[j].attempts /\ r.input = job[j].input
                /\ r.token = job[j].token /\ r.context = job[j].context
                /\ r.lease > 1 => job[j].lease > 1
      PROVE  RowsGoOn
  BY <1>3 DEF RowsGoOn, RowGoesOn, Jobs
<1>4. ASSUME NEW j \in Jobs, NEW s \in {"pending"} \cup TerminalStatus
      PROVE  /\ Released(job[j], s).status = s /\ Closed(job[j], s).status = s /\ s # "running"
             /\ DOMAIN Released(job[j], s) = DOMAIN job[j] /\ DOMAIN Closed(job[j], s) = DOMAIN job[j]
  BY <1>1 DEF Released, Closed, RowType, TerminalStatus
<1>5. ASSUME NEW w \in Workers, NEW b, UpdateProgress(w, b) PROVE RowsGoOn
  <2> DEFINE j == worker[w].job
             r == [job[j] EXCEPT !.lastResult = b]
  <2>1. j \in Jobs /\ job' = [job EXCEPT ![j] = r]
    BY <1>5 DEF UpdateProgress, FenceHolds
  <2>2. /\ r.status = job[j].status /\ r.attempts = job[j].attempts /\ r.input = job[j].input
        /\ r.token = job[j].token /\ r.context = job[j].context /\ r.lease = job[j].lease
    BY <1>1, <2>1 DEF RowType
  <2> HIDE DEF r
  <2> QED
    BY Zenon, <1>3, <2>1, <2>2
<1>6. ASSUME NEW w \in Workers, Heartbeat(w) PROVE RowsGoOn
  <2> DEFINE j == worker[w].job
             r == [job[j] EXCEPT !.lease = FreshLease]
  <2>1. j \in Jobs /\ job' = [job EXCEPT ![j] = r] /\ job[j].lease > 1
    BY <1>6 DEF Heartbeat, FenceHolds
  <2>2. /\ r.status = job[j].status /\ r.attempts = job[j].attempts /\ r.input = job[j].input
        /\ r.token = job[j].token /\ r.context = job[j].context
    BY <1>1, <2>1 DEF RowType
  <2> HIDE DEF r
  <2> QED
    BY Zenon, <1>3, <2>1, <2>2
<1>7. ASSUME NEW j \in JobId, LeaseElapses(j) PROVE RowsGoOn
  <2> DEFINE r == [job[j] EXCEPT !.lease = @ - 1]
  <2>1. j \in Jobs /\ job' = [job EXCEPT ![j] = r]
    BY <1>7 DEF LeaseElapses
  <2>2. /\ r.status = job[j].status /\ r.attempts = job[j].attempts /\ r.input = job[j].input
        /\ r.token = job[j].token /\ r.context = job[j].context /\ r.lease = job[j].lease - 1
    BY <1>1, <2>1 DEF RowType
  <2>3. job[j].lease \in Int
    BY <1>1, <2>1
  <2>4. r.lease > 1 => job[j].lease > 1
    BY <2>2, <2>3
  <2> HIDE DEF r
  <2> QED
    BY Zenon, <1>3, <2>1, <2>2, <2>4
<1>8. ASSUME NEW j \in JobId, RetryElapses(j) PROVE RowsGoOn
  <2> DEFINE r == [job[j] EXCEPT !.waiting = FALSE]
  <2>1. j \in Jobs /\ job' = [job EXCEPT ![j] = r]
    BY <1>8 DEF RetryElapses
  <2>2. /\ r.status = job[j].status /\ r.attempts = job[j].attempts /\ r.input = job[j].input
        /\ r.token = job[j].token /\ r.context = job[j].context /\ r.lease = job[j].lease
    BY <1>1, <2>1 DEF RowType
  <2> HIDE DEF r
  <2> QED
    BY Zenon, <1>3, <2>1, <2>2
<1>9. ASSUME NEW j \in JobId, Cancel(j) PROVE RowsGoOn
  BY Zenon, <1>3, <1>4, <1>9 DEF Cancel, ActiveJobs, TerminalStatus
<1>10. ASSUME NEW w \in Workers, CommitPage(w) PROVE RowsGoOn
  BY <1>2, <1>3, <1>4, <1>10 DEF CommitPage, FenceHolds, TerminalStatus
<1>11. ASSUME NEW w \in Workers, RecordFailure(w) PROVE RowsGoOn
  <2> DEFINE j == worker[w].job
             terminal == FailsJob(job[j], worker[w].error)
             status == IF terminal THEN "failed" ELSE "pending"
             ended == IF worker[w].error = "retryable" THEN Released(job[j], status) ELSE Closed(job[j], status)
             r == [ended EXCEPT !.waiting = ~terminal]
  <2>1. j \in Jobs /\ job' = [job EXCEPT ![j] = r]
    BY <1>11 DEF RecordFailure, FenceHolds
  <2>2. status \in {"pending"} \cup TerminalStatus
    BY DEF TerminalStatus
  <2> HIDE DEF status, terminal
  <2>3. ended.status = status /\ status # "running" /\ "status" \in DOMAIN ended
    BY <1>1, <1>4, <2>1, <2>2 DEF RowType
  <2> HIDE DEF ended
  <2>4. r.status # "running"
    BY <2>3
  <2> HIDE DEF r
  <2> QED
    BY Zenon, <1>3, <2>1, <2>4
<1>12. ASSUME NEW i, NEW c, NEW n, NEW gone, Admit(i, c, n, gone) PROVE RowsGoOn
  <2>1. DOMAIN job' = (Jobs \ gone) \cup {lastJob + 1}
    BY <1>12 DEF Admit
  <2>2. ASSUME NEW j \in Jobs, j \in DOMAIN job' PROVE RowGoesOn(j)
    <3>1. j # lastJob + 1
      BY IdTypes
    <3>2. job'[j] = IF j \in ActiveOn(i) THEN Closed(job[j], "superseded") ELSE job[j]
      BY <1>12, <2>2, <3>1 DEF Admit
    <3> QED
      BY <1>4, <3>2 DEF RowGoesOn, TerminalStatus
  <2> QED
    BY <2>1, <2>2 DEF RowsGoOn
<1>13. ASSUME NEW i \in Images, NEW c \in Contexts, CreateJob(i, c) PROVE RowsGoOn
  <2>1. ASSUME NEW gone, Retain(gone) PROVE RowsGoOn
    BY <2>1 DEF Retain, RowsGoOn, RowGoesOn
  <2> QED
    BY <1>12, <1>13, <2>1 DEF CreateJob
<1>14. ASSUME NEW w \in Workers, NEW dead, NEW taken, Claim(w, dead, taken) PROVE RowsGoOn
  <2>1. DOMAIN job' = Jobs
    BY Zenon, <1>14 DEF Claim
  <2>2. ASSUME NEW j \in Jobs PROVE RowGoesOn(j)
    <3>1. CASE j \in dead
      BY Zenon, <1>4, <1>14, <3>1 DEF Claim, RowGoesOn, TerminalStatus
    <3>2. CASE j \in taken \ dead
      <4>1. job'[j].attempts = job[j].attempts + 1
        BY Zenon, <1>1, <1>14, <3>2 DEF Claim, RowType
      <4> QED
        BY <4>1 DEF RowGoesOn
    <3>3. CASE j \notin dead \cup taken
      BY Zenon, <1>14, <3>3 DEF Claim, RowGoesOn
    <3> QED
      BY <3>1, <3>2, <3>3
  <2> QED
    BY <2>1, <2>2 DEF RowsGoOn
<1>15. \/ UNCHANGED job
       \/ \E i \in Images, c \in Contexts : CreateJob(i, c)
       \/ \E i, c, n, gone : Admit(i, c, n, gone)
       \/ \E j \in JobId : Cancel(j) \/ LeaseElapses(j) \/ RetryElapses(j)
       \/ \E w \in Workers : \E dead, taken : Claim(w, dead, taken)
       \/ \E w \in Workers : Heartbeat(w) \/ CommitPage(w) \/ RecordFailure(w)
       \/ \E w \in Workers, b \in BOOLEAN : UpdateProgress(w, b)
  BY Zenon DEF Next, WorkerStep, CreatePage, OpenPage, SavePage, Reprocess, ClaimByID, ClaimNext, LoadPage,
         RestoreCheckpoint, SegmentPage, StartLine, SaveLine, ReportLine, FailLine, FinishLines, Abort, LoseLease,
         Crash
<1> QED
  BY <1>2, <1>5, <1>6, <1>7, <1>8, <1>9, <1>10, <1>11, <1>12, <1>13, <1>14, <1>15

\* A worker that passes the fence after a step and kept its claim passed it before.
LEMMA FenceKept ==
  ASSUME TypeOK, TypeOK', Claims, RowsGoOn, NEW w \in Workers,
         worker'[w].job = worker[w].job, worker'[w].attempt = worker[w].attempt,
         worker'[w].input = worker[w].input, worker'[w].token = worker[w].token, FenceHolds(w)'
  PROVE  FenceHolds(w) /\ job'[worker[w].job].context = job[worker[w].job].context
<1> DEFINE j == worker[w].job
<1>1. /\ j \in DOMAIN job' /\ job'[j].status = "running" /\ job'[j].attempts = worker[w].attempt
      /\ job'[j].input = worker[w].input /\ job'[j].token = worker[w].token /\ job'[j].lease > 1
  BY DEF FenceHolds, Jobs
<1>2. j # 0 /\ lastJob \in Nat
  BY <1>1, IdTypes DEF TypeOK, Jobs
<1>3. j \in Jobs
  BY SMTT(20), <1>1, <1>2 DEF Claims, RowsGoOn
<1>4. worker[w].attempt <= job[j].attempts /\ job[j].attempts \in Nat
  BY <1>2, <1>3, IdTypes DEF Claims, RowType
<1> QED
  BY <1>1, <1>3, <1>4 DEF RowsGoOn, RowGoesOn, FenceHolds

--------------------------------------------------------------------------------

\* What the memory m of a lease holder says of the line rows of its job.
LineState(m, context, rows) ==
  LET known == {l \in Lines : m.line[l] \in {"saved", "done"}} IN
  /\ m.pc = "segment" => rows = {}
  /\ m.pc \in {"lines", "commit"} => /\ rows \subseteq known
                                     /\ context \notin PageContexts => rows = known
  /\ m.pc = "commit" => \A l \in Lines : m.line[l] \in {"done", "failed"}

LineInv ==
  \A w \in Workers :
    FenceHolds(w) => LineState(worker[w], job[worker[w].job].context, checkpoint[worker[w].job].lines)

\* The invariant says what the two properties say.
LEMMA LineInvHolds ==
  ASSUME TypeOK, LineInv
  PROVE  LinesHold
<1> SUFFICES ASSUME NEW w \in Workers, FenceHolds(w)
             PROVE  /\ worker[w].pc \in {"lines", "commit"} =>
                         \A l \in checkpoint[worker[w].job].lines : worker[w].line[l] \in {"saved", "done"}
                    /\ worker[w].pc = "commit" =>
                         /\ \A l \in Lines : worker[w].line[l] \in {"done", "failed"}
                         /\ job[worker[w].job].context \notin PageContexts =>
                              {l \in Lines : worker[w].line[l] = "done"} = checkpoint[worker[w].job].lines
  BY DEF LinesHold, NoRepeatedLine, CommitsWholePage
<1>1. LineState(worker[w], job[worker[w].job].context, checkpoint[worker[w].job].lines)
  BY DEF LineInv
<1> QED
  BY <1>1 DEF LineState

\* A worker that a step leaves alone, with the line rows of its job, stays right.
LEMMA Undisturbed ==
  ASSUME TypeOK, TypeOK', Claims, LineInv, RowsGoOn, NEW w \in Workers, worker'[w] = worker[w], FenceHolds(w)',
         checkpoint'[worker[w].job] = checkpoint[worker[w].job]
  PROVE  LineState(worker'[w], job'[worker'[w].job].context, checkpoint'[worker'[w].job].lines)
<1>1. FenceHolds(w) /\ job'[worker[w].job].context = job[worker[w].job].context
  BY FenceKept
<1> QED
  BY <1>1 DEF LineInv

\* A step that deletes only the line rows of jobs that end, and starts a worker at
\* most, keeps the invariant.
LEMMA DroppedLines ==
  ASSUME TypeOK, TypeOK', Claims, LineInv, RowsGoOn,
         \A w \in Workers : worker'[w] = worker[w] \/ worker'[w].pc \in {"idle", "claimed", "loaded", "failing"},
         \A j \in JobId : \/ checkpoint'[j] = checkpoint[j]
                          \/ j \notin DOMAIN job' \/ job'[j].status # "running"
  PROVE  LineInv'
<1> SUFFICES ASSUME NEW w \in Workers, FenceHolds(w)'
             PROVE  LineState(worker'[w], job'[worker'[w].job].context, checkpoint'[worker'[w].job].lines)
  BY DEF LineInv
<1>1. worker'[w].job \in DOMAIN job' /\ job'[worker'[w].job].status = "running" /\ worker'[w].job \in JobId
  <2>1. worker'[w].job \in DOMAIN job' /\ job'[worker'[w].job].status = "running"
    BY DEF FenceHolds, Jobs
  <2>2. DOMAIN job' \subseteq 1 .. lastJob' /\ lastJob' \in 0 .. MaxJobs /\ MaxJobs \in Nat
    BY ConstantsAssumption DEF TypeOK, Jobs, ConstantsAssumption
  <2> QED
    BY <2>1, <2>2 DEF JobId
<1>2. CASE worker'[w] = worker[w]
  BY <1>1, <1>2, Undisturbed
<1>3. CASE worker'[w].pc \in {"idle", "claimed", "loaded", "failing"}
  BY <1>3 DEF LineState
<1> QED
  BY <1>2, <1>3

\* A lease holder's own step disturbs no other lease holder: there is none.
LEMMA OwnLines ==
  ASSUME TypeOK, TypeOK', Claims, LineInv, OneOwnerPerJob, RowsGoOn, NEW u \in Workers, FenceHolds(u),
         \A w \in Workers \ {u} : worker'[w] = worker[w],
         \A j \in JobId \ {worker[u].job} : checkpoint'[j] = checkpoint[j],
         FenceHolds(u)' => LineState(worker'[u], job'[worker'[u].job].context, checkpoint'[worker'[u].job].lines)
  PROVE  LineInv'
<1> SUFFICES ASSUME NEW w \in Workers, FenceHolds(w)'
             PROVE  LineState(worker'[w], job'[worker'[w].job].context, checkpoint'[worker'[w].job].lines)
  BY DEF LineInv
<1>1. CASE w = u
  BY <1>1
<1>2. CASE w # u
  <2>1. worker'[w] = worker[w]
    BY <1>2
  <2>2. FenceHolds(w)
    BY <2>1, FenceKept
  <2>3. worker[w].job # worker[u].job
    BY <1>2, <2>2 DEF OneOwnerPerJob
  <2>4. worker[w].job \in JobId
    BY <2>2, IdTypes DEF FenceHolds
  <2> QED
    BY <2>1, <2>3, <2>4, Undisturbed
<1> QED
  BY <1>1, <1>2

\* A worker's own step on its lines keeps the invariant: the step and the line row
\* change together, under the fence.
LEMMA WorkerLines ==
  ASSUME TypeOK, TypeOK', Claims, LineInv, OneOwnerPerJob, RowsGoOn, NEW u \in Workers, NEW b \in BOOLEAN,
         \/ RestoreCheckpoint(u) \/ SegmentPage(u) \/ FinishLines(u)
         \/ \E l \in Lines : StartLine(u, l) \/ SaveLine(u, l) \/ ReportLine(u, l) \/ FailLine(u, l, b)
  PROVE  LineInv'
<1> DEFINE me == worker[u]
           j == me.job
           context == job[j].context
           rows == checkpoint[j].lines
           right(m, r) == LineState(m, context, r)
<1> USE DEF store
<1>1. me \in WorkerType /\ worker \in [Workers -> WorkerType] /\ checkpoint \in [JobId -> [base : Nat, lines : SUBSET Lines]]
  BY DEF TypeOK
<1>2. FenceHolds(u) => j \in JobId /\ right(me, rows) /\ rows \subseteq Lines
  BY <1>1, IdTypes DEF FenceHolds, LineInv
<1>3. ASSUME NEW m, Step(u, m)
      PROVE  worker'[u] = m /\ \A w \in Workers \ {u} : worker'[w] = worker[w]
  BY <1>1, <1>3 DEF Step
<1>4. ASSUME FenceHolds(u), NEW m, Step(u, m), m.job = j, m.attempt = me.attempt, m.input = me.input, m.token = me.token,
             NEW r, right(m, r), checkpoint'[j].lines = r, \A i \in JobId \ {j} : checkpoint'[i] = checkpoint[i]
      PROVE  LineInv'
  <2>1. worker'[u] = m /\ \A w \in Workers \ {u} : worker'[w] = worker[w]
    BY Zenon, <1>3, <1>4
  <2>2. FenceHolds(u)' => job'[j].context = context
    BY Zenon, <1>4, <2>1, FenceKept
  <2>3. FenceHolds(u)' => LineState(worker'[u], job'[worker'[u].job].context, checkpoint'[worker'[u].job].lines)
    BY Zenon, <1>4, <2>1, <2>2
  <2> HIDE DEF right
  <2> QED
    BY Zenon, <1>4, <2>1, <2>3, OwnLines
<1>5. CASE RestoreCheckpoint(u)
  <2> DEFINE m == [me EXCEPT !.pc = "lines", !.base = checkpoint[j].base, !.line = Recognised(j, rows)]
             n == [me EXCEPT !.pc = "segment"]
  <2>1. FenceHolds(u) /\ rows \subseteq Lines /\ j \in JobId
    BY <1>2, <1>5 DEF RestoreCheckpoint
  <2>2. /\ m.job = j /\ m.attempt = me.attempt /\ m.input = me.input /\ m.token = me.token
        /\ m.pc = "lines" /\ m.line = Recognised(j, rows)
    BY <1>1 DEF WorkerType
  <2>3. n.job = j /\ n.attempt = me.attempt /\ n.input = me.input /\ n.token = me.token /\ n.pc = "segment"
    BY SMTT(20), <1>1 DEF WorkerType
  <2>4. right(m, rows)
    <3> HIDE DEF m
    <3> QED
      BY <2>1, <2>2 DEF LineState, Recognised
  <2>5. right(n, {})
    <3> HIDE DEF n
    <3> QED
      BY <2>3 DEF LineState
  <2>6. \/ Step(u, m) /\ UNCHANGED checkpoint
        \/ Step(u, n) /\ checkpoint'[j].lines = {} /\ \A i \in JobId \ {j} : checkpoint'[i] = checkpoint[i]
    BY <1>1, <1>5, <2>1 DEF RestoreCheckpoint, DropCheckpoints, NoCheckpoint
  <2> HIDE DEF m, n, right, me
  <2> QED
    BY SMTT(20), <1>4, <2>1, <2>2, <2>3, <2>4, <2>5, <2>6
<1>6. CASE SegmentPage(u)
  <2> DEFINE m == [me EXCEPT !.pc = "lines", !.line = Recognised(j, {})]
  <2>1. FenceHolds(u) /\ j \in JobId /\ rows = {}
    BY <1>2, <1>6 DEF SegmentPage, LineState
  <2>2. /\ m.job = j /\ m.attempt = me.attempt /\ m.input = me.input /\ m.token = me.token
        /\ m.pc = "lines" /\ m.line = Recognised(j, {})
    BY <1>1 DEF WorkerType
  <2>3. right(m, {})
    <3> HIDE DEF m
    <3> QED
      BY <2>2 DEF LineState, Recognised
  <2>4. Step(u, m) /\ checkpoint'[j].lines = {} /\ \A i \in JobId \ {j} : checkpoint'[i] = checkpoint[i]
    BY <1>1, <1>6, <2>1 DEF SegmentPage
  <2> HIDE DEF m, right, me
  <2> QED
    BY <1>4, <2>1, <2>2, <2>3, <2>4
<1>7. ASSUME NEW l \in Lines, me.pc = "lines", FenceHolds(u), NEW s \in {"busy", "saved", "done", "failed"},
             NEW m, Step(u, m), m.line = [me.line EXCEPT ![l] = s], m.pc = me.pc,
             m.job = j, m.attempt = me.attempt, m.input = me.input, m.token = me.token,
             \/ /\ checkpoint'[j].lines = rows \cup {l} /\ \A i \in JobId \ {j} : checkpoint'[i] = checkpoint[i]
                /\ me.line[l] = "busy" /\ s = "saved"
             \/ /\ UNCHANGED checkpoint
                /\ \/ me.line[l] \in {"todo", "busy"} /\ s \in {"busy", "failed"}
                   \/ me.line[l] = "saved" /\ s = "done"
      PROVE  LineInv'
  <2>1. me.line \in [Lines -> {"todo", "busy", "saved", "done", "failed"}]
    BY SMTT(20), <1>1 DEF WorkerType
  <2>2. right(me, rows) /\ rows \subseteq Lines /\ m.pc = "lines"
    BY SMTT(20), <1>2, <1>7
  <2> DEFINE r == checkpoint'[j].lines
             known == {k \in Lines : me.line[k] \in {"saved", "done"}}
             now == {k \in Lines : m.line[k] \in {"saved", "done"}}
  <2>3. right(m, r)
    <3> HIDE DEF me
    <3>1. \A k \in Lines : m.line[k] = IF k = l THEN s ELSE me.line[k]
      BY <1>7, <2>1
    <3>2. rows \subseteq known /\ (context \notin PageContexts => rows = known)
      BY <1>7, <2>2 DEF LineState
    <3>3. \/ r = rows \cup {l} /\ now = known \cup {l}
          \/ r = rows /\ now = known
      BY SMTT(20), <1>7, <3>1
    <3>4. r \subseteq now /\ (context \notin PageContexts => r = now)
      BY <3>2, <3>3
    <3> QED
      BY <2>2, <3>4 DEF LineState
  <2>4. \A i \in JobId \ {j} : checkpoint'[i] = checkpoint[i]
    BY <1>7
  <2> HIDE DEF right, me
  <2> QED
    BY Zenon, <1>4, <1>7, <2>3, <2>4
<1>8. ASSUME NEW l \in Lines, NEW s
      PROVE  LET m == MarkLine(u, l, s) IN
             /\ m.line = [me.line EXCEPT ![l] = s] /\ m.pc = me.pc /\ DOMAIN m = DOMAIN me
             /\ m.job = j /\ m.attempt = me.attempt /\ m.input = me.input /\ m.token = me.token
  BY <1>1 DEF MarkLine, WorkerType
<1>9. ASSUME NEW l \in Lines, StartLine(u, l) PROVE LineInv'
  <2> DEFINE m == MarkLine(u, l, "busy")
  <2>1. /\ m.line = [me.line EXCEPT ![l] = "busy"] /\ m.pc = me.pc
        /\ m.job = j /\ m.attempt = me.attempt /\ m.input = me.input /\ m.token = me.token
    BY <1>8
  <2>2. Step(u, m) /\ FenceHolds(u) /\ me.pc = "lines" /\ me.line[l] = "todo" /\ UNCHANGED checkpoint
    BY <1>9 DEF StartLine, UpdateProgress
  <2> HIDE DEF m, me
  <2> QED
    BY Zenon, <1>7, <2>1, <2>2
<1>10. ASSUME NEW l \in Lines, SaveLine(u, l) PROVE LineInv'
  <2> DEFINE m == MarkLine(u, l, "saved")
  <2>1. /\ m.line = [me.line EXCEPT ![l] = "saved"] /\ m.pc = me.pc
        /\ m.job = j /\ m.attempt = me.attempt /\ m.input = me.input /\ m.token = me.token
    BY <1>8
  <2>2. Step(u, m) /\ FenceHolds(u) /\ me.pc = "lines" /\ me.line[l] = "busy"
    BY <1>10 DEF SaveLine
  <2>3. checkpoint'[j].lines = rows \cup {l} /\ \A i \in JobId \ {j} : checkpoint'[i] = checkpoint[i]
    BY <1>1, <1>2, <1>10, <2>2 DEF SaveLine
  <2> HIDE DEF m, me
  <2> QED
    BY Zenon, <1>7, <2>1, <2>2, <2>3
<1>11. ASSUME NEW l \in Lines, ReportLine(u, l) PROVE LineInv'
  <2> DEFINE m == MarkLine(u, l, "done")
  <2>1. /\ m.line = [me.line EXCEPT ![l] = "done"] /\ m.pc = me.pc
        /\ m.job = j /\ m.attempt = me.attempt /\ m.input = me.input /\ m.token = me.token
    BY <1>8
  <2>2. Step(u, m) /\ FenceHolds(u) /\ me.pc = "lines" /\ me.line[l] = "saved" /\ UNCHANGED checkpoint
    BY <1>11 DEF ReportLine, UpdateProgress
  <2> HIDE DEF m, me
  <2> QED
    BY Zenon, <1>7, <2>1, <2>2
<1>12. ASSUME NEW l \in Lines, FailLine(u, l, b) PROVE LineInv'
  <2> DEFINE x == MarkLine(u, l, "failed")
             m == [x EXCEPT !.retry = @ \/ b]
  <2>1. /\ x.line = [me.line EXCEPT ![l] = "failed"] /\ x.pc = me.pc /\ DOMAIN x = DOMAIN me
        /\ x.job = j /\ x.attempt = me.attempt /\ x.input = me.input /\ x.token = me.token
    BY <1>8
  <2>2. Step(u, m) /\ FenceHolds(u) /\ me.pc = "lines" /\ me.line[l] = "busy" /\ UNCHANGED checkpoint
    BY <1>12 DEF FailLine, UpdateProgress
  <2> HIDE DEF x
  <2>3. m.line = x.line /\ m.pc = x.pc /\ m.job = x.job /\ m.attempt = x.attempt /\ m.input = x.input /\ m.token = x.token
    BY <1>1, <2>1 DEF WorkerType
  <2> HIDE DEF m, me
  <2> QED
    BY Zenon, <1>7, <2>1, <2>2, <2>3
<1>13. CASE FinishLines(u)
  <2> DEFINE m == [me EXCEPT !.pc = "commit"]
  <2>1. /\ m.job = j /\ m.attempt = me.attempt /\ m.input = me.input /\ m.token = me.token
        /\ m.pc = "commit" /\ m.line = me.line
    BY <1>1 DEF WorkerType
  <2>2. Step(u, m) \/ \E error : Step(u, Failing(u, error))
    BY <1>13 DEF FinishLines
  <2>3. UNCHANGED checkpoint /\ me.pc = "lines" /\ \A l \in Lines : me.line[l] \in {"done", "failed"}
    BY <1>13 DEF FinishLines
  <2>4. CASE Step(u, m) /\ FenceHolds(u)
    <3>1. right(me, rows)
      BY SMTT(20), <1>2, <2>4
    <3>2. right(m, rows)
      <4> HIDE DEF m
      <4> QED
        BY SMTT(20), <2>1, <2>3, <3>1 DEF LineState
    <3> HIDE DEF m, right, me
    <3> QED
      BY <1>4, <2>1, <2>3, <2>4, <3>2
  <2>5. CASE Step(u, m) /\ ~FenceHolds(u)
    <3>1. worker'[u] = m
      BY <1>3, <2>5
    <3>2. ~FenceHolds(u)'
      <4> HIDE DEF m
      <4> QED
        BY <2>1, <2>5, <3>1, FenceKept
    <3> SUFFICES ASSUME NEW w \in Workers, FenceHolds(w)'
                 PROVE  LineState(worker'[w], job'[worker'[w].job].context, checkpoint'[worker'[w].job].lines)
      BY DEF LineInv
    <3>3. w # u
      BY <3>2
    <3>4. worker'[w] = worker[w]
      BY <1>3, <2>5, <3>3
    <3> QED
      BY <2>3, <3>4, Undisturbed
  <2>6. ASSUME NEW error, Step(u, Failing(u, error)) PROVE LineInv'
    <3>1. Failing(u, error).pc = "failing"
      BY <1>1 DEF Failing, WorkerType
    <3>2. \A w \in Workers : worker'[w] = worker[w] \/ worker'[w].pc \in {"idle", "claimed", "loaded", "failing"}
      BY <1>3, <2>6, <3>1
    <3> QED
      BY <2>3, <3>2, DroppedLines
  <2> QED
    BY <2>2, <2>4, <2>5, <2>6
<1> QED
  BY SMTT(20), <1>5, <1>6, <1>9, <1>10, <1>11, <1>12, <1>13

\* Every step keeps the invariant.
LEMMA LineStep ==
  ASSUME TypeOK, TypeOK', Claims, LineInv, Next
  PROVE  LineInv'
<1> DEFINE quiet == \A w \in Workers : worker'[w] = worker[w] \/ worker'[w].pc \in {"idle", "claimed", "loaded", "failing"}
           ended == \A j \in JobId : \/ checkpoint'[j] = checkpoint[j]
                                   \/ j \notin DOMAIN job' \/ job'[j].status # "running"
<1> USE DEF store
<1>1. RowsGoOn /\ OneOwnerPerJob
  BY RowsStep, DistinctOwners
<1>2. quiet /\ ended => LineInv'
  BY <1>1, DroppedLines
<1>3. ASSUME NEW w \in Workers, NEW m, Step(w, m), m.pc \in {"idle", "claimed", "loaded", "failing"} PROVE quiet
  BY <1>3 DEF Step, TypeOK
<1>4. UNCHANGED worker => quiet
  OBVIOUS
<1>5. UNCHANGED checkpoint => ended
  OBVIOUS
<1>6. ASSUME NEW S, DropCheckpoints(S), \A j \in S : j \notin DOMAIN job' \/ job'[j].status # "running" PROVE ended
  BY <1>6 DEF DropCheckpoints, TypeOK
<1>7. \A j \in Jobs : job[j] \in RowType
  BY IdTypes
<1>8. ASSUME NEW j \in Jobs, NEW s PROVE Released(job[j], s).status = s /\ Closed(job[j], s).status = s
  BY <1>7 DEF Released, Closed, RowType
<1>9. IdleWorker.pc = "idle" /\ \A w \in Workers : \A error : Failing(w, error).pc = "failing"
  BY DEF IdleWorker, Failing, TypeOK, WorkerType
<1> HIDE DEF quiet, ended
<1>10. ASSUME NEW i, NEW c, NEW n, NEW gone, Admit(i, c, n, gone) PROVE ended
  <2>1. DropCheckpoints(gone \cup ActiveOn(i))
    BY <1>10 DEF Admit
  <2>2. ASSUME NEW j \in gone \cup ActiveOn(i), j \in DOMAIN job' PROVE job'[j].status # "running"
    <3>1. CASE j = lastJob + 1
      BY <1>10, <2>2, <3>1 DEF Admit, NewRow
    <3>2. CASE j # lastJob + 1
      <4>1. j \in Jobs \ gone /\ job'[j] = Closed(job[j], "superseded")
        BY <1>10, <2>2, <3>2 DEF Admit
      <4> QED
        BY <1>8, <4>1
    <3> QED
      BY <3>1, <3>2
  <2> QED
    BY <1>6, <2>1, <2>2
<1>11. ASSUME NEW i \in Images, NEW c \in Contexts, CreateJob(i, c) PROVE LineInv'
  <2>1. ASSUME NEW gone, Retain(gone), UNCHANGED worker PROVE quiet /\ ended
    <3>1. DropCheckpoints(gone) /\ \A j \in gone : j \notin DOMAIN job'
      BY <2>1 DEF Retain
    <3> QED
      BY <1>4, <1>6, <2>1, <3>1
  <2> QED
    BY <1>2, <1>4, <1>10, <1>11, <2>1 DEF CreateJob
<1>12. ASSUME NEW x \in Editors, NEW i \in Images, NEW c \in Contexts, Reprocess(x, i, c) PROVE LineInv'
  BY <1>2, <1>4, <1>10, <1>12 DEF Reprocess
<1>13. ASSUME NEW j \in JobId, Cancel(j) PROVE LineInv'
  <2>1. UNCHANGED worker /\ DropCheckpoints({j}) /\ j \in Jobs /\ job'[j] = Closed(job[j], "canceled")
    BY <1>13 DEF Cancel, ActiveJobs, Jobs
  <2> QED
    BY <1>2, <1>4, <1>6, <1>8, <2>1
<1>14. ASSUME NEW w \in Workers, NEW dead, NEW taken, Claim(w, dead, taken), dead \cap taken = {}, dead \subseteq Jobs
       PROVE  LineInv'
  <2>1. ended
    <3>1. \A j \in dead : job'[j].status = "failed"
      BY Zenon, <1>8, <1>14 DEF Claim
    <3> QED
      BY Zenon, <1>6, <1>14, <3>1 DEF Claim
  <2>2. quiet
    <3>1. CASE taken = {}
      BY <1>4, <1>14, <3>1 DEF Claim, TypeOK, quiet
    <3>2. CASE taken # {}
      <4>1. PICK j, n : worker' = [worker EXCEPT ![w] = ClaimedWorker(j, n)]
        BY Zenon, <1>14, <3>2 DEF Claim
      <4>2. ClaimedWorker(j, n).pc = "claimed"
        BY DEF ClaimedWorker, IdleWorker
      <4> QED
        BY Zenon, <1>3, <4>1, <4>2 DEF Step
    <3> QED
      BY <3>1, <3>2
  <2> QED
    BY <1>2, <2>1, <2>2
<1>15. ASSUME NEW w \in Workers, NEW j \in JobId, ClaimByID(w, j) PROVE LineInv'
  BY <1>14, <1>15 DEF ClaimByID, Exhausted
<1>16. ASSUME NEW w \in Workers, ClaimNext(w) PROVE LineInv'
  <2>1. Exhausted \subseteq Jobs /\ Claimable \subseteq Jobs /\ \A j \in Jobs : j \in Nat
    BY IdTypes DEF Exhausted, Claimable
  <2>2. CASE Claim(w, Exhausted, {})
    BY <1>14, <2>1, <2>2
  <2>3. ASSUME NEW j \in Claimable, Claim(w, {k \in Exhausted : k < j}, {j}) PROVE LineInv'
    <3>1. {k \in Exhausted : k < j} \cap {j} = {} /\ {k \in Exhausted : k < j} \subseteq Jobs
      BY <2>1
    <3> QED
      BY <1>14, <2>3, <3>1
  <2> QED
    BY Zenon, <1>16, <2>2, <2>3 DEF ClaimNext
<1>17. ASSUME NEW w \in Workers, LoadPage(w) PROVE LineInv'
  <2> DEFINE m == [worker[w] EXCEPT !.pc = "loaded", !.base = Revision(job[worker[w].job].image)]
  <2>1. m.pc = "loaded"
    BY DEF TypeOK, WorkerType
  <2>2. (Step(w, m) \/ Step(w, Failing(w, "permanent"))) /\ UNCHANGED checkpoint
    BY <1>17 DEF LoadPage
  <2> HIDE DEF m
  <2> QED
    BY <1>2, <1>3, <1>5, <1>9, <2>1, <2>2
<1>18. ASSUME NEW w \in Workers, CommitPage(w) PROVE LineInv'
  <2>1. CASE Revision(job[worker[w].job].image) = worker[w].input
    <3>1. /\ Step(w, IdleWorker) /\ DropCheckpoints({worker[w].job}) /\ worker[w].job \in Jobs
          /\ job'[worker[w].job] = Closed(job[worker[w].job], "completed")
      BY SMTT(20), <1>18, <2>1 DEF CommitPage, FenceHolds, Jobs
    <3> QED
      BY SMTT(20), <1>2, <1>3, <1>6, <1>8, <1>9, <3>1
  <2>2. CASE Revision(job[worker[w].job].image) # worker[w].input
    <3>1. Step(w, Failing(w, "permanent")) /\ UNCHANGED checkpoint
      BY <1>18, <2>2 DEF CommitPage
    <3> QED
      BY SMTT(20), <1>2, <1>3, <1>5, <1>9, <3>1
  <2> QED
    BY SMTT(20), <2>1, <2>2
<1>19. ASSUME NEW w \in Workers, RecordFailure(w) PROVE LineInv'
  <2> DEFINE j == worker[w].job
             terminal == FailsJob(job[j], worker[w].error)
             status == IF terminal THEN "failed" ELSE "pending"
             row == IF worker[w].error = "retryable" THEN Released(job[j], status) ELSE Closed(job[j], status)
             r == [row EXCEPT !.waiting = ~terminal]
  <2>1. /\ j \in Jobs /\ job'[j] = r /\ Step(w, IdleWorker)
        /\ DropCheckpoints(IF terminal THEN {j} ELSE {})
    BY <1>19 DEF RecordFailure, FenceHolds, Jobs
  <2>2. row.status = status /\ DOMAIN row = DOMAIN job[j] /\ "status" \in DOMAIN job[j]
    BY <1>7, <2>1 DEF Released, Closed, RowType
  <2>3. r.status = status
    <3> HIDE DEF row, terminal, status
    <3> QED
      BY <2>2
  <2>4. job'[j].status # "running"
    BY <2>1, <2>3
  <2>5. \A k \in (IF terminal THEN {j} ELSE {}) : job'[k].status # "running"
    BY <2>4
  <2> HIDE DEF r, terminal
  <2> QED
    BY <1>2, <1>3, <1>6, <1>9, <2>1, <2>5
<1>20. ASSUME NEW w \in Workers, LoseLease(w) \/ Crash(w) \/ \E error \in Errors : Abort(w, error) PROVE LineInv'
  <2>1. UNCHANGED checkpoint /\ \E m : Step(w, m) /\ m.pc \in {"idle", "failing"}
    BY <1>9, <1>20 DEF LoseLease, Crash, Abort
  <2> QED
    BY <1>2, <1>3, <1>5, <2>1
<1>21. CASE UNCHANGED <<worker, checkpoint>>
  BY <1>2, <1>4, <1>5, <1>21
<1>22. ASSUME NEW w \in Workers, NEW b \in BOOLEAN,
              \/ RestoreCheckpoint(w) \/ SegmentPage(w) \/ FinishLines(w)
              \/ \E l \in Lines : StartLine(w, l) \/ SaveLine(w, l) \/ ReportLine(w, l) \/ FailLine(w, l, b)
       PROVE  LineInv'
  BY <1>1, <1>22, WorkerLines
<1>23. ASSUME NEW w \in Workers, WorkerStep(w) PROVE LineInv'
  BY Zenon, <1>17, <1>18, <1>19, <1>20, <1>22, <1>23 DEF WorkerStep
<1>24. \/ UNCHANGED <<worker, checkpoint>>
       \/ \E i \in Images, c \in Contexts : CreateJob(i, c)
       \/ \E x \in Editors, i \in Images, c \in Contexts : Reprocess(x, i, c)
       \/ \E j \in JobId : Cancel(j)
       \/ \E w \in Workers : ClaimNext(w) \/ WorkerStep(w) \/ Crash(w)
       \/ \E w \in Workers, j \in JobId : ClaimByID(w, j)
       \/ \E w \in Workers, l \in Lines, b \in BOOLEAN : FailLine(w, l, b)
       \/ \E w \in Workers, error \in Errors : Abort(w, error)
  BY Zenon DEF Next, CreatePage, OpenPage, SavePage, Heartbeat, LeaseElapses, RetryElapses
<1> QED
  BY <1>11, <1>12, <1>13, <1>15, <1>16, <1>20, <1>21, <1>22, <1>23, <1>24

\* A worker that resumes after a crash or a lost lease recognises no line again
\* whose result is durable, and what it commits accounts for every line with the
\* results the job's rows hold.
THEOREM LinesAccounted == Spec => []LinesHold
<1>1. Init => LineInv
  BY DEF Init, LineInv, IdleWorker, FenceHolds, Jobs
<1>2. TypeOK /\ TypeOK' /\ Claims /\ LineInv /\ [Next]_vars => LineInv'
  <2>1. ASSUME LineInv, UNCHANGED vars PROVE LineInv'
    BY <2>1 DEF vars, LineInv, FenceHolds, Jobs
  <2> QED
    BY <2>1, LineStep
<1>3. TypeOK /\ LineInv => LinesHold
  BY LineInvHolds
<1> QED
  BY <1>1, <1>2, <1>3, ClaimsKept, TypesHold, PTL DEF Spec

================================================================================
