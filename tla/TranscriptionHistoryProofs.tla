---------------------- MODULE TranscriptionHistoryProofs ----------------------
(***************************************************************************)
(* What the queue does to a job and to a page, for any number of images,   *)
(* workers, editors and jobs: history is immutable, a commit is atomic,    *)
(* the queue implements TranscriptionService, events tell how a job ended, *)
(* and the tables stay within their limits.  All of it rests on one        *)
(* classification of the steps.                                            *)
(***************************************************************************)
EXTENDS TranscriptionJobsProofs, FiniteSetTheorems

--------------------------------------------------------------------------------
(* The kinds of steps *)

\* A retry delay belongs to a pending row.
WaitingRows == \A j \in Jobs : job[j].waiting => job[j].status = "pending"

Keeps(j, r) ==
  /\ r.image = job[j].image /\ r.input = job[j].input /\ r.attempts = job[j].attempts
  /\ r.waiting => r.status = "pending"

\* No row changes; a person may have saved a page.
PageSaved ==
  /\ UNCHANGED <<job, attempt, lastJob, event>>
  /\ UNCHANGED written \/ \E i \in Images, n \in Nat : Write(i, n, 0)

\* A live row changes but not its status: progress, a heartbeat, the clock.
RowTouched(j, r) ==
  /\ job' = [job EXCEPT ![j] = r] /\ Keeps(j, r) /\ r.status = job[j].status
  /\ UNCHANGED <<attempt, written, lastJob, event>>

\* A live row is canceled, fails or goes back to the queue; an open attempt ends,
\* and consumers may be told of the failure.
RowEnded(j, r, o) ==
  /\ job' = [job EXCEPT ![j] = r] /\ Keeps(j, r) /\ r.status \in {"pending", "failed", "canceled"}
  /\ job[j].status = "running" => AttemptOpen(j)
  /\ attempt' = IF job[j].status = "running" THEN [attempt EXCEPT ![j] = FinishAttempt(j, o, 0)] ELSE attempt
  /\ UNCHANGED event \/ (r.status = "failed" /\ event' = [event EXCEPT ![j] = Append(@, "failed")])
  /\ UNCHANGED <<written, lastJob>>

\* A worker's page and the end of its job, at the revision the job was made for.
PageCommitted(j, r, n) ==
  LET i == job[j].image IN
  /\ job' = [job EXCEPT ![j] = r] /\ Keeps(j, r) /\ r.status = "completed"
  /\ job[j].status = "running" /\ AttemptOpen(j)
  /\ Revision(i) = job[j].input /\ Write(i, n, j)
  /\ attempt' = [attempt EXCEPT ![j] = FinishAttempt(j, "completed", Revision(i) + 1)]
  /\ event' = [event EXCEPT ![j] = Append(@, "completed")]
  /\ UNCHANGED lastJob

\* A job is admitted for the page as it is, or as the same transaction saves it.
Admitted(i, c, gone) ==
  /\ Revision(i) > 0 /\ gone \in Expendable
  /\ UNCHANGED event \/ event' = [event EXCEPT ![lastJob + 1] = Append(@, "reprocessed")]
  /\ \/ Admit(i, c, Revision(i), gone) /\ UNCHANGED written
     \/ Admit(i, c, Revision(i) + 1, gone) /\ \E n \in Nat : Write(i, n, 0)

Forgotten(gone) == Retain(gone) /\ UNCHANGED <<written, lastJob, event>>

\* Exhausted jobs fail and at most one claimable job is taken.
Claimed(w, dead, taken) ==
  /\ Claim(w, dead, taken)
  /\ dead \subseteq Exhausted /\ taken \subseteq Claimable

StepKind ==
  \/ PageSaved
  \/ \E j \in ActiveJobs, r \in RowType : RowTouched(j, r)
  \/ \E j \in ActiveJobs, r \in RowType, o \in Outcomes \ {"running"} : RowEnded(j, r, o)
  \/ \E j \in ActiveJobs, r \in RowType, n \in Nat : PageCommitted(j, r, n)
  \/ \E i \in Images, c \in Contexts, gone \in SUBSET TerminalJobs : Admitted(i, c, gone)
  \/ \E gone \in SUBSET TerminalJobs : Forgotten(gone)
  \/ \E w \in Workers, dead, taken \in SUBSET Jobs : Claimed(w, dead, taken)

\* Ending a row keeps its image, its input revision and its attempt count.
LEMMA ClosedKeeps ==
  ASSUME TypeOK, NEW j \in Jobs, NEW s \in {"pending"} \cup TerminalStatus
  PROVE  /\ Released(job[j], s) \in RowType /\ Keeps(j, Released(job[j], s)) /\ Released(job[j], s).status = s
         /\ Closed(job[j], s) \in RowType /\ Keeps(j, Closed(job[j], s)) /\ Closed(job[j], s).status = s
<1> DEFINE a == Released(job[j], s)
           b == Closed(job[j], s)
<1>1. job[j] \in RowType
  BY IdTypes
<1>2. a \in RowType /\ b \in RowType
  BY <1>1, ReleasedType DEF ActiveStatus
<1>3. Keeps(j, a) /\ a.status = s
  BY <1>1 DEF Released, Keeps, RowType
<1>4. b = [a EXCEPT !.lastResult = FALSE]
  BY DEF Closed
<1> HIDE DEF a, b
<1>5. Keeps(j, b) /\ b.status = s
  BY <1>2, <1>3, <1>4 DEF Keeps, RowType
<1> QED
  BY <1>2, <1>3, <1>5 DEF a, b

\* Every step of the queue is of one of the kinds.
LEMMA StepKinds ==
  ASSUME TypeOK, WaitingRows, Next
  PROVE  StepKind
<1> USE DEF store
<1>1. \A j \in Jobs : job[j] \in RowType /\ (job[j].waiting => job[j].status = "pending")
  BY IdTypes DEF WaitingRows
<1>2. \A i \in Images : Revision(i) \in Nat
  BY RevisionType
<1>3. ASSUME NEW j \in Jobs, NEW r \in RowType, job[j].status \in ActiveStatus, RowTouched(j, r) PROVE StepKind
  BY <1>3 DEF StepKind, ActiveJobs
<1>4. ASSUME NEW w \in Workers, NEW b \in BOOLEAN, UpdateProgress(w, b), UNCHANGED <<attempt, written, lastJob, event>>
      PROVE  StepKind
  <2> DEFINE j == worker[w].job
             r == [job[j] EXCEPT !.lastResult = b]
  <2>1. j \in Jobs /\ job[j].status = "running" /\ job' = [job EXCEPT ![j] = r]
    BY <1>4 DEF UpdateProgress, FenceHolds
  <2>2. r \in RowType /\ Keeps(j, r) /\ r.status = job[j].status
    BY <1>1, <2>1 DEF RowType, Keeps
  <2> HIDE DEF r
  <2> QED
    BY Zenon, <1>3, <1>4, <2>1, <2>2 DEF RowTouched, ActiveStatus
<1>5. ASSUME NEW w \in Workers, NEW l, NEW b \in BOOLEAN, StartLine(w, l) \/ ReportLine(w, l) \/ FailLine(w, l, b)
      PROVE  StepKind
  BY Zenon, <1>4, <1>5 DEF StartLine, ReportLine, FailLine
<1>6. ASSUME NEW w \in Workers, Heartbeat(w) PROVE StepKind
  <2> DEFINE j == worker[w].job
             r == [job[j] EXCEPT !.lease = FreshLease]
  <2>1. j \in Jobs /\ job[j].status = "running" /\ job' = [job EXCEPT ![j] = r]
    BY <1>6 DEF Heartbeat, FenceHolds
  <2>2. r \in RowType /\ Keeps(j, r) /\ r.status = job[j].status
    BY <1>1, <2>1, ConstantsAssumption DEF RowType, Keeps, FreshLease, ConstantsAssumption
  <2> HIDE DEF r
  <2> QED
    BY Zenon, <1>3, <1>6, <2>1, <2>2 DEF RowTouched, ActiveStatus, Heartbeat
<1>7. ASSUME NEW j \in JobId, LeaseElapses(j) PROVE StepKind
  <2> DEFINE r == [job[j] EXCEPT !.lease = @ - 1]
  <2>1. j \in Jobs /\ job[j].status = "running" /\ job' = [job EXCEPT ![j] = r]
    BY <1>7 DEF LeaseElapses
  <2>2. r \in RowType /\ Keeps(j, r) /\ r.status = job[j].status
    BY <1>1, <1>7, <2>1, ConstantsAssumption DEF LeaseElapses, RowType, Keeps, FreshLease, ConstantsAssumption
  <2> HIDE DEF r
  <2> QED
    BY Zenon, <1>3, <1>7, <2>1, <2>2 DEF RowTouched, ActiveStatus, LeaseElapses
<1>8. ASSUME NEW j \in JobId, RetryElapses(j) PROVE StepKind
  <2> DEFINE r == [job[j] EXCEPT !.waiting = FALSE]
  <2>1. j \in Jobs /\ job[j].status = "pending" /\ job' = [job EXCEPT ![j] = r]
    BY <1>1, <1>8 DEF RetryElapses
  <2>2. r \in RowType /\ Keeps(j, r) /\ r.status = job[j].status
    BY Zenon, <1>1, <2>1 DEF RowType, Keeps
  <2> HIDE DEF r
  <2> QED
    BY Zenon, <1>3, <1>8, <2>1, <2>2 DEF RowTouched, ActiveStatus, RetryElapses
<1>9. ASSUME NEW j \in JobId, Cancel(j) PROVE StepKind
  <2> DEFINE r == Closed(job[j], "canceled")
  <2>1. j \in ActiveJobs /\ j \in Jobs /\ job' = [job EXCEPT ![j] = r]
    BY <1>9 DEF Cancel, ActiveJobs
  <2>2. r \in RowType /\ Keeps(j, r) /\ r.status = "canceled" /\ "canceled" \in Outcomes \ {"running"}
    BY <2>1, ClosedKeeps DEF TerminalStatus, Outcomes
  <2> HIDE DEF r
  <2>3. RowEnded(j, r, "canceled")
    BY Zenon, <1>9, <2>1, <2>2 DEF RowEnded, Cancel
  <2> QED
    BY <2>1, <2>2, <2>3 DEF StepKind
<1>10. ASSUME NEW w \in Workers, CommitPage(w) PROVE StepKind
  <2> DEFINE j == worker[w].job
             r == Closed(job[j], "completed")
             i == job[j].image
  <2>1. j \in Jobs /\ j \in ActiveJobs /\ job[j].status = "running" /\ job[j].input = worker[w].input
    BY <1>10 DEF CommitPage, FenceHolds, ActiveJobs, ActiveStatus
  <2>2. r \in RowType /\ Keeps(j, r) /\ r.status = "completed" /\ worker[w].base \in Nat
    BY Zenon, <2>1, ClosedKeeps DEF TerminalStatus, TypeOK, WorkerType
  <2> HIDE DEF r
  <2>3. CASE Revision(i) = worker[w].input
    <3>1. PageCommitted(j, r, worker[w].base)
      BY <1>10, <2>1, <2>2, <2>3 DEF PageCommitted, CommitPage, r
    <3> QED
      BY <2>1, <2>2, <3>1 DEF StepKind
  <2>4. CASE Revision(i) # worker[w].input
    BY SMTT(20), <1>10, <2>4 DEF CommitPage, StepKind, PageSaved
  <2> QED
    BY <2>3, <2>4
<1>11. ASSUME NEW w \in Workers, RecordFailure(w) PROVE StepKind
  <2> DEFINE j == worker[w].job
             terminal == FailsJob(job[j], worker[w].error)
             status == IF terminal THEN "failed" ELSE "pending"
             ended == IF worker[w].error = "retryable" THEN Released(job[j], status) ELSE Closed(job[j], status)
             r == [ended EXCEPT !.waiting = ~terminal]
             o == IF terminal THEN "failed" ELSE "retryable_failed"
  <2>1. /\ j \in Jobs /\ j \in ActiveJobs /\ job[j].status = "running" /\ AttemptOpen(j)
        /\ job' = [job EXCEPT ![j] = r] /\ attempt' = [attempt EXCEPT ![j] = FinishAttempt(j, o, 0)]
        /\ UNCHANGED <<written, lastJob>>
        /\ UNCHANGED event \/ (terminal /\ event' = [event EXCEPT ![j] = Append(@, "failed")])
    BY <1>11 DEF RecordFailure, FenceHolds, ActiveJobs, ActiveStatus, FailureEvent
  <2>2. terminal \in BOOLEAN /\ status \in {"pending", "failed"} /\ o \in Outcomes \ {"running"}
    BY DEF FailsJob, Outcomes
  <2>3. (status = "pending" <=> ~terminal) /\ (terminal => status = "failed")
    OBVIOUS
  <2> HIDE DEF terminal, status, o
  <2>4. ended \in RowType /\ Keeps(j, ended) /\ ended.status = status
    BY <2>1, <2>2, ClosedKeeps DEF TerminalStatus
  <2> HIDE DEF ended
  <2>5. r \in RowType /\ Keeps(j, r) /\ r.status = status
    BY Zenon, <2>2, <2>3, <2>4 DEF Keeps, RowType
  <2> HIDE DEF r
  <2>6. RowEnded(j, r, o)
    BY <2>1, <2>2, <2>3, <2>5 DEF RowEnded
  <2> QED
    BY <2>1, <2>2, <2>5, <2>6 DEF StepKind
<1>12. ASSUME NEW i \in Images, NEW c \in Contexts, CreateJob(i, c) PROVE StepKind
  <2>1. PICK gone \in Expendable : IF \E j \in ActiveOn(i) : Matches(j, i, c)
                                  THEN Retain(gone) /\ UNCHANGED lastJob
                                  ELSE Admit(i, c, Revision(i), gone)
    BY <1>12 DEF CreateJob
  <2>2. gone \in SUBSET TerminalJobs
    BY DEF Expendable
  <2>3. Forgotten(gone) \/ Admitted(i, c, gone)
    BY <1>12, <2>1 DEF CreateJob, Forgotten, Admitted
  <2> QED
    BY <2>2, <2>3 DEF StepKind
<1>13. ASSUME NEW x \in Editors, NEW i \in Images, NEW c \in Contexts, Reprocess(x, i, c) PROVE StepKind
  <2>1. PICK gone \in Expendable : Admit(i, c, Revision(i) + 1, gone)
    BY <1>13 DEF Reprocess
  <2>2. gone \in SUBSET TerminalJobs /\ editor[x][i] \in Nat
    BY DEF Expendable, TypeOK
  <2>3. Admitted(i, c, gone)
    BY <1>13, <2>1, <2>2 DEF Reprocess, Admitted
  <2> QED
    BY <2>2, <2>3 DEF StepKind
<1>14. ASSUME NEW w \in Workers, ClaimNext(w) \/ \E j \in JobId : ClaimByID(w, j) PROVE StepKind
  <2>1. Exhausted \subseteq Jobs /\ Claimable \subseteq Jobs
    BY DEF Exhausted, Claimable
  <2>2. PICK dead \in SUBSET Exhausted, taken \in SUBSET Claimable : Claim(w, dead, taken)
    <3>1. CASE Claim(w, Exhausted, {})
      BY <3>1
    <3>2. ASSUME NEW j \in Claimable, Claim(w, {k \in Exhausted : k < j}, {j})
          PROVE  \E dead \in SUBSET Exhausted, taken \in SUBSET Claimable : Claim(w, dead, taken)
      BY <3>2
    <3>3. ASSUME NEW j \in JobId, ClaimByID(w, j)
          PROVE  \E dead \in SUBSET Exhausted, taken \in SUBSET Claimable : Claim(w, dead, taken)
      BY <3>3 DEF ClaimByID
    <3> QED
      BY Zenon, <1>14, <3>1, <3>2, <3>3 DEF ClaimNext
  <2>3. dead \in SUBSET Jobs /\ taken \in SUBSET Jobs /\ Claimed(w, dead, taken)
    BY <2>1, <2>2 DEF Claimed
  <2> QED
    BY <2>3 DEF StepKind
<1>15. ASSUME NEW i \in Images, CreatePage(i) PROVE StepKind
  BY <1>15 DEF CreatePage, StepKind, PageSaved
<1>16. ASSUME NEW x \in Editors, NEW i \in Images, SavePage(x, i) PROVE StepKind
  BY <1>2, <1>16 DEF SavePage, StepKind, PageSaved
<1>17. ASSUME UNCHANGED <<job, attempt, lastJob, written, event>> PROVE StepKind
  BY <1>17 DEF StepKind, PageSaved
<1>18. \/ UNCHANGED <<job, attempt, lastJob, written, event>>
       \/ \E i \in Images : CreatePage(i)
       \/ \E x \in Editors, i \in Images : SavePage(x, i)
       \/ \E i \in Images, c \in Contexts : CreateJob(i, c)
       \/ \E x \in Editors, i \in Images, c \in Contexts : Reprocess(x, i, c)
       \/ \E j \in JobId : Cancel(j) \/ LeaseElapses(j) \/ RetryElapses(j)
       \/ \E w \in Workers : \/ ClaimNext(w) \/ (\E j \in JobId : ClaimByID(w, j))
                             \/ Heartbeat(w) \/ CommitPage(w) \/ RecordFailure(w)
       \/ \E w \in Workers, l \in Lines, b \in BOOLEAN : StartLine(w, l) \/ ReportLine(w, l) \/ FailLine(w, l, b)
  BY Zenon DEF Next, WorkerStep, OpenPage, LoadPage, RestoreCheckpoint, SegmentPage, SaveLine,
         FinishLines, Abort, LoseLease, Crash
<1> QED
  BY <1>5, <1>6, <1>7, <1>8, <1>9, <1>10, <1>11, <1>12, <1>13, <1>14, <1>15, <1>16, <1>17, <1>18

\* The job a step of one of these kinds is about is live, and no row appears or goes.
LEMMA RowUpdate ==
  ASSUME TypeOK, NEW j \in ActiveJobs, NEW r \in RowType, job' = [job EXCEPT ![j] = r]
  PROVE  /\ j \in Jobs /\ j \in JobId /\ j \notin TerminalJobs /\ DOMAIN job' = Jobs
         /\ \A k \in Jobs : job'[k] = IF k = j THEN r ELSE job[k]
<1>1. j \in Jobs /\ j \in JobId /\ job \in [Jobs -> RowType]
  BY Zenon, IdTypes DEF ActiveJobs, TypeOK
<1>2. j \notin TerminalJobs
  BY DEF ActiveJobs, TerminalJobs, ActiveStatus, TerminalStatus
<1> QED
  BY <1>1, <1>2

\* What admission leaves of the rows that were there.
LEMMA AdmittedRows ==
  ASSUME TypeOK, NEW i \in Images, NEW c \in Contexts, NEW n,
         NEW gone \in SUBSET TerminalJobs, Admit(i, c, n, gone)
  PROVE  /\ lastJob + 1 \notin Jobs /\ lastJob' = lastJob + 1
         /\ DOMAIN job' = (Jobs \ gone) \cup {lastJob + 1}
         /\ job'[lastJob + 1] = NewRow(i, c, n)
         /\ \A k \in Jobs \ gone : job'[k] = IF k \in ActiveOn(i) THEN Closed(job[k], "superseded") ELSE job[k]
<1>1. \A k \in Jobs : k \in Nat /\ k <= lastJob
  BY IdTypes
<1>2. lastJob \in Nat
  BY IdTypes
<1>3. lastJob + 1 \notin Jobs
  BY <1>1, <1>2
<1> QED
  BY <1>3 DEF Admit

--------------------------------------------------------------------------------
(* The invariant the classification needs *)

\* A row that waits for a retry is pending, whatever the step.
LEMMA WaitingStep ==
  ASSUME TypeOK, WaitingRows, StepKind
  PROVE  WaitingRows'
<1> USE DEF WaitingRows
<1>1. \A j \in Jobs : j \in JobId /\ job[j] \in RowType
  BY IdTypes
<1>2. CASE PageSaved
  BY <1>2 DEF PageSaved, Jobs
<1>3. ASSUME NEW j \in ActiveJobs, NEW r \in RowType, Keeps(j, r), job' = [job EXCEPT ![j] = r]
      PROVE  WaitingRows'
  BY <1>3, RowUpdate DEF Keeps, Jobs
<1>4. ASSUME NEW i \in Images, NEW c \in Contexts, NEW gone \in SUBSET TerminalJobs, Admitted(i, c, gone)
      PROVE  WaitingRows'
  <2>1. PICK n : Admit(i, c, n, gone)
    BY <1>4 DEF Admitted
  <2>2. \A k \in Jobs : ~Closed(job[k], "superseded").waiting
    BY <1>1 DEF Closed, Released, RowType
  <2>3. ~NewRow(i, c, n).waiting
    BY DEF NewRow
  <2>4. /\ DOMAIN job' = (Jobs \ gone) \cup {lastJob + 1} /\ job'[lastJob + 1] = NewRow(i, c, n)
        /\ \A k \in Jobs \ gone : job'[k] = IF k \in ActiveOn(i) THEN Closed(job[k], "superseded") ELSE job[k]
    BY Zenon, <2>1, AdmittedRows
  <2>5. ASSUME NEW k \in DOMAIN job', job'[k].waiting PROVE job'[k].status = "pending"
    BY <2>2, <2>3, <2>4, <2>5
  <2> QED
    BY <2>5 DEF Jobs
<1>5. ASSUME NEW gone \in SUBSET TerminalJobs, Forgotten(gone) PROVE WaitingRows'
  BY <1>5 DEF Forgotten, Retain, Jobs
<1>6. ASSUME NEW w \in Workers, NEW dead \in SUBSET Jobs, NEW taken \in SUBSET Jobs, Claimed(w, dead, taken)
      PROVE  WaitingRows'
  <2>1. \A k \in Jobs : ~Closed(job[k], "failed").waiting
    BY <1>1 DEF Closed, Released, RowType
  <2>2. ASSUME NEW k \in Jobs, job'[k].waiting PROVE job'[k].status = "pending"
    <3>1. CASE k \in dead
      BY Zenon, <1>6, <2>1, <2>2, <3>1 DEF Claimed, Claim
    <3>2. CASE k \in taken \ dead
      BY Zenon, <1>1, <1>6, <2>2, <3>2 DEF Claimed, Claim, RowType
    <3>3. CASE k \notin dead \cup taken
      BY Zenon, <1>6, <2>2, <3>3 DEF Claimed, Claim
    <3> QED
      BY <3>1, <3>2, <3>3
  <2>3. Jobs' = Jobs
    BY Zenon, <1>6 DEF Claimed, Claim, Jobs
  <2> QED
    BY <2>2, <2>3
<1> QED
  BY Zenon, <1>2, <1>3, <1>4, <1>5, <1>6 DEF StepKind, RowTouched, RowEnded, PageCommitted

\* The types and the waiting rows, together.
LEMMA WaitingHolds == Spec => [](TypeOK /\ WaitingRows)
<1>1. Init => WaitingRows
  BY DEF Init, WaitingRows, Jobs
<1>2. TypeOK /\ WaitingRows /\ [Next]_vars => WaitingRows'
  <2>1. ASSUME WaitingRows, UNCHANGED vars PROVE WaitingRows'
    BY <2>1 DEF WaitingRows, vars, Jobs
  <2> QED
    BY <2>1, StepKinds, WaitingStep
<1> QED
  BY <1>1, <1>2, TypesHold, PTL DEF Spec

--------------------------------------------------------------------------------
(* History *)

\* Closing the open attempt leaves every finished one as it was.
LEMMA FinishKeeps ==
  ASSUME TypeOK, NEW j \in Jobs, AttemptOpen(j), NEW o, NEW v
  PROVE  \A n \in DOMAIN attempt[j] :
           /\ n \in DOMAIN FinishAttempt(j, o, v)
           /\ attempt[j][n].outcome # "running" => FinishAttempt(j, o, v)[n] = attempt[j][n]
  BY DEF FinishAttempt, AttemptOpen

\* No kind of step changes an ended job or a finished attempt.
LEMMA HistoryStep ==
  ASSUME TypeOK, StepKind
  PROVE  \A j \in Jobs : KeepsHistory(j)
<1>1. \A j \in Jobs : j \in JobId /\ job[j] \in RowType /\ attempt[j] \in Seq([outcome : Outcomes, result : Nat])
  BY Zenon, IdTypes DEF TypeOK
<1>2. DOMAIN attempt = JobId
  BY DEF TypeOK
<1>3. CASE PageSaved
  BY <1>3 DEF PageSaved, KeepsHistory, Jobs
<1>4. ASSUME NEW j \in ActiveJobs, NEW r \in RowType, RowTouched(j, r) PROVE \A k \in Jobs : KeepsHistory(k)
  BY Zenon, <1>4, RowUpdate DEF RowTouched, KeepsHistory, TerminalJobs
<1>5. ASSUME NEW j \in ActiveJobs, NEW r \in RowType, NEW o, NEW v, job' = [job EXCEPT ![j] = r],
             AttemptOpen(j), attempt' = [attempt EXCEPT ![j] = FinishAttempt(j, o, v)]
      PROVE  \A k \in Jobs : KeepsHistory(k)
  <2>1. /\ j \in Jobs /\ j \in JobId /\ j \notin TerminalJobs /\ DOMAIN job' = Jobs
        /\ \A k \in Jobs : job'[k] = IF k = j THEN r ELSE job[k]
    BY Zenon, <1>5, RowUpdate
  <2>2. \A k \in Jobs : attempt'[k] = IF k = j THEN FinishAttempt(j, o, v) ELSE attempt[k]
    BY <1>1, <1>2, <1>5
  <2>3. KeepsHistory(j)
    BY <1>5, <2>1, <2>2, FinishKeeps DEF KeepsHistory, TerminalJobs
  <2>4. \A k \in Jobs \ {j} : KeepsHistory(k)
    BY <2>1, <2>2 DEF KeepsHistory
  <2> QED
    BY <2>3, <2>4
<1>6. ASSUME NEW j \in ActiveJobs, NEW r \in RowType, NEW o, RowEnded(j, r, o)
      PROVE  \A k \in Jobs : KeepsHistory(k)
  <2>1. CASE job[j].status = "running"
    BY Zenon, <1>5, <1>6, <2>1 DEF RowEnded
  <2>2. CASE job[j].status # "running"
    BY Zenon, <1>6, <2>2, RowUpdate DEF RowEnded, KeepsHistory, TerminalJobs
  <2> QED
    BY <2>1, <2>2
<1>7. ASSUME NEW j \in ActiveJobs, NEW r \in RowType, NEW n, PageCommitted(j, r, n)
      PROVE  \A k \in Jobs : KeepsHistory(k)
  BY Zenon, <1>5, <1>7 DEF PageCommitted
<1>8. ASSUME NEW i \in Images, NEW c \in Contexts, NEW gone \in SUBSET TerminalJobs, Admitted(i, c, gone),
             NEW k \in Jobs
      PROVE  KeepsHistory(k)
  <2>1. PICK n : Admit(i, c, n, gone)
    BY <1>8 DEF Admitted
  <2>2. /\ k # lastJob + 1 /\ DOMAIN job' = (Jobs \ gone) \cup {lastJob + 1}
        /\ k \notin gone => job'[k] = IF k \in ActiveOn(i) THEN Closed(job[k], "superseded") ELSE job[k]
    BY Zenon, <1>8, <2>1, AdmittedRows
  <2>3. attempt'[k] = IF k \in gone THEN <<>>
                      ELSE IF k \in ActiveOn(i) /\ job[k].status = "running" THEN FinishAttempt(k, "superseded", 0)
                      ELSE attempt[k]
    BY <1>1, <1>8, <2>1 DEF Admit
  <2>4. k \in ActiveOn(i) => job[k].status \notin TerminalStatus /\ (job[k].status = "running" => AttemptOpen(k))
    BY <2>1 DEF ActiveOn, ActiveJobs, ActiveStatus, TerminalStatus, Admit
  <2>5. CASE k \in gone
    BY <2>2, <2>3, <2>5 DEF KeepsHistory
  <2>6. CASE k \notin gone /\ k \in ActiveOn(i) /\ job[k].status = "running"
    <3>1. \A m \in DOMAIN attempt[k] :
            /\ m \in DOMAIN FinishAttempt(k, "superseded", 0)
            /\ attempt[k][m].outcome # "running" => FinishAttempt(k, "superseded", 0)[m] = attempt[k][m]
      BY <1>8, <2>4, <2>6, FinishKeeps
    <3> QED
      BY <1>8, <2>2, <2>3, <2>4, <2>6, <3>1 DEF KeepsHistory
  <2>7. CASE k \notin gone /\ ~(k \in ActiveOn(i) /\ job[k].status = "running")
    BY <1>8, <2>2, <2>3, <2>4, <2>7 DEF KeepsHistory
  <2> QED
    BY <2>5, <2>6, <2>7
<1>9. ASSUME NEW gone \in SUBSET TerminalJobs, Forgotten(gone) PROVE \A k \in Jobs : KeepsHistory(k)
  BY <1>1, <1>9 DEF Forgotten, Retain, KeepsHistory
<1>10. ASSUME NEW w \in Workers, NEW dead \in SUBSET Jobs, NEW taken \in SUBSET Jobs, Claimed(w, dead, taken),
              NEW k \in Jobs
       PROVE  KeepsHistory(k)
  <2> DEFINE closed == IF k \in dead \cup taken /\ job[k].status = "running"
                       THEN FinishAttempt(k, "lease_expired", 0) ELSE attempt[k]
  <2>1. /\ DOMAIN job' = Jobs
        /\ k \notin dead \cup taken => job'[k] = job[k]
        /\ attempt'[k] = IF k \in taken THEN Append(closed, [outcome |-> "running", result |-> 0]) ELSE closed
    BY Zenon, <1>1, <1>10 DEF Claimed, Claim
  <2>2. k \in dead \cup taken => job[k].status \notin TerminalStatus
    BY <1>10 DEF Claimed, Exhausted, Claimable, Due, Expired, TerminalStatus
  <2>3. /\ closed \in Seq([outcome : Outcomes, result : Nat])
        /\ \A m \in DOMAIN attempt[k] :
             m \in DOMAIN closed /\ (attempt[k][m].outcome # "running" => closed[m] = attempt[k][m])
    <3>1. CASE k \in dead \cup taken /\ job[k].status = "running"
      <4>1. AttemptOpen(k)
        BY Zenon, <1>10, <3>1 DEF Claimed, Claim
      <4>2. "lease_expired" \in Outcomes /\ 0 \in Nat
        BY DEF Outcomes
      <4>3. closed = FinishAttempt(k, "lease_expired", 0)
        BY <3>1
      <4> HIDE DEF closed
      <4>4. closed \in Seq([outcome : Outcomes, result : Nat])
        BY Zenon, <1>10, <4>1, <4>2, <4>3, FinishType
      <4> QED
        BY <1>10, <4>1, <4>3, <4>4, FinishKeeps
    <3>2. CASE ~(k \in dead \cup taken /\ job[k].status = "running")
      BY Zenon, <1>1, <1>10, <3>2
    <3> QED
      BY <3>1, <3>2
  <2> HIDE DEF closed
  <2>4. \A m \in DOMAIN closed : m \in DOMAIN attempt'[k] /\ attempt'[k][m] = closed[m]
    <3>1. [outcome |-> "running", result |-> 0] \in [outcome : Outcomes, result : Nat]
      BY DEF Outcomes
    <3> QED
      BY <2>1, <2>3, <3>1, AppendProperties
  <2> QED
    BY <2>1, <2>2, <2>3, <2>4 DEF KeepsHistory
<1> QED
  BY <1>3, <1>4, <1>6, <1>7, <1>8, <1>9, <1>10 DEF StepKind

\* The audit trail of every job, for any number of jobs, workers and people: an
\* attempt's outcome is written once, an ended job stays as it ended, and only
\* retention removes them.
THEOREM HistoryKept == Spec => HistoryIsImmutable
<1>1. TypeOK /\ WaitingRows /\ [Next]_vars => [\A j \in Jobs : KeepsHistory(j)]_vars
  BY StepKinds, HistoryStep
<1> QED
  BY <1>1, WaitingHolds, PTL DEF Spec, HistoryIsImmutable

--------------------------------------------------------------------------------
(* Commits *)

\* The revisions of a page that a job wrote.
Mine(i, j) == {n \in DOMAIN written[i] : written[i][n].job = j}

CommitOf(j) ==
  IF job[j].status = "completed"
  THEN /\ Mine(job[j].image, j) = {job[j].input + 1}
       /\ attempt[j][job[j].attempts] = [outcome |-> "completed", result |-> job[j].input + 1]
  ELSE Mine(job[j].image, j) = {}

\* Every revision was written by a person or by a job with an id handed out, so a
\* new job starts with no revision of its own.
WriterIds == \A i \in Images : \A n \in DOMAIN written[i] : written[i][n].job \in 0 .. lastJob

CommitInv == WriterIds /\ \A j \in Jobs : CommitOf(j)

\* A write adds one revision, to its writer.
LEMMA WriteMine ==
  ASSUME TypeOK, NEW i \in Images, NEW n \in Nat, NEW by \in 0 .. MaxJobs, Write(i, n, by)
  PROVE  /\ \A h \in Images : \A k :
              Mine(h, k)' = IF h = i /\ k = by THEN Mine(h, k) \cup {Revision(i) + 1} ELSE Mine(h, k)
         /\ \A L : WriterIds /\ by \in 0 .. lastJob /\ 0 .. lastJob \subseteq L =>
              \A h \in Images : \A m \in DOMAIN written'[h] : written'[h][m].job \in L
<1> DEFINE e == [base |-> n, job |-> by]
           E == [base : Nat, job : 0 .. MaxJobs]
<1>1. written \in [Images -> Seq(E)] /\ e \in E /\ MaxJobs \in Nat /\ lastJob \in Nat
  BY Zenon, IdTypes DEF TypeOK
<1>2. \A h \in Images : written'[h] = IF h = i THEN Append(written[i], e) ELSE written[h]
  BY <1>1 DEF Write
<1>3. Revision(i) = Len(written[i]) /\ Revision(i) \in Nat /\ DOMAIN written[i] = 1 .. Revision(i)
  BY <1>1 DEF Revision
<1>4. DOMAIN Append(written[i], e) = 1 .. Revision(i) + 1
  BY <1>1, <1>3, AppendProperties
<1>5. \A m \in 1 .. Revision(i) : Append(written[i], e)[m] = written[i][m]
  BY <1>1, <1>3, AppendProperties
<1>6. Append(written[i], e)[Revision(i) + 1].job = by
  BY <1>1, <1>3, AppendProperties
<1> HIDE DEF e, E
<1>7. ASSUME NEW k PROVE Mine(i, k)' = IF k = by THEN Mine(i, k) \cup {Revision(i) + 1} ELSE Mine(i, k)
  <2>1. Mine(i, k)' = {m \in 1 .. Revision(i) + 1 : Append(written[i], e)[m].job = k}
    BY Zenon, <1>2, <1>4 DEF Mine
  <2>2. Mine(i, k) = {m \in 1 .. Revision(i) : written[i][m].job = k}
    BY <1>3 DEF Mine
  <2>3. 1 .. Revision(i) + 1 = (1 .. Revision(i)) \cup {Revision(i) + 1}
    BY <1>3
  <2> QED
    BY <1>3, <1>5, <1>6, <2>1, <2>2, <2>3
<1>8. ASSUME NEW h \in Images, h # i, NEW k PROVE Mine(h, k)' = Mine(h, k)
  BY <1>2, <1>8 DEF Mine
<1>9. ASSUME NEW L, WriterIds, by \in 0 .. lastJob, 0 .. lastJob \subseteq L,
             NEW h \in Images, NEW m \in DOMAIN written'[h]
      PROVE  written'[h][m].job \in L
  <2>1. CASE h # i
    BY <1>2, <1>9, <2>1 DEF WriterIds
  <2>2. CASE h = i /\ m = Revision(i) + 1
    BY Zenon, <1>2, <1>6, <1>9, <2>2
  <2>3. CASE h = i /\ m # Revision(i) + 1
    <3>1. m \in 1 .. Revision(i)
      <4>1. m \in 1 .. Revision(i) + 1
        BY Zenon, <1>2, <1>4, <1>9, <2>3
      <4> QED
        BY <1>3, <2>3, <4>1
    <3>2. written'[h][m] = written[i][m]
      BY Zenon, <1>2, <1>5, <2>3, <3>1
    <3>3. written[i][m].job \in 0 .. lastJob
      BY <1>3, <1>9, <3>1 DEF WriterIds
    <3> QED
      BY <1>9, <3>2, <3>3
  <2> QED
    BY <2>1, <2>2, <2>3
<1> QED
  BY <1>7, <1>8, <1>9

\* A step that changes neither a job's outcome nor its revisions.
LEMMA CommitKept ==
  ASSUME NEW k \in Jobs, CommitOf(k), Mine(job[k].image, k)' = Mine(job[k].image, k),
         job'[k].image = job[k].image, job'[k].input = job[k].input,
         job'[k].status = "completed" <=> job[k].status = "completed",
         job[k].status = "completed" => attempt'[k] = attempt[k] /\ job'[k].attempts = job[k].attempts
  PROVE  CommitOf(k)'
  BY DEF CommitOf, Mine

\* Every kind of step keeps the revisions and the outcomes together.
LEMMA CommitStep ==
  ASSUME TypeOK, CommitInv, StepKind
  PROVE  CommitInv'
<1> USE DEF CommitInv
<1>1. \A j \in Jobs : j \in JobId /\ j >= 1 /\ job[j] \in RowType /\ j \in 0 .. MaxJobs /\ j \in 0 .. lastJob
  BY IdTypes DEF JobId
<1>2. /\ lastJob \in Nat /\ MaxJobs \in Nat /\ 0 \in 0 .. MaxJobs /\ 0 \in 0 .. lastJob
      /\ DOMAIN attempt = JobId /\ \A j \in Jobs : job[j].image \in Images
  <2>1. lastJob \in Nat /\ MaxJobs \in Nat
    BY IdTypes
  <2>2. DOMAIN attempt = JobId
    BY DEF TypeOK
  <2>3. \A j \in Jobs : job[j].image \in Images
    BY <1>1 DEF RowType
  <2> QED
    BY <2>1, <2>2, <2>3
<1>3. ASSUME UNCHANGED written \/ \E i \in Images, n \in Nat : Write(i, n, 0),
             lastJob' = lastJob \/ lastJob' = lastJob + 1
      PROVE  WriterIds' /\ \A h \in Images, k \in Nat \ {0} : Mine(h, k)' = Mine(h, k)
  <2>1. 0 .. lastJob \subseteq 0 .. lastJob'
    BY <1>2, <1>3
  <2>2. CASE UNCHANGED written
    BY <2>1, <2>2 DEF WriterIds, Mine
  <2>3. ASSUME NEW i \in Images, NEW n \in Nat, Write(i, n, 0)
        PROVE  WriterIds' /\ \A h \in Images, k \in Nat \ {0} : Mine(h, k)' = Mine(h, k)
    <3>1. \A h \in Images : \A k :
            Mine(h, k)' = IF h = i /\ k = 0 THEN Mine(h, k) \cup {Revision(i) + 1} ELSE Mine(h, k)
      BY <1>2, <2>3, WriteMine
    <3>2. \A h \in Images : \A m \in DOMAIN written'[h] : written'[h][m].job \in 0 .. lastJob'
      BY Zenon, <1>2, <2>1, <2>3, WriteMine
    <3> QED
      BY <3>1, <3>2 DEF WriterIds
  <2> QED
    BY <1>3, <2>2, <2>3
<1>4. CASE PageSaved
  <2>1. Jobs' = Jobs /\ WriterIds' /\ \A h \in Images, k \in Nat \ {0} : Mine(h, k)' = Mine(h, k)
    BY <1>3, <1>4 DEF PageSaved, Jobs
  <2>2. ASSUME NEW k \in Jobs PROVE CommitOf(k)'
    BY <1>1, <1>2, <1>4, <2>1, CommitKept DEF PageSaved, JobId
  <2> QED
    BY <2>1, <2>2
<1>5. ASSUME NEW j \in ActiveJobs, NEW r \in RowType, job' = [job EXCEPT ![j] = r],
             Keeps(j, r), r.status # "completed",
             \A k \in Jobs \ {j} : attempt'[k] = attempt[k], UNCHANGED <<written, lastJob>>
      PROVE  CommitInv'
  <2>1. /\ j \in Jobs /\ DOMAIN job' = Jobs /\ \A k \in Jobs : job'[k] = IF k = j THEN r ELSE job[k]
    BY Zenon, <1>5, RowUpdate
  <2>2. WriterIds' /\ \A h \in Images, k \in Nat \ {0} : Mine(h, k)' = Mine(h, k)
    BY <1>3, <1>5
  <2>3. job[j].status # "completed"
    BY DEF ActiveJobs, ActiveStatus
  <2>4. ASSUME NEW k \in Jobs PROVE CommitOf(k)'
    <3>1. /\ Mine(job[k].image, k)' = Mine(job[k].image, k)
          /\ job'[k].image = job[k].image /\ job'[k].input = job[k].input
          /\ job'[k].status = "completed" <=> job[k].status = "completed"
          /\ job[k].status = "completed" => attempt'[k] = attempt[k] /\ job'[k].attempts = job[k].attempts
      BY <1>1, <1>2, <1>5, <2>1, <2>2, <2>3 DEF Keeps, JobId
    <3> QED
      BY <3>1, CommitKept
  <2> QED
    BY <2>1, <2>2, <2>4 DEF Jobs
<1>6. ASSUME NEW j \in ActiveJobs, NEW r \in RowType, NEW n \in Nat, PageCommitted(j, r, n) PROVE CommitInv'
  <2> DEFINE i == job[j].image
  <2>1. /\ j \in Jobs /\ DOMAIN job' = Jobs /\ \A k \in Jobs : job'[k] = IF k = j THEN r ELSE job[k]
    BY Zenon, <1>6, RowUpdate DEF PageCommitted
  <2>2. /\ i \in Images /\ Write(i, n, j) /\ Revision(i) = job[j].input /\ job[j].input \in Nat
        /\ Keeps(j, r) /\ r.status = "completed" /\ job[j].status = "running" /\ AttemptOpen(j) /\ lastJob' = lastJob
    BY <1>1, <1>2, <1>6, <2>1 DEF PageCommitted, RowType
  <2>3. \A h \in Images : \A k :
          Mine(h, k)' = IF h = i /\ k = j THEN Mine(h, k) \cup {Revision(i) + 1} ELSE Mine(h, k)
    BY <1>1, <2>1, <2>2, WriteMine
  <2>4. WriterIds'
    BY Zenon, <1>1, <2>1, <2>2, WriteMine DEF WriterIds
  <2>5. \A k \in Jobs : attempt'[k] = IF k = j THEN FinishAttempt(j, "completed", job[j].input + 1) ELSE attempt[k]
    BY SMTT(20), <1>1, <1>2, <1>6, <2>2 DEF PageCommitted
  <2>6. FinishAttempt(j, "completed", job[j].input + 1)[job[j].attempts] =
          [outcome |-> "completed", result |-> job[j].input + 1]
    BY <2>2 DEF FinishAttempt, AttemptOpen
  <2>7. CommitOf(j)'
    <3>1. Mine(i, j) = {}
      BY Zenon, <2>1, <2>2 DEF CommitOf
    <3>2. \A h \in Images : h = job[j].image => Mine(h, j)' = {job[j].input + 1}
      BY <2>2, <2>3, <3>1
    <3>3. /\ job'[j].status = "completed" /\ job'[j].image = i /\ job'[j].input = job[j].input
          /\ job'[j].attempts = job[j].attempts
      BY <2>1, <2>2 DEF Keeps
    <3> QED
      BY <2>1, <2>2, <2>5, <2>6, <3>2, <3>3, SMTT(20) DEF CommitOf, Mine
  <2>8. ASSUME NEW k \in Jobs \ {j} PROVE CommitOf(k)'
    <3>1. Mine(job[k].image, k)' = Mine(job[k].image, k) /\ job'[k] = job[k] /\ attempt'[k] = attempt[k]
      BY <1>2, <2>1, <2>3, <2>5
    <3> QED
      BY <3>1, CommitKept
  <2> QED
    BY <2>1, <2>4, <2>7, <2>8 DEF Jobs
<1>7. ASSUME NEW i \in Images, NEW c \in Contexts, NEW gone \in SUBSET TerminalJobs, Admitted(i, c, gone)
      PROVE  CommitInv'
  <2>1. PICK n : Admit(i, c, n, gone)
    BY <1>7 DEF Admitted
  <2> PICK new \in Nat \ {0} : new = lastJob + 1
    BY <1>2
  <2>2. /\ lastJob' = lastJob + 1 /\ DOMAIN job' = (Jobs \ gone) \cup {new} /\ job'[new] = NewRow(i, c, n)
        /\ \A k \in Jobs \ gone : job'[k] = IF k \in ActiveOn(i) THEN Closed(job[k], "superseded") ELSE job[k]
    BY Zenon, <2>1, AdmittedRows
  <2>3. WriterIds' /\ \A h \in Images, k \in Nat \ {0} : Mine(h, k)' = Mine(h, k)
    BY <1>3, <1>7, <2>2 DEF Admitted
  <2>4. CommitOf(new)'
    <3>1. Mine(i, new)' = {}
      <4>1. new \notin 0 .. lastJob
        BY <1>2
      <4>2. Mine(i, new) = {}
        BY <4>1 DEF Mine, WriterIds
      <4> QED
        BY <2>3, <4>2
    <3>2. NewRow(i, c, n).image = i /\ NewRow(i, c, n).status = "pending"
      BY DEF NewRow
    <3> QED
      BY <2>2, <3>1, <3>2 DEF CommitOf, Mine
  <2>5. ASSUME NEW k \in Jobs \ gone PROVE CommitOf(k)'
    <3>1. /\ Keeps(k, Closed(job[k], "superseded")) /\ Closed(job[k], "superseded").status = "superseded"
      BY ClosedKeeps DEF TerminalStatus
    <3>2. k \in ActiveOn(i) => job[k].status # "completed"
      BY SMTT(20) DEF ActiveOn, ActiveJobs, ActiveStatus
    <3>3. k \notin ActiveOn(i) => attempt'[k] = attempt[k]
      BY <1>1, <2>1, <2>5 DEF Admit
    <3>4. /\ Mine(job[k].image, k)' = Mine(job[k].image, k)
          /\ job'[k].image = job[k].image /\ job'[k].input = job[k].input
          /\ job'[k].status = "completed" <=> job[k].status = "completed"
          /\ job[k].status = "completed" => attempt'[k] = attempt[k] /\ job'[k].attempts = job[k].attempts
      <4>1. job'[k] = IF k \in ActiveOn(i) THEN Closed(job[k], "superseded") ELSE job[k]
        BY <2>2
      <4>2. /\ job'[k].image = job[k].image /\ job'[k].input = job[k].input
            /\ job'[k].status = "completed" <=> job[k].status = "completed"
        BY <3>1, <3>2, <4>1 DEF Keeps
      <4>3. job[k].status = "completed" => attempt'[k] = attempt[k] /\ job'[k].attempts = job[k].attempts
        BY <3>2, <3>3, <4>1
      <4>4. Mine(job[k].image, k)' = Mine(job[k].image, k)
        BY <1>1, <1>2, <2>3, <4>2 DEF JobId
      <4> QED
        BY <4>2, <4>3, <4>4
    <3> QED
      BY <3>4, CommitKept
  <2> QED
    BY <2>2, <2>3, <2>4, <2>5 DEF Jobs
<1>8. ASSUME NEW gone \in SUBSET TerminalJobs, Forgotten(gone) PROVE CommitInv'
  <2>1. WriterIds' /\ \A h \in Images, k \in Nat \ {0} : Mine(h, k)' = Mine(h, k)
    BY <1>3, <1>8 DEF Forgotten
  <2>2. /\ DOMAIN job' = Jobs \ gone
        /\ \A k \in Jobs \ gone : job'[k] = job[k] /\ attempt'[k] = attempt[k]
    BY <1>1, <1>8 DEF Forgotten, Retain
  <2>3. ASSUME NEW k \in Jobs \ gone PROVE CommitOf(k)'
    BY <1>1, <1>2, <2>1, <2>2, CommitKept DEF JobId
  <2> QED
    BY <2>1, <2>2, <2>3 DEF Jobs
<1>9. ASSUME NEW w \in Workers, NEW dead \in SUBSET Jobs, NEW taken \in SUBSET Jobs, Claimed(w, dead, taken)
      PROVE  CommitInv'
  <2>1. WriterIds' /\ \A h \in Images, k \in Nat \ {0} : Mine(h, k)' = Mine(h, k)
    BY Zenon, <1>3, <1>9 DEF Claimed, Claim
  <2>2. ASSUME NEW k \in Jobs PROVE CommitOf(k)'
    <3>1. Keeps(k, Closed(job[k], "failed")) /\ Closed(job[k], "failed").status = "failed"
      BY ClosedKeeps DEF TerminalStatus
    <3>2. k \in dead \cup taken => job[k].status # "completed"
      BY <1>9 DEF Claimed, Exhausted, Claimable, Due, Expired
    <3>3. k \notin dead \cup taken => job'[k] = job[k] /\ attempt'[k] = attempt[k]
      BY Zenon, <1>1, <1>9 DEF Claimed, Claim
    <3>4. k \in dead => job'[k] = Closed(job[k], "failed")
      BY Zenon, <1>9 DEF Claimed, Claim
    <3>5. k \in taken \ dead => job'[k].image = job[k].image /\ job'[k].input = job[k].input
                               /\ job'[k].status = "running"
      BY Zenon, <1>1, <1>9 DEF Claimed, Claim, RowType
    <3>6. /\ Mine(job[k].image, k)' = Mine(job[k].image, k)
          /\ job'[k].image = job[k].image /\ job'[k].input = job[k].input
          /\ job'[k].status = "completed" <=> job[k].status = "completed"
          /\ job[k].status = "completed" => attempt'[k] = attempt[k] /\ job'[k].attempts = job[k].attempts
      BY <1>1, <1>2, <2>1, <3>1, <3>2, <3>3, <3>4, <3>5 DEF Keeps, JobId
    <3> QED
      BY <3>6, CommitKept
  <2>3. Jobs' = Jobs
    BY Zenon, <1>9 DEF Claimed, Claim, Jobs
  <2> QED
    BY <2>1, <2>2, <2>3
<1>10. ASSUME NEW j \in ActiveJobs, NEW r \in RowType, RowTouched(j, r) PROVE CommitInv'
  BY Zenon, <1>5, <1>10 DEF RowTouched, ActiveJobs, ActiveStatus
<1>11. ASSUME NEW j \in ActiveJobs, NEW r \in RowType, NEW o, RowEnded(j, r, o) PROVE CommitInv'
  <2>1. \A k \in Jobs \ {j} : attempt'[k] = attempt[k]
    BY <1>1, <1>2, <1>11 DEF RowEnded
  <2> QED
    BY Zenon, <1>5, <1>11, <2>1 DEF RowEnded
<1> QED
  BY <1>4, <1>6, <1>7, <1>8, <1>9, <1>10, <1>11 DEF StepKind

\* A page write and the end of the job that made it are one step, for any number
\* of jobs, workers and people: a job has written a revision exactly when it is
\* completed, that revision follows the one it was made for, and its last attempt
\* records it.
THEOREM CommitsAtomic == Spec => []CommitIsAtomic
<1>1. Init => CommitInv
  BY DEF Init, CommitInv, WriterIds, Jobs
<1>2. TypeOK /\ WaitingRows /\ CommitInv /\ [Next]_vars => CommitInv'
  <2>1. ASSUME CommitInv, UNCHANGED vars PROVE CommitInv'
    BY <2>1 DEF vars, CommitInv, WriterIds, CommitOf, Mine, Jobs
  <2> QED
    BY SMTT(20), <2>1, StepKinds, CommitStep
<1>3. CommitInv => CommitIsAtomic
  BY DEF CommitInv, CommitOf, Mine, CommitIsAtomic
<1> QED
  BY <1>1, <1>2, <1>3, WaitingHolds, PTL DEF Spec

--------------------------------------------------------------------------------
(* The service *)

\* What the service's operators are in terms of the queue.
LEMMA ServiceState ==
  ASSUME TypeOK
  PROVE  Service!Recorded = Jobs /\ Service!Open = ActiveJobs /\ Service!Ended = TerminalJobs
<1>1. \A j \in Jobs : job[j].status \in ActiveStatus \cup TerminalStatus
  BY IdTypes DEF RowType
<1>2. Service!Recorded = Jobs
  BY DEF Service!Recorded
<1>3. \A j \in Jobs : RequestOf(job[j]).state = "open" <=> job[j].status \in ActiveStatus
  BY <1>1 DEF RequestOf, ActiveStatus, TerminalStatus
<1>4. Service!Open = ActiveJobs
  BY <1>2, <1>3 DEF Service!Open, ActiveJobs
<1>5. Service!Ended = TerminalJobs
  BY <1>1, <1>2, <1>4 DEF Service!Ended, ActiveJobs, TerminalJobs, ActiveStatus, TerminalStatus
<1> QED
  BY <1>2, <1>4, <1>5

\* A revision is written, or none is.
LEMMA RevisionsWrite ==
  ASSUME TypeOK
  PROVE  /\ UNCHANGED written => UNCHANGED [i \in Images |-> Revision(i)]
         /\ \A i \in Images, n \in Nat, by \in 0 .. MaxJobs : Write(i, n, by) => Service!Advance(i)
<1>1. ASSUME UNCHANGED written PROVE UNCHANGED [i \in Images |-> Revision(i)]
  BY <1>1 DEF Revision
<1>2. ASSUME NEW i \in Images, NEW n \in Nat, NEW by \in 0 .. MaxJobs, Write(i, n, by) PROVE Service!Advance(i)
  <2>1. /\ written \in [Images -> Seq([base : Nat, job : 0 .. MaxJobs])]
        /\ [base |-> n, job |-> by] \in [base : Nat, job : 0 .. MaxJobs]
    BY Zenon DEF TypeOK
  <2>2. Len(Append(written[i], [base |-> n, job |-> by])) = Len(written[i]) + 1
    BY <2>1, AppendProperties
  <2>3. \A h \in Images : written'[h] = IF h = i THEN Append(written[i], [base |-> n, job |-> by]) ELSE written[h]
    BY <1>2, <2>1 DEF Write
  <2>4. \A h \in Images : Revision(h)' = IF h = i THEN Revision(h) + 1 ELSE Revision(h)
    BY Zenon, <2>2, <2>3 DEF Revision
  <2> QED
    BY Zenon, <2>4 DEF Service!Advance
<1> QED
  BY <1>1, <1>2

\* What a caller sees of a row that keeps its image and its input revision.
LEMMA RequestRow ==
  ASSUME TypeOK, NEW j \in ActiveJobs, NEW r \in RowType, r.image = job[j].image, r.input = job[j].input
  PROVE  /\ r.status \in ActiveStatus => RequestOf(r) = RequestOf(job[j])
         /\ r.status \in TerminalStatus => RequestOf(r) = [RequestOf(job[j]) EXCEPT !.state = r.status]
  BY DEF ActiveJobs, ActiveStatus, TerminalStatus, RequestOf

\* Rows whose end, and nothing else, a caller sees.
LEMMA RequestsEnd ==
  ASSUME TypeOK, NEW S, NEW how, DOMAIN job' = Jobs,
         \A k \in Jobs : RequestOf(job'[k]) =
           IF k \in S THEN [RequestOf(job[k]) EXCEPT !.state = how] ELSE RequestOf(job[k])
  PROVE  Service!End(S, how)
<1>1. Jobs' = Jobs
  BY DEF Jobs
<1>2. \A k \in Jobs : RequestOf(job[k])' = RequestOf(job'[k])
  BY DEF RequestOf
<1> QED
  BY <1>1, <1>2 DEF Service!End, Service!Recorded

\* Rows a caller sees no change of.
LEMMA RequestsSame ==
  ASSUME DOMAIN job' = Jobs, \A k \in Jobs : RequestOf(job'[k]) = RequestOf(job[k])
  PROVE  UNCHANGED [j \in Jobs |-> RequestOf(job[j])]
<1>1. Jobs' = Jobs
  BY DEF Jobs
<1>2. \A k \in Jobs : RequestOf(job[k])' = RequestOf(job'[k])
  BY DEF RequestOf
<1> QED
  BY <1>1, <1>2

\* Admission as a caller sees it.
LEMMA RequestsOpen ==
  ASSUME TypeOK, NEW i \in Images, NEW c \in Contexts, NEW n \in Nat,
         NEW gone \in SUBSET TerminalJobs, Admit(i, c, n, gone)
  PROVE  Service!OpenJob(i, n, gone)
<1> PICK new : new = lastJob + 1
  OBVIOUS
<1>1. /\ new \notin Jobs /\ lastJob' = new /\ DOMAIN job' = (Jobs \ gone) \cup {new} /\ job'[new] = NewRow(i, c, n)
      /\ \A k \in Jobs \ gone : job'[k] = IF k \in ActiveOn(i) THEN Closed(job[k], "superseded") ELSE job[k]
  BY AdmittedRows, ZenonT(30)
<1>2. RequestOf(job'[new]) = [image |-> i, input |-> n, state |-> "open"]
  BY <1>1 DEF RequestOf, NewRow, ActiveStatus
<1>3. ASSUME NEW k \in Jobs \ gone
      PROVE  RequestOf(job'[k]) = IF k \in ActiveJobs /\ RequestOf(job[k]).image = i
                                  THEN [RequestOf(job[k]) EXCEPT !.state = "superseded"] ELSE RequestOf(job[k])
  <2>1. k \in ActiveOn(i) <=> k \in ActiveJobs /\ RequestOf(job[k]).image = i
    BY DEF ActiveOn, RequestOf
  <2>2. CASE k \in ActiveOn(i)
    <3> DEFINE r == Closed(job[k], "superseded")
    <3>1. r \in RowType /\ r.image = job[k].image /\ r.input = job[k].input /\ r.status = "superseded"
      BY ClosedKeeps DEF Keeps, TerminalStatus
    <3> HIDE DEF r
    <3>2. RequestOf(r) = [RequestOf(job[k]) EXCEPT !.state = "superseded"]
      BY <2>1, <2>2, <3>1, RequestRow DEF TerminalStatus
    <3> QED
      BY <1>1, <2>1, <2>2, <3>2 DEF r
  <2>3. CASE k \notin ActiveOn(i)
    BY <1>1, <2>1, <2>3
  <2> QED
    BY <2>2, <2>3
<1>4. \A k : RequestOf(job[k])' = RequestOf(job'[k])
  BY DEF RequestOf
<1>5. Jobs' = (Jobs \ gone) \cup {new}
  BY <1>1 DEF Jobs
<1>6. [k \in Jobs |-> RequestOf(job[k])]' =
        [k \in (Jobs \ gone) \cup {new} |->
           IF k = new THEN [image |-> i, input |-> n, state |-> "open"]
           ELSE IF k \in ActiveJobs /\ RequestOf(job[k]).image = i
                THEN [RequestOf(job[k]) EXCEPT !.state = "superseded"]
           ELSE RequestOf(job[k])]
  BY <1>1, <1>2, <1>3, <1>4, <1>5
<1>7. lastJob < MaxJobs
  BY DEF Admit
<1>8. Service!Recorded = Jobs /\ Service!Open = ActiveJobs
  BY ServiceState
<1>9. ActiveJobs \subseteq Jobs
  BY DEF ActiveJobs
<1> QED
  BY Zenon, <1>1, <1>6, <1>7, <1>8, <1>9 DEF Service!OpenJob

\* Every kind of step is a step of the service, or one it does not see.
LEMMA ServiceStep ==
  ASSUME TypeOK, StepKind
  PROVE  [Service!Next]_(Service!service)
<1>1. \A j \in Jobs : j \in 0 .. MaxJobs /\ job[j] \in RowType /\ job[j].image \in Images
  <2>1. \A j \in Jobs : j \in JobId /\ job[j] \in RowType
    BY IdTypes
  <2> QED
    BY <2>1, IdTypes DEF JobId, RowType
<1>2. Service!Recorded = Jobs /\ Service!Open = ActiveJobs /\ Service!Ended = TerminalJobs
  BY ServiceState
<1>3. 0 \in 0 .. MaxJobs
  BY IdTypes
<1>4. UNCHANGED written => UNCHANGED [i \in Images |-> Revision(i)]
  BY RevisionsWrite
<1>5. CASE PageSaved
  <2>1. UNCHANGED lastJob /\ UNCHANGED [j \in Jobs |-> RequestOf(job[j])]
    BY <1>5, RequestsSame DEF PageSaved, Jobs
  <2>2. CASE UNCHANGED written
    BY <1>4, <2>1, <2>2 DEF Service!service
  <2>3. ASSUME NEW i \in Images, NEW n \in Nat, Write(i, n, 0) PROVE Service!Next
    <3>1. Service!Save(i)
      BY <1>3, <2>1, <2>3, RevisionsWrite DEF Service!Save
    <3> QED
      BY <3>1 DEF Service!Next
  <2> QED
    BY <1>5, <2>2, <2>3 DEF PageSaved
<1>6. ASSUME NEW j \in ActiveJobs, NEW r \in RowType, job' = [job EXCEPT ![j] = r],
             Keeps(j, r), r.status \in ActiveStatus,
             UNCHANGED <<written, lastJob>>
      PROVE  UNCHANGED Service!service
  <2>1. UNCHANGED [k \in Jobs |-> RequestOf(job[k])]
    <3>1. DOMAIN job' = Jobs /\ \A k \in Jobs : job'[k] = IF k = j THEN r ELSE job[k]
      BY Zenon, <1>6, RowUpdate
    <3>2. RequestOf(r) = RequestOf(job[j])
      BY <1>6, RequestRow DEF Keeps
    <3> QED
      BY <3>1, <3>2, RequestsSame
  <2> QED
    BY <1>4, <1>6, <2>1 DEF Service!service
<1>7. ASSUME NEW j \in ActiveJobs, NEW r \in RowType, job' = [job EXCEPT ![j] = r],
             Keeps(j, r), r.status \in TerminalStatus
      PROVE  Service!End({j}, r.status)
  <2>1. DOMAIN job' = Jobs /\ \A k \in Jobs : job'[k] = IF k = j THEN r ELSE job[k]
    BY Zenon, <1>7, RowUpdate
  <2>2. RequestOf(r) = [RequestOf(job[j]) EXCEPT !.state = r.status]
    BY <1>7, RequestRow DEF Keeps
  <2>3. \A k \in Jobs : RequestOf(job'[k]) =
          IF k \in {j} THEN [RequestOf(job[k]) EXCEPT !.state = r.status] ELSE RequestOf(job[k])
    BY <2>1, <2>2
  <2> QED
    BY <2>1, <2>3, RequestsEnd
<1>8. ASSUME NEW j \in ActiveJobs, NEW r \in RowType, NEW o, RowEnded(j, r, o)
      PROVE  [Service!Next]_(Service!service)
  <2>1. CASE r.status = "pending"
    BY Zenon, <1>6, <1>8, <2>1 DEF RowEnded, ActiveStatus
  <2>2. CASE r.status = "canceled"
    <3>1. Service!Cancel(j)
      BY Zenon, <1>2, <1>4, <1>7, <1>8, <2>2 DEF RowEnded, TerminalStatus, Service!Cancel
    <3> QED
      BY <1>2, <3>1 DEF Service!Next, ActiveJobs
  <2>3. CASE r.status = "failed"
    <3>1. Service!Fail({j})
      BY Zenon, <1>2, <1>4, <1>7, <1>8, <2>3 DEF RowEnded, TerminalStatus, Service!Fail
    <3> QED
      BY <1>2, <3>1 DEF Service!Next
  <2> QED
    BY <1>8, <2>1, <2>2, <2>3 DEF RowEnded
<1>9. ASSUME NEW j \in ActiveJobs, NEW r \in RowType, NEW n \in Nat, PageCommitted(j, r, n) PROVE Service!Next
  <2>1. j \in Jobs
    BY DEF ActiveJobs
  <2>2. Service!End({j}, "completed")
    BY Zenon, <1>7, <1>9 DEF PageCommitted, TerminalStatus
  <2>3. Service!Advance(job[j].image)
    BY <1>1, <1>9, <2>1, RevisionsWrite DEF PageCommitted
  <2>4. /\ [k \in Jobs |-> RequestOf(job[k])][j].image = job[j].image
        /\ [k \in Jobs |-> RequestOf(job[k])][j].input = job[j].input
    BY <2>1 DEF RequestOf
  <2>5. Service!Complete(j)
    BY <1>1, <1>2, <1>9, <2>1, <2>2, <2>3, <2>4 DEF PageCommitted, Service!Complete
  <2> QED
    BY <1>2, <2>1, <2>5 DEF Service!Next
<1>10. ASSUME NEW i \in Images, NEW c \in Contexts, NEW gone \in SUBSET TerminalJobs, Admitted(i, c, gone)
       PROVE  Service!Next
  <2>1. [h \in Images |-> Revision(h)][i] = Revision(i) /\ Revision(i) > 0 /\ Revision(i) \in Nat
    BY <1>10, RevisionType DEF Admitted
  <2>2. CASE Admit(i, c, Revision(i), gone) /\ UNCHANGED written
    <3>1. Service!Request(i, gone)
      BY <1>4, <2>1, <2>2, RequestsOpen DEF Service!Request
    <3> QED
      BY <1>2, <3>1 DEF Service!Next
  <2>3. ASSUME NEW n \in Nat, Admit(i, c, Revision(i) + 1, gone), Write(i, n, 0) PROVE Service!Next
    <3>1. Service!OpenJob(i, Revision(i) + 1, gone) /\ Service!Advance(i)
      BY <1>3, <2>1, <2>3, RequestsOpen, RevisionsWrite
    <3>2. Service!Reprocess(i, gone)
      BY <2>1, <3>1 DEF Service!Reprocess
    <3> QED
      BY <1>2, <3>2 DEF Service!Next
  <2> QED
    BY <1>10, <2>2, <2>3 DEF Admitted
<1>11. ASSUME NEW gone \in SUBSET TerminalJobs, Forgotten(gone) PROVE Service!Next
  <2>1. Jobs' = Jobs \ gone /\ \A k \in Jobs \ gone : RequestOf(job[k])' = RequestOf(job[k])
    BY <1>11 DEF Forgotten, Retain, Jobs, RequestOf
  <2>2. Service!Forget(gone)
    BY <1>2, <1>4, <1>11, <2>1 DEF Forgotten, Service!Forget
  <2> QED
    BY <1>2, <2>2 DEF Service!Next
<1>12. ASSUME NEW w \in Workers, NEW dead \in SUBSET Jobs, NEW taken \in SUBSET Jobs, Claimed(w, dead, taken)
       PROVE  Service!Next
  <2>1. /\ DOMAIN job' = Jobs /\ dead \subseteq ActiveJobs /\ taken \subseteq ActiveJobs
        /\ UNCHANGED <<written, lastJob>>
    BY Zenon, <1>12 DEF Claimed, Claim, Exhausted, Claimable, Due, Expired, ActiveJobs, ActiveStatus
  <2>2. ASSUME NEW k \in Jobs
        PROVE  RequestOf(job'[k]) =
                 IF k \in dead THEN [RequestOf(job[k]) EXCEPT !.state = "failed"] ELSE RequestOf(job[k])
    <3>1. CASE k \in dead
      <4>1. job'[k] = Closed(job[k], "failed")
        BY Zenon, <1>12, <3>1 DEF Claimed, Claim
      <4>2. /\ Closed(job[k], "failed") \in RowType /\ Keeps(k, Closed(job[k], "failed"))
            /\ Closed(job[k], "failed").status = "failed"
        BY ClosedKeeps DEF TerminalStatus
      <4> QED
        BY <2>1, <3>1, <4>1, <4>2, RequestRow DEF Keeps, TerminalStatus
    <3>2. CASE k \in taken \ dead
      <4>1. job'[k].image = job[k].image /\ job'[k].input = job[k].input /\ job'[k].status = "running"
        BY Zenon, <1>1, <1>12, <3>2 DEF Claimed, Claim, RowType
      <4>2. job[k].status \in ActiveStatus
        BY <2>1, <3>2 DEF ActiveJobs
      <4> QED
        BY <3>2, <4>1, <4>2 DEF RequestOf, ActiveStatus
    <3>3. CASE k \notin dead \cup taken
      BY Zenon, <1>12, <3>3 DEF Claimed, Claim
    <3> QED
      BY <3>1, <3>2, <3>3
  <2>3. Service!End(dead, "failed")
    BY <2>1, <2>2, RequestsEnd
  <2>4. Service!Fail(dead)
    BY <1>2, <1>4, <2>1, <2>3 DEF Service!Fail
  <2> QED
    BY <1>2, <2>1, <2>4 DEF Service!Next
<1>13. ASSUME NEW j \in ActiveJobs, NEW r \in RowType, RowTouched(j, r) PROVE UNCHANGED Service!service
  BY Zenon, <1>6, <1>13 DEF RowTouched, ActiveJobs
<1> QED
  BY <1>5, <1>8, <1>9, <1>10, <1>11, <1>12, <1>13 DEF StepKind

\* The queue, for any number of images, workers, people and jobs, does nothing a
\* caller can tell from the service: every step of it is a step of
\* TranscriptionService on what its callers see, or none.
THEOREM QueueImplementsService == Spec => ImplementsService
<1>1. Init => Service!Init
  BY DEF Init, Service!Init, Jobs, Revision
<1>2. TypeOK /\ WaitingRows /\ [Next]_vars => [Service!Next]_(Service!service)
  <2>1. ASSUME UNCHANGED vars PROVE UNCHANGED Service!service
    BY <2>1 DEF vars, Service!service, Jobs, Revision
  <2> QED
    BY <2>1, StepKinds, ServiceStep
<1> QED
  BY <1>1, <1>2, WaitingHolds, PTL DEF Spec, Service!Spec, ImplementsService

--------------------------------------------------------------------------------
(* Events *)

\* What a job's events tell of its status.
Told(s, status) ==
  LET ends == {n \in DOMAIN s : s[n] # "reprocessed"} IN
  /\ \A m, n \in ends : m = n
  /\ \A n \in ends : s[n] = status
  /\ status = "completed" => ends # {}

\* No event names a job that was not handed out.
NoEarlyEvents == \A j \in JobId : j > lastJob => event[j] = <<>>

EventInv == TerminalEventsMatch /\ NoEarlyEvents

EventName == {"completed", "failed", "reprocessed"}

\* The property says of each job what Told says of its events.
LEMMA EventsTold ==
  /\ TerminalEventsMatch <=> \A j \in Jobs : Told(event[j], job[j].status)
  /\ TerminalEventsMatch' <=> \A j \in DOMAIN job' : Told(event'[j], job'[j].status)
  BY DEF TerminalEventsMatch, Told, Ends, Jobs

\* A live job has told nothing of its end, so whatever it is told next is right.
LEMMA ToldOnce ==
  ASSUME NEW s \in Seq(EventName), NEW status \in ActiveStatus, Told(s, status)
  PROVE  /\ \A t : t # "completed" => Told(s, t)
         /\ \A t \in {"completed", "failed"} : Told(Append(s, t), t)
         /\ \A t : t # "completed" => Told(Append(s, "reprocessed"), t)
<1>1. \A n \in DOMAIN s : s[n] = "reprocessed"
  BY DEF Told, EventName, ActiveStatus
<1>2. \A t : t # "completed" => Told(s, t)
  BY <1>1 DEF Told
<1>3. ASSUME NEW t \in EventName
      PROVE  /\ DOMAIN Append(s, t) = 1 .. Len(s) + 1 /\ DOMAIN s = 1 .. Len(s) /\ Len(s) \in Nat
             /\ Append(s, t)[Len(s) + 1] = t
             /\ \A n \in 1 .. Len(s) : Append(s, t)[n] = s[n]
  BY AppendProperties
<1>4. ASSUME NEW t \in {"completed", "failed"} PROVE Told(Append(s, t), t)
  <2> DEFINE a == Append(s, t)
  <2>1. t \in EventName /\ t # "reprocessed"
    BY DEF EventName
  <2>2. {n \in DOMAIN a : a[n] # "reprocessed"} = {Len(s) + 1}
    BY <1>1, <1>3, <2>1
  <2>3. a[Len(s) + 1] = t
    BY <1>3, <2>1
  <2> HIDE DEF a
  <2>4. Told(a, t)
    BY <2>2, <2>3 DEF Told
  <2> QED
    BY <2>4 DEF a
<1>5. ASSUME NEW t, t # "completed" PROVE Told(Append(s, "reprocessed"), t)
  <2> DEFINE a == Append(s, "reprocessed")
  <2>1. \A n \in DOMAIN a : a[n] = "reprocessed"
    BY <1>1, <1>3 DEF EventName
  <2> HIDE DEF a
  <2>2. Told(a, t)
    BY <1>5, <2>1 DEF Told
  <2> QED
    BY <2>2 DEF a
<1> QED
  BY <1>2, <1>4, <1>5

\* Whatever kind of step is taken, events and rows still agree.
LEMMA EventStep ==
  ASSUME TypeOK, EventInv, StepKind
  PROVE  EventInv'
<1> USE DEF EventInv
<1>1. \A j \in Jobs : /\ j \in JobId /\ j <= lastJob /\ job[j] \in RowType
                      /\ event[j] \in Seq(EventName) /\ Told(event[j], job[j].status)
  BY Zenon, IdTypes, EventsTold DEF TypeOK, EventName
<1>2. lastJob \in Nat /\ DOMAIN event = JobId /\ \A j \in JobId : j \in Nat
  BY IdTypes DEF TypeOK, JobId
<1>3. SUFFICES ASSUME TRUE
               PROVE  /\ \A j \in DOMAIN job' : Told(event'[j], job'[j].status)
                      /\ NoEarlyEvents'
  BY <1>3, EventsTold
<1>4. ASSUME UNCHANGED <<event, lastJob>>, DOMAIN job' \subseteq Jobs,
             \A k \in DOMAIN job' : \/ job'[k].status = job[k].status
                                    \/ job[k].status \in ActiveStatus /\ job'[k].status # "completed"
      PROVE  (\A j \in DOMAIN job' : Told(event'[j], job'[j].status)) /\ NoEarlyEvents'
  BY <1>1, <1>4, ToldOnce DEF NoEarlyEvents
<1>5. CASE PageSaved
  BY <1>4, <1>5 DEF PageSaved, Jobs
<1>6. ASSUME NEW j \in ActiveJobs, NEW r \in RowType, RowTouched(j, r)
      PROVE  (\A k \in DOMAIN job' : Told(event'[k], job'[k].status)) /\ NoEarlyEvents'
  BY Zenon, <1>4, <1>6, RowUpdate DEF RowTouched
<1>7. ASSUME NEW j \in ActiveJobs, NEW r \in RowType, NEW t \in {"completed", "failed"}, job' = [job EXCEPT ![j] = r],
             r.status = t, event' = [event EXCEPT ![j] = Append(@, t)], UNCHANGED lastJob
      PROVE  (\A k \in DOMAIN job' : Told(event'[k], job'[k].status)) /\ NoEarlyEvents'
  <2>1. /\ j \in Jobs /\ j \in JobId /\ DOMAIN job' = Jobs /\ job[j].status \in ActiveStatus
        /\ \A k \in Jobs : job'[k] = IF k = j THEN r ELSE job[k]
    BY Zenon, <1>7, RowUpdate DEF ActiveJobs
  <2>2. \A k \in JobId : event'[k] = IF k = j THEN Append(event[j], t) ELSE event[k]
    BY <1>2, <1>7
  <2>3. Told(Append(event[j], t), t)
    BY <1>1, <2>1, ToldOnce
  <2> QED
    BY <1>1, <1>2, <1>7, <2>1, <2>2, <2>3 DEF NoEarlyEvents
<1>8. ASSUME NEW j \in ActiveJobs, NEW r \in RowType, NEW o, RowEnded(j, r, o)
      PROVE  (\A k \in DOMAIN job' : Told(event'[k], job'[k].status)) /\ NoEarlyEvents'
  <2>1. CASE UNCHANGED event
    BY Zenon, <1>4, <1>8, <2>1, RowUpdate DEF RowEnded, ActiveJobs
  <2>2. CASE r.status = "failed" /\ event' = [event EXCEPT ![j] = Append(@, "failed")]
    BY Zenon, <1>7, <1>8, <2>2 DEF RowEnded
  <2> QED
    BY <1>8, <2>1, <2>2 DEF RowEnded
<1>9. ASSUME NEW j \in ActiveJobs, NEW r \in RowType, NEW n, PageCommitted(j, r, n)
      PROVE  (\A k \in DOMAIN job' : Told(event'[k], job'[k].status)) /\ NoEarlyEvents'
  BY Zenon, <1>7, <1>9 DEF PageCommitted
<1>10. ASSUME NEW i \in Images, NEW c \in Contexts, NEW gone \in SUBSET TerminalJobs, Admitted(i, c, gone)
       PROVE  (\A k \in DOMAIN job' : Told(event'[k], job'[k].status)) /\ NoEarlyEvents'
  <2>1. PICK n : Admit(i, c, n, gone)
    BY <1>10 DEF Admitted
  <2>2. /\ lastJob + 1 \notin Jobs /\ lastJob' = lastJob + 1 /\ lastJob + 1 \in JobId
        /\ DOMAIN job' = (Jobs \ gone) \cup {lastJob + 1}
        /\ job'[lastJob + 1].status = "pending"
        /\ \A k \in Jobs \ gone : job'[k] = IF k \in ActiveOn(i) THEN Closed(job[k], "superseded") ELSE job[k]
    <3>1. lastJob < MaxJobs
      BY <2>1 DEF Admit
    <3>2. lastJob + 1 \in JobId
      BY <1>2, <3>1, IdTypes DEF JobId
    <3>3. NewRow(i, c, n).status = "pending"
      BY DEF NewRow
    <3> QED
      BY Zenon, <2>1, <3>2, <3>3, AdmittedRows
  <2>3. \A k \in Jobs \ gone : \/ job'[k].status = job[k].status
                               \/ job[k].status \in ActiveStatus /\ job'[k].status # "completed"
    BY <2>2, ClosedKeeps DEF ActiveOn, ActiveJobs, TerminalStatus
  <2>4. event[lastJob + 1] = <<>>
    BY <1>2, <2>2 DEF NoEarlyEvents
  <2>5. /\ event'[lastJob + 1] \in {<<>>, Append(<<>>, "reprocessed")}
        /\ \A k \in JobId : k # lastJob + 1 => event'[k] = event[k]
    BY <1>2, <1>10, <2>2, <2>4 DEF Admitted
  <2>6. Told(<<>>, "pending")
    BY DEF Told
  <2>7. Told(event'[lastJob + 1], job'[lastJob + 1].status)
    <3>1. <<>> \in Seq(EventName) /\ "pending" \in ActiveStatus
      BY DEF ActiveStatus
    <3> QED
      BY Zenon, <2>2, <2>5, <2>6, <3>1, ToldOnce
  <2>8. \A k \in Jobs \ gone : Told(event'[k], job'[k].status)
    <3>1. \A k \in Jobs : event'[k] = event[k]
      BY SMTT(20), <1>1, <2>2, <2>5
    <3> QED
      BY <1>1, <2>3, <3>1, ToldOnce
  <2>9. NoEarlyEvents'
    BY <1>2, <2>2, <2>5 DEF NoEarlyEvents
  <2> QED
    BY <2>2, <2>7, <2>8, <2>9
<1>11. ASSUME NEW gone \in SUBSET TerminalJobs, Forgotten(gone)
       PROVE  (\A k \in DOMAIN job' : Told(event'[k], job'[k].status)) /\ NoEarlyEvents'
  BY <1>4, <1>11 DEF Forgotten, Retain
<1>12. ASSUME NEW w \in Workers, NEW dead \in SUBSET Jobs, NEW taken \in SUBSET Jobs, Claimed(w, dead, taken)
       PROVE  (\A k \in DOMAIN job' : Told(event'[k], job'[k].status)) /\ NoEarlyEvents'
  <2>1. \A k \in dead \cup taken : job[k].status \in ActiveStatus
    BY <1>12 DEF Claimed, Exhausted, Claimable, Due, Expired, ActiveStatus
  <2>2. \A k \in dead : job'[k].status = "failed"
    <3>1. \A k \in dead : job'[k] = Closed(job[k], "failed")
      BY Zenon, <1>12 DEF Claimed, Claim
    <3> QED
      BY <3>1, ClosedKeeps DEF TerminalStatus
  <2>3. \A k \in taken \ dead : job'[k].status = "running"
    BY Zenon, <1>1, <1>12 DEF Claimed, Claim, RowType
  <2>4. \A k \in Jobs \ (dead \cup taken) : job'[k] = job[k]
    BY Zenon, <1>12 DEF Claimed, Claim
  <2>5. DOMAIN job' = Jobs /\ UNCHANGED <<event, lastJob>>
    BY Zenon, <1>12 DEF Claimed, Claim
  <2> QED
    BY <1>4, <2>1, <2>2, <2>3, <2>4, <2>5
<1> QED
  BY <1>5, <1>6, <1>8, <1>9, <1>10, <1>11, <1>12 DEF StepKind

\* A consumer of the outbox hears of each job's end at most once and hears what
\* happened, and no completion goes untold: SavePageAndCompleteTranscriptionJob and
\* the failure statements insert the event in the transaction that ends the job.
THEOREM EventsMatch == Spec => []TerminalEventsMatch
<1>1. Init => EventInv
  BY DEF Init, EventInv, TerminalEventsMatch, NoEarlyEvents, Jobs
<1>2. TypeOK /\ WaitingRows /\ EventInv /\ [Next]_vars => EventInv'
  <2>1. ASSUME EventInv, UNCHANGED vars PROVE EventInv'
    BY <2>1 DEF EventInv, TerminalEventsMatch, Ends, NoEarlyEvents, vars, Jobs
  <2> QED
    BY <2>1, StepKinds, EventStep
<1>3. EventInv => TerminalEventsMatch
  BY DEF EventInv
<1> QED
  BY <1>1, <1>2, <1>3, WaitingHolds, PTL DEF Spec

--------------------------------------------------------------------------------
(* Bounds *)

\* The rows are finitely many, live or ended.
LEMMA RowsFinite ==
  ASSUME TypeOK
  PROVE  /\ Jobs = ActiveJobs \cup TerminalJobs /\ ActiveJobs \cap TerminalJobs = {}
         /\ \A S \in SUBSET Jobs : IsFiniteSet(S) /\ Cardinality(S) \in Nat
<1>1. Jobs \subseteq 1 .. lastJob /\ lastJob \in Int /\ 1 \in Int
  BY IdTypes DEF TypeOK
<1>2. IsFiniteSet(1 .. lastJob)
  BY <1>1, FS_Interval
<1>3. \A S \in SUBSET Jobs : IsFiniteSet(S) /\ Cardinality(S) \in Nat
  BY Zenon, <1>1, <1>2, FS_Subset, FS_CardinalityType
<1>4. \A j \in Jobs : job[j].status \in ActiveStatus \cup TerminalStatus
  BY IdTypes DEF RowType
<1>5. ActiveStatus \cap TerminalStatus = {}
  BY DEF ActiveStatus, TerminalStatus
<1> QED
  BY <1>3, <1>4, <1>5 DEF ActiveJobs, TerminalJobs

\* Retention makes room: what it leaves of the history is below the target.
LEMMA RetentionLeaves ==
  ASSUME TypeOK, NEW gone \in Expendable
  PROVE  /\ gone \subseteq TerminalJobs
         /\ Cardinality(TerminalJobs \ gone) <= MaxTerminal - 1
<1> DEFINE T == TerminalJobs
<1>1. gone \subseteq T
  BY DEF Expendable
<1>2. T \in SUBSET Jobs /\ gone \in SUBSET Jobs
  BY <1>1 DEF TerminalJobs
<1>3. IsFiniteSet(T) /\ Cardinality(T) \in Nat /\ Cardinality(gone) \in Nat
  BY <1>2, RowsFinite
<1>4. Cardinality(T \ gone) = Cardinality(T) - Cardinality(gone)
  <2>1. T \cap gone = gone
    BY <1>1
  <2> QED
    BY Zenon, <1>3, <2>1, FS_Difference
<1>5. Cardinality(gone) = IF Cardinality(T) > MaxTerminal - 1 THEN Cardinality(T) - (MaxTerminal - 1) ELSE 0
  BY DEF Expendable
<1>6. MaxTerminal \in Nat \ {0}
  BY ConstantsAssumption DEF ConstantsAssumption
<1> HIDE DEF T
<1>7. Cardinality(T \ gone) <= MaxTerminal - 1
  BY <1>3, <1>4, <1>5, <1>6
<1> QED
  BY <1>1, <1>7 DEF T

\* Only an admission adds a row, or a live one, and it makes room for it first.
LEMMA BoundStep ==
  ASSUME TypeOK, HistoryBounded, StepKind
  PROVE  HistoryBounded'
<1>1. /\ MaxActive \in Nat \ {0} /\ MaxTerminal \in Nat \ {0}
      /\ ActiveJobs \in SUBSET Jobs /\ TerminalJobs \in SUBSET Jobs
  BY ConstantsAssumption DEF ConstantsAssumption, ActiveJobs, TerminalJobs
<1>2. /\ IsFiniteSet(Jobs) /\ Cardinality(Jobs) \in Nat
      /\ IsFiniteSet(ActiveJobs) /\ Cardinality(ActiveJobs) \in Nat
  BY <1>1, RowsFinite
<1>3. ASSUME Jobs' \subseteq Jobs, ActiveJobs' \subseteq ActiveJobs PROVE HistoryBounded'
  <2>1. Cardinality(Jobs') <= Cardinality(Jobs) /\ Cardinality(ActiveJobs') <= Cardinality(ActiveJobs)
    BY <1>2, <1>3, FS_Subset
  <2>2. Cardinality(Jobs') \in Nat /\ Cardinality(ActiveJobs') \in Nat
    <3>1. Jobs' \in SUBSET Jobs /\ ActiveJobs' \in SUBSET Jobs
      BY <1>1, <1>3
    <3> QED
      BY <3>1, RowsFinite
  <2> QED
    BY <1>1, <1>2, <2>1, <2>2 DEF HistoryBounded
<1>4. ASSUME DOMAIN job' \subseteq Jobs,
             \A k \in DOMAIN job' : job'[k].status \in ActiveStatus => job[k].status \in ActiveStatus
      PROVE  HistoryBounded'
  BY <1>3, <1>4 DEF Jobs, ActiveJobs
<1>5. CASE PageSaved
  BY <1>4, <1>5 DEF PageSaved, Jobs
<1>6. ASSUME NEW j \in ActiveJobs, NEW r \in RowType, job' = [job EXCEPT ![j] = r] PROVE HistoryBounded'
  BY Zenon, <1>4, <1>6, RowUpdate DEF ActiveJobs
<1>7. ASSUME NEW i \in Images, NEW c \in Contexts, NEW gone \in SUBSET TerminalJobs, Admitted(i, c, gone)
      PROVE  HistoryBounded'
  <2>1. PICK n : Admit(i, c, n, gone)
    BY <1>7 DEF Admitted
  <2> DEFINE new == lastJob + 1
             A == ActiveJobs
             rest == TerminalJobs \ gone
  <2>2. /\ new \notin Jobs /\ DOMAIN job' = (Jobs \ gone) \cup {new}
        /\ \A k \in Jobs \ gone : job'[k] = IF k \in ActiveOn(i) THEN Closed(job[k], "superseded") ELSE job[k]
    BY Zenon, <2>1, AdmittedRows
  <2>3. rest \in SUBSET Jobs /\ Cardinality(rest) <= MaxTerminal - 1
    BY <1>1, <1>7, RetentionLeaves DEF Admitted
  <2>4. IsFiniteSet(rest) /\ Cardinality(rest) \in Nat
    BY <2>3, RowsFinite
  <2>5. Jobs \ gone = A \cup rest /\ A \cap rest = {}
    BY RowsFinite
  <2>6. IsFiniteSet(Jobs \ gone) /\ Cardinality(Jobs \ gone) = Cardinality(A) + Cardinality(rest)
    <3>1. Cardinality({}) = 0
      BY FS_EmptySet
    <3> HIDE DEF A, rest
    <3>2. IsFiniteSet(A) /\ Cardinality(A) \in Nat
      BY <1>2 DEF A
    <3>3. /\ IsFiniteSet(A \cup rest)
          /\ Cardinality(A \cup rest) = Cardinality(A) + Cardinality(rest) - Cardinality(A \cap rest)
      BY <2>4, <3>2, FS_Union
    <3>4. Cardinality(A \cap rest) = 0
      BY <2>5, <3>1, Zenon
    <3>5. Cardinality(A \cup rest) = Cardinality(A) + Cardinality(rest)
      BY <2>4, <3>2, <3>3, <3>4
    <3> QED
      BY <2>5, <3>3, <3>5, Zenon
  <2>7. Cardinality(Jobs') = Cardinality(A) + Cardinality(rest) + 1
    <3>1. Jobs' = (Jobs \ gone) \cup {new} /\ new \notin Jobs \ gone
      BY SMTT(20), <2>2 DEF Jobs
    <3> HIDE DEF A, rest, new
    <3> QED
      BY Zenon, <2>6, <3>1, FS_AddElement
  <2>8. ActiveJobs' \subseteq (A \ ActiveOn(i)) \cup {new}
    <3>1. ASSUME NEW k \in Jobs \ gone, job'[k].status \in ActiveStatus PROVE k \in A \ ActiveOn(i)
      <4>1. k \notin ActiveOn(i)
        BY <2>2, <3>1, ClosedKeeps DEF TerminalStatus, ActiveStatus
      <4> QED
        BY <2>2, <3>1, <4>1 DEF ActiveJobs
    <3> QED
      BY <2>2, <3>1 DEF ActiveJobs, Jobs
  <2>9. IsFiniteSet(ActiveJobs') /\ Cardinality(ActiveJobs') \in Nat /\ Cardinality(ActiveJobs') <= MaxActive
    <3>1. PICK B \in SUBSET A : /\ ActiveJobs' \subseteq B \cup {new}
                                /\ Cardinality(B) + 1 <= MaxActive
      <4>1. CASE ActiveOn(i) = {}
        <5>1. Cardinality(A) + 1 <= MaxActive
          BY <1>1, <1>2, <2>1, <4>1 DEF Admit
        <5> QED
          BY <2>8, <4>1, <5>1
      <4>2. CASE ActiveOn(i) # {}
        <5>1. PICK j \in ActiveOn(i) : TRUE
          BY <4>2
        <5>2. j \in A
          BY DEF ActiveOn
        <5>3. Cardinality(A \ {j}) = Cardinality(A) - 1
          BY Zenon, <1>2, <5>2, FS_RemoveElement
        <5>4. Cardinality(A \ {j}) + 1 <= MaxActive
          BY <1>1, <1>2, <5>3 DEF HistoryBounded
        <5>5. ActiveJobs' \subseteq (A \ {j}) \cup {new}
          BY <2>8, <5>1
        <5> QED
          BY <5>4, <5>5
      <4> QED
        BY <4>1, <4>2
    <3>2. IsFiniteSet(B) /\ Cardinality(B) \in Nat
      BY <1>1, RowsFinite
    <3> HIDE DEF new
    <3>3. /\ IsFiniteSet(B \cup {new}) /\ Cardinality(B \cup {new}) \in Nat
          /\ Cardinality(B \cup {new}) <= Cardinality(B) + 1
      <4>1. IsFiniteSet(B \cup {new})
        BY <3>2, FS_AddElement
      <4>2. Cardinality(B \cup {new}) = IF new \in B THEN Cardinality(B) ELSE Cardinality(B) + 1
        BY Zenon, <3>2, FS_AddElement
      <4> QED
        BY <3>2, <4>1, <4>2
    <3>4. IsFiniteSet(ActiveJobs') /\ Cardinality(ActiveJobs') <= Cardinality(B \cup {new})
      BY <3>1, <3>3, FS_Subset
    <3>5. Cardinality(ActiveJobs') \in Nat
      BY <3>4, FS_CardinalityType
    <3> QED
      BY <1>1, <3>1, <3>2, <3>3, <3>4, <3>5
  <2> HIDE DEF A, rest, new
  <2>10. Cardinality(A) <= MaxActive /\ Cardinality(A) \in Nat
    BY <1>2 DEF HistoryBounded, A
  <2>11. Cardinality(Jobs') <= MaxActive + MaxTerminal
    BY <1>1, <2>3, <2>4, <2>7, <2>10
  <2> QED
    BY <2>9, <2>11 DEF HistoryBounded
<1>8. ASSUME NEW gone \in SUBSET TerminalJobs, Forgotten(gone) PROVE HistoryBounded'
  BY <1>4, <1>8 DEF Forgotten, Retain
<1>9. ASSUME NEW w \in Workers, NEW dead \in SUBSET Jobs, NEW taken \in SUBSET Jobs, Claimed(w, dead, taken)
      PROVE  HistoryBounded'
  <2>1. \A k \in dead \cup taken : job[k].status \in ActiveStatus
    BY <1>9 DEF Claimed, Exhausted, Claimable, Due, Expired, ActiveStatus
  <2>2. DOMAIN job' = Jobs /\ \A k \in Jobs \ (dead \cup taken) : job'[k] = job[k]
    BY Zenon, <1>9 DEF Claimed, Claim
  <2> QED
    BY <1>4, <2>1, <2>2
<1> QED
  BY <1>5, <1>6, <1>7, <1>8, <1>9 DEF StepKind, RowTouched, RowEnded, PageCommitted

\* However many requests arrive, a workspace's queue stays within its limit and
\* its whole history within the sum of both: createLocked refuses above the one
\* and deletes the oldest ended jobs above the other.
THEOREM HistoryStaysBounded == Spec => []HistoryBounded
<1>1. Init => HistoryBounded
  <2>1. ASSUME Init PROVE Jobs = {} /\ ActiveJobs = {}
    BY <2>1 DEF Init, Jobs, ActiveJobs
  <2>2. Cardinality({}) = 0
    BY FS_EmptySet
  <2>3. MaxActive \in Nat /\ MaxTerminal \in Nat
    BY ConstantsAssumption DEF ConstantsAssumption
  <2> QED
    BY <2>1, <2>2, <2>3 DEF HistoryBounded
<1>2. TypeOK /\ WaitingRows /\ HistoryBounded /\ [Next]_vars => HistoryBounded'
  <2>1. ASSUME HistoryBounded, UNCHANGED vars PROVE HistoryBounded'
    BY <2>1 DEF HistoryBounded, vars, Jobs, ActiveJobs
  <2> QED
    BY <2>1, StepKinds, BoundStep
<1> QED
  BY <1>1, <1>2, WaitingHolds, PTL DEF Spec

================================================================================
