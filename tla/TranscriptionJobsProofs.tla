------------------------- MODULE TranscriptionJobsProofs -------------------------
(***************************************************************************)
(* Theorems about the transcription queue, for any number of images,       *)
(* workers, editors, lines and jobs.                                       *)
(***************************************************************************)
EXTENDS TranscriptionJobs, SequenceTheorems, TLAPS

--------------------------------------------------------------------------------
(* What the updates the actions are built from do to the types *)

\* Ids are numbers that have been handed out.
LEMMA IdTypes ==
  ASSUME TypeOK
  PROVE  /\ MaxJobs \in Nat /\ MaxAttempts \in Nat /\ lastJob \in Nat
         /\ \A j \in Jobs : j \in Nat /\ j \in JobId /\ j <= lastJob /\ j >= 1 /\ job[j] \in RowType
<1>1. MaxJobs \in Nat /\ MaxAttempts \in Nat /\ lastJob \in 0 .. MaxJobs
  BY ConstantsAssumption DEF TypeOK, ConstantsAssumption
<1>2. \A j \in Jobs : j \in 1 .. lastJob /\ job[j] \in RowType
  BY DEF TypeOK
<1> QED
  BY <1>1, <1>2 DEF JobId

\* One worker's memory changes to a well-typed value.
LEMMA StepType ==
  ASSUME TypeOK, NEW w \in Workers, NEW r \in WorkerType, Step(w, r)
  PROVE  worker' \in [Workers -> WorkerType]
  BY DEF TypeOK, Step

\* One row changes to a well-typed value; no row appears or goes.
LEMMA RowUpdateType ==
  ASSUME TypeOK, NEW j \in Jobs, NEW r \in RowType, job' = [job EXCEPT ![j] = r], UNCHANGED lastJob
  PROVE  /\ Jobs' = Jobs
         /\ Jobs' \subseteq 1 .. lastJob' /\ job' \in [Jobs' -> RowType]
  BY DEF TypeOK, Jobs

\* Releasing a row leaves it well-typed.
LEMMA ReleasedType ==
  ASSUME NEW r \in RowType, NEW s \in ActiveStatus \cup TerminalStatus
  PROVE  /\ Released(r, s) \in RowType
         /\ Closed(r, s) \in RowType
<1>1. NoLease \in 0 .. FreshLease /\ NoToken \in Nat \X Nat
  BY ConstantsAssumption DEF ConstantsAssumption, NoLease, FreshLease, NoToken
<1>2. Released(r, s) \in RowType
  BY Zenon, <1>1 DEF Released, RowType
<1>3. Closed(r, s) \in RowType
  BY Zenon, <1>2 DEF Closed, RowType
<1> QED
  BY <1>2, <1>3 DEF RowType

\* Deleting checkpoints leaves the table well-typed.
LEMMA DropType ==
  ASSUME TypeOK, NEW S, DropCheckpoints(S)
  PROVE  checkpoint' \in [JobId -> [base : Nat, lines : SUBSET Lines]]
  BY DEF TypeOK, DropCheckpoints, NoCheckpoint

\* Finishing the open attempt of a job replaces the last row of its audit trail.
LEMMA FinishType ==
  ASSUME TypeOK, NEW j \in Jobs, AttemptOpen(j), NEW o \in Outcomes, NEW n \in Nat
  PROVE  /\ j \in JobId
         /\ FinishAttempt(j, o, n) \in Seq([outcome : Outcomes, result : Nat])
         /\ Len(FinishAttempt(j, o, n)) = Len(attempt[j])
         /\ \A k \in 1 .. Len(attempt[j]) :
              FinishAttempt(j, o, n)[k] = IF k = job[j].attempts THEN [outcome |-> o, result |-> n] ELSE attempt[j][k]
<1> DEFINE A == [outcome : Outcomes, result : Nat]
<1>1. j \in JobId
  BY ConstantsAssumption DEF TypeOK, JobId, ConstantsAssumption
<1>2. attempt[j] \in Seq(A)
  BY Zenon, <1>1 DEF TypeOK
<1>3. [outcome |-> o, result |-> n] \in A
  OBVIOUS
<1>4. job[j].attempts \in 1 .. Len(attempt[j])
  BY <1>2 DEF AttemptOpen
<1> QED
  BY <1>1, <1>2, <1>3, <1>4, ExceptSeq DEF FinishAttempt

\* A worker that holds no job, and one that has just claimed, are well-typed.
LEMMA WorkerTypes ==
  ASSUME TypeOK
  PROVE  /\ IdleWorker \in WorkerType
         /\ \A j \in Jobs, n \in 0 .. MaxAttempts : ClaimedWorker(j, n) \in WorkerType
         /\ \A w \in Workers, e \in Errors : Failing(w, e) \in WorkerType
<1>1. IdleWorker \in WorkerType
  BY ConstantsAssumption DEF ConstantsAssumption, IdleWorker, WorkerType, NoToken
<1>2. ASSUME NEW j \in Jobs, NEW n \in 0 .. MaxAttempts PROVE ClaimedWorker(j, n) \in WorkerType
  <2>1. j \in 0 .. MaxJobs /\ job[j].input \in Nat /\ NewLeaseOwner(j, n) \in Nat \X Nat
    BY ConstantsAssumption DEF TypeOK, RowType, NewLeaseOwner, ConstantsAssumption
  <2> QED
    BY Zenon, <1>1, <2>1 DEF ClaimedWorker, WorkerType, Processing
<1>3. ASSUME NEW w \in Workers, NEW e \in Errors PROVE Failing(w, e) \in WorkerType
  <2>1. worker[w] \in WorkerType
    BY DEF TypeOK
  <2> QED
    BY Zenon, <2>1 DEF Failing, WorkerType
<1> QED
  BY <1>1, <1>2, <1>3

\* The bookkeeping of an admission, and of the retention before it.
LEMMA AdmitType ==
  ASSUME TypeOK, NEW i \in Images, NEW c \in Contexts, NEW n \in Nat \ {0},
         NEW gone \in SUBSET TerminalJobs, Admit(i, c, n, gone)
  PROVE  /\ lastJob' \in 0 .. MaxJobs
         /\ Jobs' \subseteq 1 .. lastJob' /\ job' \in [Jobs' -> RowType]
         /\ attempt' \in [JobId -> Seq([outcome : Outcomes, result : Nat])]
         /\ checkpoint' \in [JobId -> [base : Nat, lines : SUBSET Lines]]
<1>1. lastJob' = lastJob + 1 /\ lastJob' \in 0 .. MaxJobs
  BY ConstantsAssumption DEF TypeOK, Admit, ConstantsAssumption
<1>2. NewRow(i, c, n) \in RowType
  BY ConstantsAssumption DEF NewRow, RowType, NoLease, NoToken, FreshLease, ActiveStatus, ConstantsAssumption
<1>3. ASSUME NEW j \in ActiveOn(i) PROVE Closed(job[j], "superseded") \in RowType
  BY ReleasedType DEF TypeOK, ActiveOn, ActiveJobs, TerminalStatus
<1>4. Jobs' = (Jobs \ gone) \cup {lastJob + 1}
  BY DEF Admit, Jobs
<1>5. Jobs' \subseteq 1 .. lastJob'
  BY <1>1, <1>4, IdTypes
<1>6. job' \in [Jobs' -> RowType]
  BY Zenon, <1>2, <1>3, <1>4 DEF TypeOK, Admit
<1>7. attempt' \in [JobId -> Seq([outcome : Outcomes, result : Nat])]
  <2>1. ASSUME NEW j \in ActiveOn(i), job[j].status = "running"
        PROVE  FinishAttempt(j, "superseded", 0) \in Seq([outcome : Outcomes, result : Nat])
    BY Zenon, <2>1, FinishType DEF Admit, ActiveOn, ActiveJobs, Outcomes
  <2>2. <<>> \in Seq([outcome : Outcomes, result : Nat])
    OBVIOUS
  <2> QED
    BY Zenon, <2>1, <2>2 DEF Admit, TypeOK
<1>8. checkpoint' \in [JobId -> [base : Nat, lines : SUBSET Lines]]
  BY DropType DEF Admit
<1> QED
  BY Zenon, <1>1, <1>5, <1>6, <1>7, <1>8

\* The bookkeeping of a claim.
LEMMA ClaimType ==
  ASSUME TypeOK, NEW w \in Workers, NEW dead \in SUBSET Exhausted,
         NEW taken, taken = {} \/ \E j \in Claimable : taken = {j}, Claim(w, dead, taken)
  PROVE  TypeOK'
<1>1. Jobs' = Jobs /\ lastJob' = lastJob
  BY Zenon DEF Claim, Jobs
<1>2. ASSUME NEW j \in taken
      PROVE  j \in Jobs /\ job[j].attempts + 1 \in 0 .. MaxAttempts
  BY ConstantsAssumption DEF Claimable, Due, TypeOK, RowType, ConstantsAssumption
<1>3. dead \subseteq Jobs
  BY DEF Exhausted
<1>4. ASSUME NEW j \in dead PROVE Closed(job[j], "failed") \in RowType
  BY <1>3, ReleasedType DEF TypeOK, TerminalStatus
<1>5. ASSUME NEW j \in taken
      PROVE  [job[j] EXCEPT !.status = "running", !.attempts = @ + 1, !.waiting = FALSE,
                            !.lease = FreshLease, !.token = NewLeaseOwner(j, job[j].attempts + 1),
                            !.lastResult = FALSE] \in RowType
  <2>1. NewLeaseOwner(j, job[j].attempts + 1) \in Nat \X Nat
    BY <1>2, IdTypes DEF NewLeaseOwner
  <2>2. FreshLease \in 0 .. FreshLease /\ "running" \in ActiveStatus
    BY ConstantsAssumption DEF FreshLease, ConstantsAssumption, ActiveStatus
  <2>3. job[j] \in RowType
    BY Zenon, <1>2 DEF TypeOK
  <2> QED
    BY Zenon, <1>2, <2>1, <2>2, <2>3 DEF RowType
<1>6. job' \in [Jobs' -> RowType]
  BY Zenon, <1>1, <1>3, <1>4, <1>5 DEF Claim, TypeOK
<1>7. attempt' \in [JobId -> Seq([outcome : Outcomes, result : Nat])]
  <2> DEFINE A == [outcome : Outcomes, result : Nat]
             closed(j) == IF j \in dead \cup taken /\ job[j].status = "running"
                          THEN FinishAttempt(j, "lease_expired", 0) ELSE attempt[j]
  <2>1. ASSUME NEW j \in JobId PROVE closed(j) \in Seq(A)
    <3>1. CASE j \in dead \cup taken /\ job[j].status = "running"
      BY Zenon, <1>2, <1>3, <3>1, FinishType DEF Claim, Outcomes
    <3>2. CASE ~(j \in dead \cup taken /\ job[j].status = "running")
      BY Zenon, <3>2 DEF TypeOK
    <3> QED
      BY <3>1, <3>2
  <2>2. [outcome |-> "running", result |-> 0] \in A
    BY DEF Outcomes
  <2>3. attempt' = [j \in JobId |-> IF j \in taken THEN Append(closed(j), [outcome |-> "running", result |-> 0])
                                    ELSE closed(j)]
    BY Zenon DEF Claim
  <2> HIDE DEF closed, A
  <2>4. ASSUME NEW j \in JobId PROVE Append(closed(j), [outcome |-> "running", result |-> 0]) \in Seq(A)
    BY <2>1, <2>2, AppendProperties
  <2> QED
    BY Zenon, <2>1, <2>3, <2>4 DEF A
<1>8. checkpoint' \in [JobId -> [base : Nat, lines : SUBSET Lines]]
  BY Zenon, DropType DEF Claim
<1>9. worker' \in [Workers -> WorkerType]
  <2>1. CASE taken = {}
    BY <2>1 DEF Claim, TypeOK
  <2>2. CASE taken # {}
    <3>1. (CHOOSE j \in taken : TRUE) \in taken
      BY <2>2
    <3> QED
      BY Zenon, <1>2, <2>2, <3>1, WorkerTypes DEF Claim, TypeOK
  <2> QED
    BY <2>1, <2>2
<1> QED
  BY Zenon, <1>1, <1>6, <1>7, <1>8, <1>9 DEF Claim, TypeOK

--------------------------------------------------------------------------------
(* Types *)

\* One more revision of a page.
LEMMA WriteType ==
  ASSUME TypeOK, NEW i \in Images, NEW from \in Nat, NEW by \in 0 .. MaxJobs, Write(i, from, by)
  PROVE  written' \in [Images -> Seq([base : Nat, job : 0 .. MaxJobs])]
<1>1. [base |-> from, job |-> by] \in [base : Nat, job : 0 .. MaxJobs]
  OBVIOUS
<1>2. written[i] \in Seq([base : Nat, job : 0 .. MaxJobs])
  BY Zenon DEF TypeOK
<1>3. Append(written[i], [base |-> from, job |-> by]) \in Seq([base : Nat, job : 0 .. MaxJobs])
  BY <1>1, <1>2, AppendProperties
<1> QED
  BY Zenon, <1>3 DEF TypeOK, Write

\* One more event of a job.
LEMMA EventType ==
  ASSUME TypeOK, NEW j, NEW t \in {"completed", "failed", "reprocessed"}, event' = [event EXCEPT ![j] = Append(@, t)]
  PROVE  event' \in [JobId -> Seq({"completed", "failed", "reprocessed"})]
<1>1. \A k \in JobId : Append(event[k], t) \in Seq({"completed", "failed", "reprocessed"})
  BY AppendProperties DEF TypeOK
<1> QED
  BY Zenon, <1>1 DEF TypeOK

\* Revisions are numbers, and one more is the next.
LEMMA RevisionType ==
  ASSUME TypeOK, NEW i \in Images
  PROVE  Revision(i) \in Nat
  BY DEF TypeOK, Revision

\* A worker that passes the fence names a live row.
LEMMA FenceType ==
  ASSUME TypeOK, NEW w \in Workers, FenceHolds(w)
  PROVE  worker[w].job \in Jobs
  BY DEF FenceHolds

\* Every transition keeps the tables and the workers' memory well-typed.
LEMMA TypeStep ==
  ASSUME TypeOK, Next
  PROVE  TypeOK'
<1> USE DEF store
<1>0. 0 \in Nat /\ 0 \in 0 .. MaxJobs
  BY IdTypes
<1>1. ASSUME NEW i \in Images, CreatePage(i) PROVE TypeOK'
  <2>1. written' \in [Images -> Seq([base : Nat, job : 0 .. MaxJobs])]
    BY Zenon, <1>1, <1>0, WriteType DEF CreatePage
  <2> QED
    BY Zenon, <1>1, <2>1 DEF CreatePage, TypeOK, Jobs
<1>2. ASSUME NEW x \in Editors, NEW i \in Images, OpenPage(x, i) PROVE TypeOK'
  <2>1. editor' \in [Editors -> [Images -> Nat]]
    BY Zenon, <1>2, RevisionType DEF OpenPage, TypeOK
  <2> QED
    BY Zenon, <1>2, <2>1 DEF OpenPage, TypeOK, Jobs
<1>3. ASSUME NEW x \in Editors, NEW i \in Images, SavePage(x, i) PROVE TypeOK'
  <2>1. written' \in [Images -> Seq([base : Nat, job : 0 .. MaxJobs])]
    BY Zenon, <1>3, <1>0, WriteType, RevisionType DEF SavePage
  <2>2. Revision(i) + 1 \in Nat
    BY RevisionType
  <2>3. editor' \in [Editors -> [Images -> Nat]]
    BY <1>3, <2>2 DEF SavePage, TypeOK
  <2> QED
    BY Zenon, <1>3, <2>1, <2>3 DEF SavePage, TypeOK, Jobs
<1>4. ASSUME NEW i \in Images, NEW c \in Contexts, CreateJob(i, c) PROVE TypeOK'
  <2>1. PICK gone \in Expendable : IF \E j \in ActiveOn(i) : Matches(j, i, c)
                                  THEN Retain(gone) /\ UNCHANGED lastJob
                                  ELSE Admit(i, c, Revision(i), gone)
    BY <1>4 DEF CreateJob
  <2>2. gone \subseteq TerminalJobs
    BY DEF Expendable
  <2>3. CASE Retain(gone) /\ UNCHANGED lastJob
    <3>1. Jobs' = Jobs \ gone /\ job' \in [Jobs' -> RowType]
      BY <2>3 DEF Retain, Jobs, TypeOK
    <3>2. attempt' \in [JobId -> Seq([outcome : Outcomes, result : Nat])]
      <4>1. <<>> \in Seq([outcome : Outcomes, result : Nat])
        OBVIOUS
      <4> QED
        BY Zenon, <2>3, <4>1 DEF Retain, TypeOK
    <3>3. checkpoint' \in [JobId -> [base : Nat, lines : SUBSET Lines]]
      BY <2>3, DropType DEF Retain
    <3> QED
      BY Zenon, <1>4, <2>3, <3>1, <3>2, <3>3 DEF CreateJob, TypeOK
  <2>4. CASE Admit(i, c, Revision(i), gone)
    <3>1. Revision(i) \in Nat \ {0}
      BY <1>4, RevisionType DEF CreateJob
    <3> QED
      BY Zenon, <1>4, <2>2, <2>4, <3>1, AdmitType DEF CreateJob, TypeOK
  <2> QED
    BY <2>1, <2>3, <2>4
<1>5. ASSUME NEW x \in Editors, NEW i \in Images, NEW c \in Contexts, Reprocess(x, i, c) PROVE TypeOK'
  <2>1. written' \in [Images -> Seq([base : Nat, job : 0 .. MaxJobs])]
    BY Zenon, <1>5, <1>0, WriteType, RevisionType DEF Reprocess
  <2>2. Revision(i) + 1 \in Nat \ {0}
    BY RevisionType
  <2>3. editor' \in [Editors -> [Images -> Nat]]
    BY <1>5, <2>2 DEF Reprocess, TypeOK
  <2>4. PICK gone \in Expendable : Admit(i, c, Revision(i) + 1, gone)
    BY <1>5 DEF Reprocess
  <2>5. gone \subseteq TerminalJobs
    BY DEF Expendable
  <2>6. event' \in [JobId -> Seq({"completed", "failed", "reprocessed"})]
    BY Zenon, <1>5, EventType, "reprocessed" \in {"completed", "failed", "reprocessed"} DEF Reprocess
  <2> QED
    BY Zenon, <1>5, <2>1, <2>2, <2>3, <2>4, <2>5, <2>6, AdmitType DEF Reprocess, TypeOK
<1>6. ASSUME NEW j \in JobId, Cancel(j) PROVE TypeOK'
  <2>1. j \in Jobs /\ Closed(job[j], "canceled") \in RowType
    BY <1>6, IdTypes, ReleasedType DEF Cancel, ActiveJobs, TerminalStatus
  <2>2. Jobs' = Jobs /\ Jobs' \subseteq 1 .. lastJob' /\ job' \in [Jobs' -> RowType]
    BY Zenon, <1>6, <2>1, RowUpdateType DEF Cancel
  <2>3. attempt' \in [JobId -> Seq([outcome : Outcomes, result : Nat])]
    <3>1. CASE job[j].status = "running"
      BY Zenon, <1>6, <2>1, <3>1, FinishType DEF Cancel, Outcomes, TypeOK
    <3>2. CASE job[j].status # "running"
      BY Zenon, <1>6, <3>2 DEF Cancel, TypeOK
    <3> QED
      BY Zenon, <3>1, <3>2
  <2> QED
    BY Zenon, <1>6, <2>2, <2>3, DropType DEF Cancel, TypeOK
<1>7. ASSUME NEW j \in JobId, LeaseElapses(j) PROVE TypeOK'
  <2>1. j \in Jobs /\ [job[j] EXCEPT !.lease = @ - 1] \in RowType
    BY <1>7, IdTypes, ConstantsAssumption DEF LeaseElapses, RowType, FreshLease, ConstantsAssumption
  <2>2. Jobs' = Jobs /\ Jobs' \subseteq 1 .. lastJob' /\ job' \in [Jobs' -> RowType]
    BY Zenon, <1>7, <2>1, RowUpdateType DEF LeaseElapses
  <2> QED
    BY Zenon, <1>7, <2>2 DEF LeaseElapses, TypeOK
<1>8. ASSUME NEW j \in JobId, RetryElapses(j) PROVE TypeOK'
  <2>1. j \in Jobs /\ [job[j] EXCEPT !.waiting = FALSE] \in RowType
    BY Zenon, <1>8, IdTypes DEF RetryElapses, RowType
  <2>2. Jobs' = Jobs /\ Jobs' \subseteq 1 .. lastJob' /\ job' \in [Jobs' -> RowType]
    BY Zenon, <1>8, <2>1, RowUpdateType DEF RetryElapses
  <2> QED
    BY Zenon, <1>8, <2>2 DEF RetryElapses, TypeOK
<1>9. ASSUME NEW w \in Workers, NEW j \in JobId, ClaimByID(w, j) PROVE TypeOK'
  BY <1>9, ClaimType DEF ClaimByID
<1>10. ASSUME NEW w \in Workers, ClaimNext(w) PROVE TypeOK'
  BY Zenon, <1>10, ClaimType DEF ClaimNext
<1>11. ASSUME NEW w \in Workers, LoadPage(w) PROVE TypeOK'
  <2> DEFINE me == worker[w]
             current == Revision(job[me.job].image)
             loaded == [me EXCEPT !.pc = "loaded", !.base = current]
  <2>1. current \in Nat
    BY <1>11, IdTypes, RevisionType DEF LoadPage, RowType
  <2>2. me \in WorkerType
    BY DEF TypeOK
  <2> HIDE DEF me, current
  <2>3. loaded \in WorkerType
    BY Zenon, <2>1, <2>2 DEF WorkerType, Processing
  <2>4. worker' \in [Workers -> WorkerType]
    BY <1>11, <2>3, WorkerTypes, StepType DEF LoadPage, me, current, Errors
  <2> QED
    BY Zenon, <1>11, <2>4 DEF LoadPage, TypeOK, Jobs
<1>12. ASSUME NEW w \in Workers, RestoreCheckpoint(w) PROVE TypeOK'
  <2> DEFINE me == worker[w]
             saved == checkpoint[me.job]
  <2>1. me \in WorkerType /\ saved.base \in Nat
    BY Zenon, <1>12, FenceType, IdTypes DEF TypeOK, RestoreCheckpoint
  <2>2. Recognised(me.job, saved.lines) \in [Lines -> {"todo", "busy", "saved", "done", "failed"}]
    BY DEF Recognised
  <2> HIDE DEF me, saved
  <2>3. [me EXCEPT !.pc = "lines", !.base = saved.base, !.line = Recognised(me.job, saved.lines)] \in WorkerType
    BY Zenon, <2>1, <2>2 DEF WorkerType, Processing
  <2>4. [me EXCEPT !.pc = "segment"] \in WorkerType
    BY <2>1 DEF WorkerType, Processing
  <2>5. worker' \in [Workers -> WorkerType]
    BY <1>12, <2>3, <2>4, StepType DEF RestoreCheckpoint, me, saved
  <2>6. checkpoint' \in [JobId -> [base : Nat, lines : SUBSET Lines]]
    BY Zenon, <1>12, DropType DEF RestoreCheckpoint, TypeOK
  <2> QED
    BY Zenon, <1>12, <2>5, <2>6 DEF RestoreCheckpoint, TypeOK, Jobs
<1>13. ASSUME NEW w \in Workers, SegmentPage(w) PROVE TypeOK'
  <2> DEFINE me == worker[w]
  <2>1. me \in WorkerType
    BY DEF TypeOK
  <2>2. Recognised(me.job, {}) \in [Lines -> {"todo", "busy", "saved", "done", "failed"}]
    BY DEF Recognised
  <2> HIDE DEF me
  <2>3. [me EXCEPT !.pc = "lines", !.line = Recognised(me.job, {})] \in WorkerType
    BY Zenon, <2>1, <2>2 DEF WorkerType, Processing
  <2>4. worker' \in [Workers -> WorkerType]
    BY <1>13, <2>3, StepType DEF SegmentPage, me
  <2>5. me.base \in Nat
    BY <2>1 DEF WorkerType
  <2>6. checkpoint' \in [JobId -> [base : Nat, lines : SUBSET Lines]]
    BY Zenon, <1>13, <2>5 DEF SegmentPage, TypeOK, me
  <2> QED
    BY Zenon, <1>13, <2>4, <2>6 DEF SegmentPage, TypeOK, Jobs
<1>14. ASSUME NEW w \in Workers, NEW l \in Lines, NEW s \in {"todo", "busy", "saved", "done", "failed"}, NEW r \in BOOLEAN
       PROVE  MarkLine(w, l, s) \in WorkerType /\ [MarkLine(w, l, s) EXCEPT !.retry = @ \/ r] \in WorkerType
  <2>1. worker[w] \in WorkerType
    BY DEF TypeOK
  <2>2. MarkLine(w, l, s) \in WorkerType
    BY <2>1 DEF MarkLine, WorkerType
  <2> HIDE DEF MarkLine
  <2>3. MarkLine(w, l, s).retry \in BOOLEAN
    BY <2>2 DEF WorkerType
  <2>4. (MarkLine(w, l, s).retry \/ r) \in BOOLEAN
    BY <2>3
  <2> QED
    BY <2>2, <2>4 DEF WorkerType
<1>15. ASSUME NEW w \in Workers, NEW r \in BOOLEAN, UpdateProgress(w, r), UNCHANGED lastJob
       PROVE  Jobs' = Jobs /\ Jobs' \subseteq 1 .. lastJob' /\ job' \in [Jobs' -> RowType]
  <2>1. worker[w].job \in Jobs /\ job[worker[w].job] \in RowType
    BY <1>15, FenceType, IdTypes DEF UpdateProgress
  <2>2. [job[worker[w].job] EXCEPT !.lastResult = r] \in RowType
    BY <2>1 DEF RowType
  <2> QED
    BY Zenon, <1>15, <2>1, <2>2, RowUpdateType DEF UpdateProgress
<1>16. ASSUME NEW w \in Workers, NEW l \in Lines, StartLine(w, l) PROVE TypeOK'
  <2>1. worker' \in [Workers -> WorkerType]
    BY Zenon, <1>16, <1>14, StepType DEF StartLine
  <2> QED
    BY Zenon, <1>16, <1>15, <2>1 DEF StartLine, TypeOK
<1>17. ASSUME NEW w \in Workers, NEW l \in Lines, SaveLine(w, l) PROVE TypeOK'
  <2>1. worker' \in [Workers -> WorkerType]
    BY Zenon, <1>17, <1>14, StepType DEF SaveLine
  <2>2. checkpoint' \in [JobId -> [base : Nat, lines : SUBSET Lines]]
    BY Zenon, <1>17 DEF SaveLine, TypeOK
  <2> QED
    BY Zenon, <1>17, <2>1, <2>2 DEF SaveLine, TypeOK, Jobs
<1>18. ASSUME NEW w \in Workers, NEW l \in Lines, ReportLine(w, l) PROVE TypeOK'
  <2>1. worker' \in [Workers -> WorkerType]
    BY Zenon, <1>18, <1>14, StepType DEF ReportLine
  <2> QED
    BY Zenon, <1>18, <1>15, <2>1 DEF ReportLine, TypeOK
<1>19. ASSUME NEW w \in Workers, NEW l \in Lines, NEW r \in BOOLEAN, FailLine(w, l, r) PROVE TypeOK'
  <2>1. worker' \in [Workers -> WorkerType]
    BY <1>19, <1>14, StepType DEF FailLine
  <2> QED
    BY Zenon, <1>19, <1>15, <2>1 DEF FailLine, TypeOK
<1>20. ASSUME NEW w \in Workers, FinishLines(w) PROVE TypeOK'
  <2>1. [worker[w] EXCEPT !.pc = "commit"] \in WorkerType
    <3>1. worker[w] \in WorkerType
      BY DEF TypeOK
    <3> QED
      BY <3>1 DEF WorkerType, Processing
  <2>2. Failing(w, "retryable") \in WorkerType /\ Failing(w, "permanent") \in WorkerType
    BY WorkerTypes DEF Errors
  <2>3. worker' \in [Workers -> WorkerType]
    BY <1>20, <2>1, <2>2, StepType DEF FinishLines
  <2> QED
    BY Zenon, <1>20, <2>3 DEF FinishLines, TypeOK, Jobs
<1>21. ASSUME NEW w \in Workers, CommitPage(w) PROVE TypeOK'
  <2> DEFINE j == worker[w].job
             i == job[j].image
  <2>1. j \in Jobs /\ j \in JobId /\ job[j] \in RowType /\ i \in Images /\ j \in 0 .. MaxJobs /\ worker[w].base \in Nat
    BY Zenon, <1>21, FenceType, IdTypes DEF CommitPage, RowType, TypeOK, WorkerType
  <2>2. CASE Revision(i) = worker[w].input
    <3>1. written' \in [Images -> Seq([base : Nat, job : 0 .. MaxJobs])]
      BY Zenon, <1>21, <2>1, <2>2, WriteType DEF CommitPage
    <3>2. Closed(job[j], "completed") \in RowType
      BY <2>1, ReleasedType DEF TerminalStatus
    <3>3. Jobs' = Jobs /\ Jobs' \subseteq 1 .. lastJob' /\ job' \in [Jobs' -> RowType]
      BY <1>21, <2>1, <2>2, <3>2, RowUpdateType DEF CommitPage
    <3>4. Revision(i) + 1 \in Nat /\ "completed" \in Outcomes
      BY <2>1, RevisionType DEF Outcomes
    <3>5. FinishAttempt(j, "completed", Revision(i) + 1) \in Seq([outcome : Outcomes, result : Nat])
      BY Zenon, <1>21, <2>1, <2>2, <3>4, FinishType DEF CommitPage
    <3>6. attempt' \in [JobId -> Seq([outcome : Outcomes, result : Nat])]
      BY Zenon, <1>21, <2>1, <2>2, <3>5 DEF CommitPage, TypeOK
    <3>7. checkpoint' \in [JobId -> [base : Nat, lines : SUBSET Lines]]
      BY <1>21, <2>2, DropType DEF CommitPage
    <3>8. event' \in [JobId -> Seq({"completed", "failed", "reprocessed"})]
      BY <1>21, <2>2, EventType, "completed" \in {"completed", "failed", "reprocessed"} DEF CommitPage
    <3>9. worker' \in [Workers -> WorkerType]
      BY <1>21, <2>2, WorkerTypes, StepType DEF CommitPage
    <3> QED
      BY Zenon, <1>21, <3>1, <3>3, <3>6, <3>7, <3>8, <3>9 DEF CommitPage, TypeOK
  <2>3. CASE Revision(i) # worker[w].input
    <3>1. worker' \in [Workers -> WorkerType]
      BY <1>21, <2>3, WorkerTypes, StepType DEF CommitPage, Errors
    <3> QED
      BY Zenon, <1>21, <2>3, <3>1 DEF CommitPage, TypeOK, Jobs
  <2> QED
    BY <2>2, <2>3
<1>22. ASSUME NEW w \in Workers, NEW error \in Errors, Abort(w, error) PROVE TypeOK'
  <2>1. worker' \in [Workers -> WorkerType]
    BY <1>22, WorkerTypes, StepType DEF Abort
  <2> QED
    BY Zenon, <1>22, <2>1 DEF Abort, TypeOK, Jobs
<1>23. ASSUME NEW w \in Workers, RecordFailure(w) PROVE TypeOK'
  <2> DEFINE j == worker[w].job
             terminal == FailsJob(job[j], worker[w].error)
  <2>1. j \in Jobs /\ j \in JobId /\ job[j] \in RowType
    BY <1>23, FenceType, IdTypes DEF RecordFailure
  <2>2. PICK r \in RowType : job' = [job EXCEPT ![j] = r]
    <3> DEFINE status == IF terminal THEN "failed" ELSE "pending"
               ended == IF worker[w].error = "retryable" THEN Released(job[j], status) ELSE Closed(job[j], status)
    <3>1. status \in ActiveStatus \cup TerminalStatus /\ (~terminal) \in BOOLEAN
      BY DEF ActiveStatus, TerminalStatus, FailsJob
    <3> HIDE DEF status, terminal
    <3>2. ended \in RowType
      BY <2>1, <3>1, ReleasedType
    <3>3. job' = [job EXCEPT ![j] = [ended EXCEPT !.waiting = ~terminal]]
      BY <1>23 DEF RecordFailure, terminal, status
    <3> HIDE DEF ended
    <3>4. [ended EXCEPT !.waiting = ~terminal] \in RowType
      BY Zenon, <3>1, <3>2 DEF RowType
    <3> QED
      BY Zenon, <3>3, <3>4
  <2>3. Jobs' = Jobs /\ Jobs' \subseteq 1 .. lastJob' /\ job' \in [Jobs' -> RowType]
    BY Zenon, <1>23, <2>1, <2>2, RowUpdateType DEF RecordFailure
  <2>4. attempt' \in [JobId -> Seq([outcome : Outcomes, result : Nat])]
    <3>1. "failed" \in Outcomes /\ "retryable_failed" \in Outcomes /\ 0 \in Nat
      BY DEF Outcomes
    <3>2. \A o \in Outcomes : FinishAttempt(j, o, 0) \in Seq([outcome : Outcomes, result : Nat])
      BY Zenon, <1>23, <2>1, FinishType DEF RecordFailure
    <3> QED
      BY Zenon, <1>23, <2>1, <3>1, <3>2 DEF RecordFailure, TypeOK
  <2>5. checkpoint' \in [JobId -> [base : Nat, lines : SUBSET Lines]]
    BY <1>23, DropType DEF RecordFailure
  <2>6. event' \in [JobId -> Seq({"completed", "failed", "reprocessed"})]
    <3>1. CASE event' = event
      BY <3>1 DEF TypeOK
    <3>2. CASE event' # event
      <4>1. event' = [event EXCEPT ![j] = Append(@, "failed")]
        BY <1>23, <3>2 DEF RecordFailure, FailureEvent
      <4> QED
        BY Zenon, <4>1, EventType, "failed" \in {"completed", "failed", "reprocessed"}
    <3> QED
      BY <3>1, <3>2
  <2>7. worker' \in [Workers -> WorkerType]
    BY <1>23, WorkerTypes, StepType DEF RecordFailure
  <2> QED
    BY Zenon, <1>23, <2>3, <2>4, <2>5, <2>6, <2>7 DEF RecordFailure, TypeOK
<1>24. ASSUME NEW w \in Workers, LoseLease(w) \/ Crash(w) PROVE TypeOK'
  <2>1. worker' \in [Workers -> WorkerType]
    BY <1>24, WorkerTypes, StepType DEF LoseLease, Crash
  <2> QED
    BY Zenon, <1>24, <2>1 DEF LoseLease, Crash, TypeOK, Jobs
<1>25. ASSUME NEW w \in Workers, Heartbeat(w) PROVE TypeOK'
  <2>1. worker[w].job \in Jobs /\ job[worker[w].job] \in RowType
    BY <1>25, FenceType, IdTypes DEF Heartbeat
  <2>2. [job[worker[w].job] EXCEPT !.lease = FreshLease] \in RowType
    BY <2>1, ConstantsAssumption DEF RowType, FreshLease, ConstantsAssumption
  <2>3. Jobs' = Jobs /\ Jobs' \subseteq 1 .. lastJob' /\ job' \in [Jobs' -> RowType]
    BY Zenon, <1>25, <2>1, <2>2, RowUpdateType DEF Heartbeat
  <2> QED
    BY Zenon, <1>25, <2>3 DEF Heartbeat, TypeOK
<1> QED
  BY <1>1, <1>2, <1>3, <1>4, <1>5, <1>6, <1>7, <1>8, <1>9, <1>10, <1>11, <1>12, <1>13, <1>16, <1>17, <1>18,
     <1>19, <1>20, <1>21, <1>22, <1>23, <1>24, <1>25 DEF Next, WorkerStep

\* In every reachable state the rows and the workers' memory are well-typed.
THEOREM TypesHold == Spec => []TypeOK
<1>1. Init => TypeOK
  <2> SUFFICES ASSUME Init PROVE TypeOK
    OBVIOUS
  <2>1. Jobs = {} /\ job \in [Jobs -> RowType]
    BY DEF Init, Jobs
  <2>2. IdleWorker \in WorkerType
    BY ConstantsAssumption DEF ConstantsAssumption, IdleWorker, WorkerType, NoToken
  <2>3. NoCheckpoint \in [base : Nat, lines : SUBSET Lines]
    BY DEF NoCheckpoint
  <2>4. 0 \in 0 .. MaxJobs
    BY ConstantsAssumption DEF ConstantsAssumption
  <2> QED
    BY <2>1, <2>2, <2>3, <2>4 DEF Init, TypeOK
<1>2. TypeOK /\ [Next]_vars => TypeOK'
  <2>1. ASSUME TypeOK, UNCHANGED vars PROVE TypeOK'
    BY Zenon, <2>1 DEF TypeOK, vars, Jobs
  <2> QED
    BY <2>1, TypeStep
<1> QED
  BY <1>1, <1>2, PTL DEF Spec

--------------------------------------------------------------------------------
(* The queue rows and their audit trail *)

\* Only a running row has a lease or an owner.
LeaseState == \A j \in Jobs : job[j].status # "running" => job[j].lease = NoLease /\ job[j].token = NoToken

\* Ids that name no row have no audit trail: retention deletes both together.
NoOrphanAttempts == \A j \in JobId \ Jobs : attempt[j] = <<>>

\* The invariant of the queue and audit rows is inductive as a whole: a claim
\* needs the attempt count to name the last audit row, and a new row needs the
\* audit trail of its id to be empty.
RowInv ==
  /\ OneActiveJobPerImage
  /\ AttemptsMatchJob
  /\ NoStrandedJob
  /\ LeaseState
  /\ NoOrphanAttempts

\* What one row and its audit trail may do in a step: change neither status nor
\* trail, end without ever having been claimed, or leave the running state as its
\* attempt is finished.
RowChange(j, r) ==
  /\ r.image = job[j].image /\ r.attempts = job[j].attempts
  /\ r.status = "pending" => r.attempts < MaxAttempts
  /\ r.status # "running" => r.lease = NoLease /\ r.token = NoToken
  /\ \/ r.status = job[j].status /\ UNCHANGED attempt
     \/ job[j].status = "pending" /\ r.status \in TerminalStatus /\ UNCHANGED attempt
     \/ /\ job[j].status = "running" /\ r.status # "running" /\ AttemptOpen(j)
        /\ \E o \in Outcomes \ {"running"}, n \in Nat : attempt' = [attempt EXCEPT ![j] = FinishAttempt(j, o, n)]

\* Once the current attempt is finished, no attempt of the job is open.
LEMMA FinishMatches ==
  ASSUME TypeOK, AttemptsMatchJob, NEW j \in Jobs, job[j].status = "running", AttemptOpen(j),
         NEW o \in Outcomes, o # "running", NEW n \in Nat
  PROVE  /\ FinishAttempt(j, o, n) \in Seq([outcome : Outcomes, result : Nat])
         /\ Len(FinishAttempt(j, o, n)) = job[j].attempts
         /\ \A m \in DOMAIN FinishAttempt(j, o, n) : FinishAttempt(j, o, n)[m].outcome # "running"
<1> DEFINE f == FinishAttempt(j, o, n)
<1>1. /\ f \in Seq([outcome : Outcomes, result : Nat]) /\ Len(f) = Len(attempt[j])
      /\ \A m \in 1 .. Len(attempt[j]) : f[m] = IF m = job[j].attempts THEN [outcome |-> o, result |-> n] ELSE attempt[j][m]
  BY Zenon, FinishType
<1>2. attempt[j] \in Seq([outcome : Outcomes, result : Nat])
  BY Zenon, IdTypes DEF TypeOK
<1>3. /\ Len(attempt[j]) = job[j].attempts
      /\ \A m \in 1 .. Len(attempt[j]) : attempt[j][m].outcome = "running" <=> m = job[j].attempts
  BY <1>2 DEF AttemptsMatchJob
<1> HIDE DEF f
<1>4. \A m \in 1 .. Len(attempt[j]) : f[m].outcome # "running"
  BY <1>1, <1>3
<1>5. DOMAIN f = 1 .. Len(attempt[j])
  BY <1>1
<1> QED
  BY <1>1, <1>3, <1>4, <1>5 DEF f

\* A row change keeps the queue and the audit trail in step.
LEMMA RowChangeInv ==
  ASSUME TypeOK, RowInv, NEW j \in Jobs, NEW r \in RowType, RowChange(j, r),
         job' = [job EXCEPT ![j] = r], UNCHANGED lastJob
  PROVE  RowInv'
<1>1. Jobs' = Jobs /\ j \in JobId /\ \A k \in Jobs : job'[k] = IF k = j THEN r ELSE job[k]
  BY Zenon, IdTypes DEF Jobs, TypeOK
<1>2. r.status \in ActiveStatus => job[j].status \in ActiveStatus
  BY DEF RowChange, ActiveStatus, TerminalStatus
<1>3. OneActiveJobPerImage'
  <2>1. ActiveJobs' \subseteq ActiveJobs /\ \A k \in ActiveJobs' : job'[k].image = job[k].image
    BY <1>1, <1>2 DEF ActiveJobs, RowChange
  <2> QED
    BY <2>1 DEF RowInv, OneActiveJobPerImage
<1>4. NoStrandedJob'
  BY <1>1 DEF RowInv, NoStrandedJob, RowChange
<1>5. LeaseState'
  BY <1>1 DEF RowInv, LeaseState, RowChange
<1>6. \A k \in JobId \ {j} : attempt'[k] = attempt[k]
  BY <1>1 DEF RowChange, TypeOK
<1>7. NoOrphanAttempts'
  BY <1>1, <1>6 DEF RowInv, NoOrphanAttempts
<1>8. AttemptsMatchJob'
  <2> SUFFICES ASSUME NEW k \in Jobs
               PROVE  /\ Len(attempt'[k]) = job'[k].attempts
                      /\ \A n \in DOMAIN attempt'[k] :
                           attempt'[k][n].outcome = "running" <=> n = job'[k].attempts /\ job'[k].status = "running"
    BY <1>1 DEF AttemptsMatchJob
  <2>1. CASE k # j
    BY <1>1, <1>6, <2>1, IdTypes DEF RowInv, AttemptsMatchJob
  <2>2. CASE k = j /\ UNCHANGED attempt /\ (r.status = "running" <=> job[j].status = "running")
    BY <1>1, <2>2 DEF RowInv, AttemptsMatchJob, RowChange
  <2>3. CASE /\ k = j /\ job[j].status = "running" /\ r.status # "running" /\ AttemptOpen(j)
             /\ \E o \in Outcomes \ {"running"}, n \in Nat : attempt' = [attempt EXCEPT ![j] = FinishAttempt(j, o, n)]
    <3>1. PICK o \in Outcomes, n \in Nat : o # "running" /\ attempt' = [attempt EXCEPT ![j] = FinishAttempt(j, o, n)]
      BY Zenon, <2>3
    <3>2. attempt'[j] = FinishAttempt(j, o, n)
      BY <1>1, <3>1 DEF TypeOK
    <3>3. /\ Len(FinishAttempt(j, o, n)) = job[j].attempts
          /\ \A m \in DOMAIN FinishAttempt(j, o, n) : FinishAttempt(j, o, n)[m].outcome # "running"
      <4>1. AttemptsMatchJob /\ job[j].status = "running" /\ AttemptOpen(j)
        BY <2>3 DEF RowInv
      <4> QED
        BY <3>1, <4>1, FinishMatches
    <3> QED
      BY <1>1, <2>3, <3>2, <3>3 DEF RowChange
  <2>4. \/ UNCHANGED attempt /\ (r.status = "running" <=> job[j].status = "running")
        \/ /\ job[j].status = "running" /\ r.status # "running" /\ AttemptOpen(j)
           /\ \E o \in Outcomes \ {"running"}, n \in Nat : attempt' = [attempt EXCEPT ![j] = FinishAttempt(j, o, n)]
    BY DEF RowChange, TerminalStatus
  <2> QED
    BY <2>1, <2>2, <2>3, <2>4
<1> QED
  BY <1>3, <1>4, <1>5, <1>7, <1>8 DEF RowInv

\* Superseding the image's active job and inserting its successor keeps the queue
\* and the audit trail in step.
LEMMA AdmitInv ==
  ASSUME TypeOK, RowInv, NEW i \in Images, NEW c \in Contexts, NEW n \in Nat \ {0},
         NEW gone \in SUBSET TerminalJobs, Admit(i, c, n, gone)
  PROVE  RowInv'
<1> DEFINE new == lastJob + 1
<1>1. /\ Jobs' = (Jobs \ gone) \cup {new} /\ new \notin Jobs /\ new \in JobId
      /\ \A j \in Jobs : j \in JobId
  BY IdTypes DEF Admit, Jobs, JobId
<1>2. gone \cap ActiveOn(i) = {} /\ gone \subseteq Jobs /\ ActiveOn(i) \subseteq Jobs
  BY DEF TerminalJobs, ActiveOn, ActiveJobs, ActiveStatus, TerminalStatus
<1> HIDE DEF new
<1>3. /\ job'[new] = NewRow(i, c, n)
      /\ \A j \in Jobs \ gone : job'[j] = IF j \in ActiveOn(i) THEN Closed(job[j], "superseded") ELSE job[j]
  BY <1>1 DEF Admit, new
<1>4. \A j \in ActiveOn(i) : LET r == Closed(job[j], "superseded") IN
        /\ r.status = "superseded" /\ r.attempts = job[j].attempts /\ r.lease = NoLease /\ r.token = NoToken
  BY <1>2, IdTypes DEF Closed, Released, RowType
<1>5. OneActiveJobPerImage'
  <2>1. ActiveJobs' \subseteq (ActiveJobs \ ActiveOn(i)) \cup {new}
    BY <1>1, <1>3, <1>4 DEF ActiveJobs, ActiveStatus
  <2>2. \A j \in ActiveJobs \ ActiveOn(i) : job[j].image # i
    BY DEF ActiveOn
  <2>3. \A j \in ActiveJobs' : IF j = new THEN job'[j].image = i ELSE j \in ActiveJobs /\ job'[j].image = job[j].image /\ job[j].image # i
    BY <1>1, <1>3, <2>1, <2>2 DEF NewRow, ActiveJobs
  <2> QED
    BY <2>3 DEF RowInv, OneActiveJobPerImage
<1>6. NoStrandedJob'
  <2>1. NewRow(i, c, n).attempts < MaxAttempts
    BY ConstantsAssumption DEF NewRow, ConstantsAssumption
  <2> QED
    BY <1>1, <1>3, <1>4, <2>1 DEF RowInv, NoStrandedJob
<1>7. LeaseState'
  <2>1. NewRow(i, c, n).lease = NoLease /\ NewRow(i, c, n).token = NoToken
    BY DEF NewRow
  <2> QED
    BY <1>1, <1>3, <1>4, <2>1 DEF RowInv, LeaseState
<1>8. \A j \in JobId : attempt'[j] = IF j \in gone THEN <<>>
                                    ELSE IF j \in ActiveOn(i) /\ job[j].status = "running" THEN FinishAttempt(j, "superseded", 0)
                                    ELSE attempt[j]
  BY DEF Admit
<1>9. NoOrphanAttempts'
  BY <1>1, <1>2, <1>8 DEF RowInv, NoOrphanAttempts
<1>10. AttemptsMatchJob'
  <2> SUFFICES ASSUME NEW j \in Jobs'
               PROVE  /\ Len(attempt'[j]) = job'[j].attempts
                      /\ \A m \in DOMAIN attempt'[j] :
                           attempt'[j][m].outcome = "running" <=> m = job'[j].attempts /\ job'[j].status = "running"
    BY DEF AttemptsMatchJob
  <2>1. CASE j = new
    <3>1. attempt'[j] = <<>>
      BY <1>1, <1>2, <1>8, <2>1 DEF RowInv, NoOrphanAttempts
    <3>2. job'[j].attempts = 0
      BY <1>3, <2>1 DEF NewRow
    <3> QED
      BY <3>1, <3>2
  <2>2. CASE j \in ActiveOn(i) /\ job[j].status = "running"
    <3>1. /\ attempt'[j] = FinishAttempt(j, "superseded", 0)
          /\ job'[j].status = "superseded" /\ job'[j].attempts = job[j].attempts
      BY <1>1, <1>2, <1>3, <1>4, <1>8, <2>2
    <3>2. AttemptOpen(j) /\ "superseded" \in Outcomes
      BY <2>2 DEF Admit, Outcomes
    <3> QED
      BY <1>2, <2>2, <3>1, <3>2, FinishMatches DEF RowInv
  <2>3. CASE j \in ActiveOn(i) /\ job[j].status # "running"
    <3>1. attempt'[j] = attempt[j] /\ job'[j].status = "superseded" /\ job'[j].attempts = job[j].attempts
      BY <1>1, <1>2, <1>3, <1>4, <1>8, <2>3
    <3> QED
      BY <1>2, <2>3, <3>1 DEF RowInv, AttemptsMatchJob
  <2>4. CASE j # new /\ j \notin ActiveOn(i)
    <3>1. j \in Jobs /\ attempt'[j] = attempt[j] /\ job'[j] = job[j]
      BY <1>1, <1>3, <1>8, <2>4
    <3> QED
      BY <3>1 DEF RowInv, AttemptsMatchJob
  <2> QED
    BY <2>1, <2>2, <2>3, <2>4
<1> QED
  BY <1>5, <1>6, <1>7, <1>9, <1>10 DEF RowInv

\* A claim closes the attempts of the jobs it fails and of the one it reclaims,
\* and opens one attempt of the job it takes.
LEMMA ClaimInv ==
  ASSUME TypeOK, RowInv, NEW w \in Workers, NEW dead \in SUBSET Exhausted,
         NEW taken, taken = {} \/ \E j \in Claimable : taken = {j}, Claim(w, dead, taken)
  PROVE  RowInv'
<1>1. /\ Jobs' = Jobs /\ dead \subseteq Jobs /\ taken \subseteq Claimable /\ Claimable \subseteq Jobs
      /\ dead \cap taken = {} /\ \A j \in Jobs : j \in JobId
  <2>1. Jobs' = Jobs
    BY Zenon DEF Claim, Jobs
  <2>2. Exhausted \cap Claimable = {}
    <3>1. ASSUME NEW j \in Exhausted, j \in Claimable PROVE FALSE
      <4>1. job[j].attempts \in Nat /\ MaxAttempts \in Nat
        BY IdTypes DEF Exhausted, RowType
      <4> QED
        BY <3>1, <4>1 DEF Exhausted, Claimable, Due, Expired
    <3> QED
      BY <3>1
  <2> QED
    BY <2>1, <2>2, IdTypes DEF Exhausted, Claimable
<1> DEFINE leased(j) == [job[j] EXCEPT !.status = "running", !.attempts = @ + 1, !.waiting = FALSE,
                                       !.lease = FreshLease, !.token = NewLeaseOwner(j, job[j].attempts + 1),
                                       !.lastResult = FALSE]
<1>2. \A j \in Jobs : job'[j] = IF j \in dead THEN Closed(job[j], "failed") ELSE IF j \in taken THEN leased(j) ELSE job[j]
  BY Zenon, <1>1 DEF Claim
<1>3. \A j \in dead : LET r == Closed(job[j], "failed") IN
        /\ r.status = "failed" /\ r.image = job[j].image /\ r.attempts = job[j].attempts
        /\ r.lease = NoLease /\ r.token = NoToken
  BY <1>1, IdTypes DEF Closed, Released, RowType
<1>4. \A j \in taken : leased(j).status = "running" /\ leased(j).image = job[j].image /\ leased(j).attempts = job[j].attempts + 1
  BY <1>1, IdTypes DEF RowType
<1> HIDE DEF leased
<1>5. dead \subseteq ActiveJobs /\ taken \subseteq ActiveJobs
  BY <1>1 DEF ActiveJobs, ActiveStatus, Exhausted, Claimable, Due, Expired
<1>6. OneActiveJobPerImage'
  <2>1. ActiveJobs' \subseteq ActiveJobs
    BY <1>1, <1>2, <1>5 DEF ActiveJobs
  <2>2. \A j \in Jobs : job'[j].image = job[j].image
    BY <1>2, <1>3, <1>4
  <2> QED
    BY <1>1, <2>1, <2>2 DEF RowInv, OneActiveJobPerImage, ActiveJobs
<1>7. NoStrandedJob'
  BY <1>1, <1>2, <1>3, <1>4 DEF RowInv, NoStrandedJob
<1>8. LeaseState'
  BY <1>1, <1>2, <1>3, <1>4 DEF RowInv, LeaseState
<1> DEFINE open == [outcome |-> "running", result |-> 0]
           closed(j) == IF j \in dead \cup taken /\ job[j].status = "running"
                        THEN FinishAttempt(j, "lease_expired", 0) ELSE attempt[j]
<1>9. \A j \in JobId : attempt'[j] = IF j \in taken THEN Append(closed(j), open) ELSE closed(j)
  BY Zenon DEF Claim
<1>10. NoOrphanAttempts'
  BY <1>1, <1>9 DEF RowInv, NoOrphanAttempts
<1>11. \A j \in dead \cup taken :
         /\ closed(j) \in Seq([outcome : Outcomes, result : Nat]) /\ Len(closed(j)) = job[j].attempts
         /\ \A m \in DOMAIN closed(j) : closed(j)[m].outcome # "running"
  <2> SUFFICES ASSUME NEW j \in dead \cup taken
               PROVE  /\ closed(j) \in Seq([outcome : Outcomes, result : Nat]) /\ Len(closed(j)) = job[j].attempts
                      /\ \A m \in DOMAIN closed(j) : closed(j)[m].outcome # "running"
    BY Zenon
  <2>1. CASE job[j].status = "running"
    <3>1. j \in Jobs /\ AttemptOpen(j) /\ "lease_expired" \in Outcomes /\ AttemptsMatchJob
      BY Zenon, <1>1, <2>1 DEF Claim, Outcomes, RowInv
    <3> QED
      BY Zenon, <2>1, <3>1, FinishMatches
  <2>2. CASE job[j].status # "running"
    BY Zenon, <1>1, <2>2 DEF RowInv, AttemptsMatchJob, TypeOK
  <2> QED
    BY <2>1, <2>2
<1> HIDE DEF closed
<1>12. AttemptsMatchJob'
  <2> SUFFICES ASSUME NEW j \in Jobs
               PROVE  /\ Len(attempt'[j]) = job'[j].attempts
                      /\ \A m \in DOMAIN attempt'[j] :
                           attempt'[j][m].outcome = "running" <=> m = job'[j].attempts /\ job'[j].status = "running"
    BY <1>1 DEF AttemptsMatchJob
  <2>1. CASE j \in dead
    BY <1>1, <1>2, <1>3, <1>9, <1>11, <2>1
  <2>2. CASE j \in taken
    <3>1. attempt'[j] = Append(closed(j), open) /\ job'[j].status = "running" /\ job'[j].attempts = job[j].attempts + 1
      BY Zenon, <1>1, <1>2, <1>4, <1>9, <2>2
    <3>2. closed(j) \in Seq([outcome : Outcomes, result : Nat]) /\ Len(closed(j)) = job[j].attempts
          /\ \A m \in 1 .. Len(closed(j)) : closed(j)[m].outcome # "running"
      <4>1. closed(j) \in Seq([outcome : Outcomes, result : Nat]) /\ Len(closed(j)) = job[j].attempts
            /\ \A m \in DOMAIN closed(j) : closed(j)[m].outcome # "running"
        BY Zenon, <1>11, <2>2
      <4>2. DOMAIN closed(j) = 1 .. Len(closed(j))
        BY <4>1
      <4> QED
        BY <4>1, <4>2
    <3>3. open \in [outcome : Outcomes, result : Nat] /\ open.outcome = "running"
      BY DEF Outcomes
    <3> HIDE DEF open
    <3>4. /\ attempt'[j] \in Seq([outcome : Outcomes, result : Nat])
          /\ Len(attempt'[j]) = Len(closed(j)) + 1
          /\ \A m \in 1 .. Len(closed(j)) : attempt'[j][m] = closed(j)[m]
          /\ attempt'[j][Len(closed(j)) + 1] = open
      BY <3>1, <3>2, <3>3, AppendProperties
    <3>5. DOMAIN attempt'[j] = 1 .. (job[j].attempts + 1) /\ job[j].attempts \in Nat
      BY <3>2, <3>4
    <3> QED
      BY <3>1, <3>2, <3>3, <3>4, <3>5
  <2>3. CASE j \notin dead \cup taken
    <3>1. attempt'[j] = attempt[j] /\ job'[j] = job[j]
      BY <1>1, <1>2, <1>9, <2>3 DEF closed
    <3> QED
      BY <3>1 DEF RowInv, AttemptsMatchJob
  <2> QED
    BY <2>1, <2>2, <2>3
<1> QED
  BY <1>6, <1>7, <1>8, <1>10, <1>12 DEF RowInv

\* Every transition keeps the queue and the audit trail in step.
LEMMA RowStep ==
  ASSUME TypeOK, RowInv, Next
  PROVE  RowInv'
<1> USE DEF store
<1>1. ASSUME UNCHANGED <<job, attempt>> PROVE RowInv'
  BY <1>1 DEF RowInv, OneActiveJobPerImage, AttemptsMatchJob, NoStrandedJob, LeaseState, NoOrphanAttempts, ActiveJobs, Jobs
<1>2. ASSUME NEW i \in Images, NEW c \in Contexts, CreateJob(i, c) PROVE RowInv'
  <2>1. PICK gone \in Expendable : IF \E j \in ActiveOn(i) : Matches(j, i, c)
                                  THEN Retain(gone) /\ UNCHANGED lastJob
                                  ELSE Admit(i, c, Revision(i), gone)
    BY <1>2 DEF CreateJob
  <2>2. gone \subseteq TerminalJobs
    BY DEF Expendable
  <2>3. CASE Retain(gone) /\ UNCHANGED lastJob
    <3>1. Jobs' = Jobs \ gone /\ \A j \in Jobs' : job'[j] = job[j] /\ j \in JobId
      BY <2>3, IdTypes DEF Retain, Jobs
    <3>2. \A j \in JobId : attempt'[j] = IF j \in gone THEN <<>> ELSE attempt[j]
      BY <2>3 DEF Retain
    <3>3. OneActiveJobPerImage' /\ NoStrandedJob' /\ LeaseState'
      BY <3>1 DEF RowInv, OneActiveJobPerImage, NoStrandedJob, LeaseState, ActiveJobs
    <3>4. AttemptsMatchJob'
      BY <3>1, <3>2 DEF RowInv, AttemptsMatchJob
    <3>5. NoOrphanAttempts'
      BY <3>1, <3>2 DEF RowInv, NoOrphanAttempts
    <3> QED
      BY <3>3, <3>4, <3>5 DEF RowInv
  <2>4. CASE Admit(i, c, Revision(i), gone)
    <3>1. Revision(i) \in Nat \ {0}
      BY <1>2, RevisionType DEF CreateJob
    <3> QED
      BY <2>2, <2>4, <3>1, AdmitInv
  <2> QED
    BY <2>1, <2>3, <2>4
<1>3. ASSUME NEW x \in Editors, NEW i \in Images, NEW c \in Contexts, Reprocess(x, i, c) PROVE RowInv'
  <2>1. Revision(i) + 1 \in Nat \ {0}
    BY RevisionType
  <2>2. PICK gone \in Expendable : Admit(i, c, Revision(i) + 1, gone)
    BY <1>3 DEF Reprocess
  <2>3. gone \subseteq TerminalJobs
    BY DEF Expendable
  <2> QED
    BY <2>1, <2>2, <2>3, AdmitInv
<1>4. ASSUME NEW w \in Workers, NEW j \in JobId, ClaimByID(w, j) PROVE RowInv'
  BY <1>4, ClaimInv DEF ClaimByID
<1>5. ASSUME NEW w \in Workers, ClaimNext(w) PROVE RowInv'
  BY Zenon, <1>5, ClaimInv DEF ClaimNext
<1>6. ASSUME NEW j \in JobId, Cancel(j) PROVE RowInv'
  <2> DEFINE r == Closed(job[j], "canceled")
  <2>1. j \in Jobs /\ job[j] \in RowType /\ job[j].status \in {"pending", "running"}
    BY <1>6, IdTypes DEF Cancel, ActiveJobs, ActiveStatus
  <2>2. r \in RowType
    BY <2>1, ReleasedType DEF TerminalStatus
  <2>3. /\ r.image = job[j].image /\ r.attempts = job[j].attempts /\ r.status = "canceled"
        /\ r.lease = NoLease /\ r.token = NoToken
    BY <2>1 DEF Closed, Released, RowType
  <2> HIDE DEF r
  <2>4. RowChange(j, r)
    <3>1. "canceled" \in Outcomes \ {"running"} /\ "canceled" \in TerminalStatus /\ 0 \in Nat
      BY DEF Outcomes, TerminalStatus
    <3> QED
      BY <1>6, <2>1, <2>3, <3>1 DEF RowChange, Cancel
  <2> QED
    BY Zenon, <1>6, <2>1, <2>2, <2>4, RowChangeInv DEF Cancel, r
<1>7. ASSUME NEW j \in JobId, LeaseElapses(j) PROVE RowInv'
  <2> DEFINE r == [job[j] EXCEPT !.lease = @ - 1]
  <2>1. j \in Jobs /\ job[j] \in RowType /\ job[j].status = "running"
    BY <1>7, IdTypes DEF LeaseElapses
  <2>2. r \in RowType
    BY <1>7, <2>1, ConstantsAssumption DEF LeaseElapses, RowType, FreshLease, ConstantsAssumption
  <2>3. RowChange(j, r)
    BY <1>7, <2>1 DEF LeaseElapses, RowChange, RowType
  <2> QED
    BY Zenon, <1>7, <2>1, <2>2, <2>3, RowChangeInv DEF LeaseElapses
<1>8. ASSUME NEW j \in JobId, RetryElapses(j) PROVE RowInv'
  <2> DEFINE r == [job[j] EXCEPT !.waiting = FALSE]
  <2>1. j \in Jobs /\ job[j] \in RowType
    BY <1>8, IdTypes DEF RetryElapses
  <2>2. r \in RowType
    BY Zenon, <2>1 DEF RowType
  <2>3. RowChange(j, r)
    BY <1>8, <2>1 DEF RetryElapses, RowChange, RowType, RowInv, LeaseState, NoStrandedJob
  <2> QED
    BY Zenon, <1>8, <2>1, <2>2, <2>3, RowChangeInv DEF RetryElapses
<1>9. ASSUME NEW w \in Workers, NEW b \in BOOLEAN, UpdateProgress(w, b), UNCHANGED <<attempt, lastJob>> PROVE RowInv'
  <2> DEFINE j == worker[w].job
             r == [job[j] EXCEPT !.lastResult = b]
  <2>1. j \in Jobs /\ job[j] \in RowType /\ job[j].status = "running"
    BY <1>9, IdTypes DEF UpdateProgress, FenceHolds
  <2>2. r \in RowType
    BY <2>1 DEF RowType
  <2>3. RowChange(j, r)
    BY <1>9, <2>1 DEF RowChange, RowType
  <2> QED
    BY Zenon, <1>9, <2>1, <2>2, <2>3, RowChangeInv DEF UpdateProgress
<1>10. ASSUME NEW w \in Workers, Heartbeat(w) PROVE RowInv'
  <2> DEFINE j == worker[w].job
             r == [job[j] EXCEPT !.lease = FreshLease]
  <2>1. j \in Jobs /\ job[j] \in RowType /\ job[j].status = "running"
    BY <1>10, IdTypes DEF Heartbeat, FenceHolds
  <2>2. r \in RowType
    BY <2>1, ConstantsAssumption DEF RowType, FreshLease, ConstantsAssumption
  <2>3. RowChange(j, r)
    BY <1>10, <2>1 DEF Heartbeat, RowChange, RowType
  <2> QED
    BY Zenon, <1>10, <2>1, <2>2, <2>3, RowChangeInv DEF Heartbeat
<1>11. ASSUME NEW w \in Workers, CommitPage(w) PROVE RowInv'
  <2> DEFINE j == worker[w].job
             r == Closed(job[j], "completed")
             i == job[j].image
  <2>1. j \in Jobs /\ job[j] \in RowType /\ job[j].status = "running" /\ i \in Images
    BY <1>11, IdTypes DEF CommitPage, FenceHolds, RowType
  <2>2. r \in RowType
    BY <2>1, ReleasedType DEF TerminalStatus
  <2>3. /\ r.image = job[j].image /\ r.attempts = job[j].attempts /\ r.status = "completed"
        /\ r.lease = NoLease /\ r.token = NoToken
    BY <2>1 DEF Closed, Released, RowType
  <2> HIDE DEF r
  <2>4. CASE Revision(i) = worker[w].input
    <3>1. RowChange(j, r)
      <4>1. "completed" \in Outcomes \ {"running"} /\ Revision(i) + 1 \in Nat
        BY <2>1, RevisionType DEF Outcomes
      <4> QED
        BY Zenon, <1>11, <2>1, <2>3, <2>4, <4>1 DEF RowChange, CommitPage
    <3> QED
      BY <1>11, <2>1, <2>2, <2>4, <3>1, RowChangeInv DEF CommitPage, r
  <2>5. CASE Revision(i) # worker[w].input
    BY <1>11, <1>1, <2>5 DEF CommitPage
  <2> QED
    BY <2>4, <2>5
<1>12. ASSUME NEW w \in Workers, RecordFailure(w) PROVE RowInv'
  <2> DEFINE j == worker[w].job
             terminal == FailsJob(job[j], worker[w].error)
  <2>1. j \in Jobs /\ job[j] \in RowType /\ job[j].status = "running" /\ AttemptOpen(j)
        /\ job[j].attempts \in Nat /\ MaxAttempts \in Nat
    BY SMTT(20), <1>12, IdTypes DEF RecordFailure, FenceHolds, RowType
  <2> DEFINE keeps(x, s) == /\ x \in RowType /\ x.image = job[j].image /\ x.attempts = job[j].attempts
                            /\ x.status = s /\ x.lease = NoLease /\ x.token = NoToken
  <2>a. \A s \in {"failed", "pending"} :
          keeps(Released(job[j], s), s) /\ keeps(Closed(job[j], s), s)
    <3> SUFFICES ASSUME NEW s \in {"failed", "pending"}
                 PROVE  keeps(Released(job[j], s), s) /\ keeps(Closed(job[j], s), s)
      OBVIOUS
    <3> DEFINE r1 == Released(job[j], s)
               r2 == Closed(job[j], s)
    <3>1. r1 \in RowType /\ r2 \in RowType
      BY <2>1, ReleasedType DEF ActiveStatus, TerminalStatus
    <3>2. keeps(r1, s)
      BY <2>1, <3>1 DEF Released, RowType
    <3>3. r2 = [r1 EXCEPT !.lastResult = FALSE]
      BY DEF Closed
    <3> HIDE DEF r1, r2
    <3>4. keeps(r2, s)
      BY <3>1, <3>2, <3>3 DEF RowType
    <3> QED
      BY <3>2, <3>4 DEF r1, r2
  <2>2. PICK r : job' = [job EXCEPT ![j] = r] /\ (keeps(r, "failed") \/ (keeps(r, "pending") /\ ~terminal))
    <3> DEFINE status == IF terminal THEN "failed" ELSE "pending"
               ended == IF worker[w].error = "retryable" THEN Released(job[j], status) ELSE Closed(job[j], status)
    <3> HIDE DEF keeps, terminal
    <3>1. job' = [job EXCEPT ![j] = [ended EXCEPT !.waiting = ~terminal]]
      BY <1>12 DEF RecordFailure, terminal
    <3>2. keeps(ended, status) /\ status \in {"failed", "pending"}
      BY <2>a
    <3> HIDE DEF ended
    <3>3. keeps([ended EXCEPT !.waiting = ~terminal], status)
      <4>1. (~terminal) \in BOOLEAN
        BY DEF terminal, FailsJob
      <4> QED
        BY Zenon, <3>2, <4>1 DEF keeps, RowType
    <3> QED
      BY Zenon, <3>1, <3>3
  <2>3. /\ r.image = job[j].image /\ r.attempts = job[j].attempts /\ r.status \in {"pending", "failed"}
        /\ r.lease = NoLease /\ r.token = NoToken /\ r \in RowType /\ (r.status = "pending" => ~terminal)
    BY <2>2
  <2>4. r.status = "pending" => r.attempts < MaxAttempts
    BY <2>1, <2>2, <2>3 DEF FailsJob
  <2>5. \E o \in Outcomes \ {"running"}, n \in Nat : attempt' = [attempt EXCEPT ![j] = FinishAttempt(j, o, n)]
    <3>1. {"failed", "retryable_failed"} \subseteq Outcomes \ {"running"} /\ 0 \in Nat
      BY DEF Outcomes
    <3> QED
      BY Zenon, <1>12, <3>1 DEF RecordFailure
  <2>6. RowChange(j, r)
    BY Zenon, <2>1, <2>3, <2>4, <2>5 DEF RowChange
  <2> QED
    BY Zenon, <1>12, <2>1, <2>2, <2>3, <2>6, RowChangeInv DEF RecordFailure
<1>13. ASSUME NEW w \in Workers, NEW l \in Lines, NEW b \in BOOLEAN, StartLine(w, l) \/ ReportLine(w, l) \/ FailLine(w, l, b)
       PROVE  RowInv'
  BY Zenon, <1>9, <1>13 DEF StartLine, ReportLine, FailLine
<1>14. \/ UNCHANGED <<job, attempt>>
       \/ \E i \in Images, c \in Contexts : CreateJob(i, c)
       \/ \E x \in Editors, i \in Images, c \in Contexts : Reprocess(x, i, c)
       \/ \E j \in JobId : Cancel(j) \/ LeaseElapses(j) \/ RetryElapses(j)
       \/ \E w \in Workers, j \in JobId : ClaimByID(w, j)
       \/ \E w \in Workers : ClaimNext(w) \/ Heartbeat(w) \/ CommitPage(w) \/ RecordFailure(w)
       \/ \E w \in Workers, l \in Lines, b \in BOOLEAN : StartLine(w, l) \/ ReportLine(w, l) \/ FailLine(w, l, b)
  BY Zenon DEF Next, WorkerStep, CreatePage, OpenPage, SavePage, LoadPage, RestoreCheckpoint, SegmentPage, SaveLine,
         FinishLines, Abort, LoseLease, Crash
<1> QED
  BY <1>1, <1>2, <1>3, <1>4, <1>5, <1>6, <1>7, <1>8, <1>10, <1>11, <1>12, <1>13, <1>14

\* An image has at most one pending or running job, the audit trail agrees with
\* the queue row, and no pending job has spent its attempts: createLocked,
\* claimLocked and the failure statements keep the three together.
THEOREM QueueInvariant == Spec => [](OneActiveJobPerImage /\ AttemptsMatchJob /\ NoStrandedJob)
<1>1. Init => RowInv
  BY DEF Init, RowInv, OneActiveJobPerImage, AttemptsMatchJob, NoStrandedJob, LeaseState, NoOrphanAttempts,
         ActiveJobs, Jobs
<1>2. TypeOK /\ RowInv /\ [Next]_vars => RowInv'
  <2>1. ASSUME RowInv, UNCHANGED vars PROVE RowInv'
    BY <2>1 DEF vars, RowInv, OneActiveJobPerImage, AttemptsMatchJob, NoStrandedJob, LeaseState, NoOrphanAttempts,
                ActiveJobs, Jobs
  <2> QED
    BY <2>1, RowStep
<1>3. RowInv => OneActiveJobPerImage /\ AttemptsMatchJob /\ NoStrandedJob
  BY DEF RowInv
<1> QED
  BY <1>1, <1>2, <1>3, TypesHold, PTL DEF Spec

\* The audit trail of a job has a row per attempt, open exactly while the job runs.
COROLLARY AuditTrailMatches == Spec => []AttemptsMatchJob
BY QueueInvariant, PTL

================================================================================
