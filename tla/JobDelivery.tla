---------------------------- MODULE JobDelivery ----------------------------
(***************************************************************************)
(* How transcription jobs reach a worker through Pub/Sub.  The job row is  *)
(* the truth; a message only says that a row may be claimable.  A pull     *)
(* worker receives messages and polls for rows no message announced, both  *)
(* under one semaphore; a push worker answers one request per message, and *)
(* a scheduled maintenance request publishes forgotten rows again; without *)
(* Pub/Sub a pool of loops polls the rows.                                 *)
(*                                                                         *)
(* What an attempt does once it holds the lease is TranscriptionJobs: here *)
(* it succeeds, fails, or is canceled.  Pub/Sub is external: it delivers   *)
(* at least once, in any order.                                            *)
(***************************************************************************)
EXTENDS Integers, FiniteSets, FiniteSetsExt

CONSTANTS Jobs,
          Tasks,             \* goroutines that may handle a job at once
          Modes,             \* how a worker may learn of jobs: "poll", "pull", "push"
          Workers,           \* size of the semaphore
          MaxOutstanding,    \* messages received and not answered
          MaxAttempts,       \* attempts of one job
          MaxMessages,       \* bound on queued copies of one message
          MaxFaults          \* bound on lost publishes, crashes and the like

JobDeliveryAssumption ==
  /\ {Workers, MaxOutstanding, MaxAttempts, MaxMessages} \subseteq Nat \ {0}
  /\ MaxFaults \in Nat
  /\ Modes \subseteq {"poll", "pull", "push"}
  /\ Cardinality(Tasks) >= MaxOutstanding + Workers

VARIABLES mode,       \* the deployment's way, fixed
          job,        \* job -> [status, attempts]
          message,    \* job -> queued copies
          invalid,    \* a message nobody can parse: "none", "queued", "reported"
          task,       \* task -> what it does
          sem,        \* slots taken from the semaphore
          recovery,   \* the recovery loop: "idle" or holding a "slot"
          process,    \* "up", "draining", "down"
          faults

vars == <<job, message, invalid, task, sem, recovery, process, faults>>

Push == mode = "push"

Free == [from |-> "nobody", pc |-> "free", job |-> 0, ours |-> FALSE]
Running == {t \in Tasks : task[t].pc # "free"}
Holding == {t \in Tasks : task[t].pc \in {"claim", "work", "failed"} /\ task[t].from \notin {"push", "poll"}}
Received == {t \in Running : task[t].from \in {"message", "push"}}
Leased(j) == \E t \in Tasks : task[t].job = j /\ task[t].pc \in {"work", "failed"}

Fault == faults < MaxFaults /\ faults' = faults + 1

-----------------------------------------------------------------------------
(* The API process: the row is committed before its message is published *)

PublishTranscriptionJob(j) ==
  message' = [message EXCEPT ![j] = Min({@ + 1, MaxMessages})]

createTranscriptionJob(j) ==
  /\ job[j].status = "none"
  /\ job' = [job EXCEPT ![j].status = "pending"]
  /\ \/ mode # "poll" /\ PublishTranscriptionJob(j) /\ UNCHANGED faults
     \/ mode # "poll" /\ UNCHANGED message /\ Fault
     \/ mode = "poll" /\ UNCHANGED <<message, faults>>
  /\ UNCHANGED <<invalid, task, sem, recovery, process>>

Claimable(j) == job[j].status \in {"pending", "expired"}

\* The fenced claim of TranscriptionJobs; an exhausted job ends instead.
Claimed(j) ==
  IF job[j].attempts >= MaxAttempts THEN [job[j] EXCEPT !.status = "done"]
  ELSE [status |-> "running", attempts |-> job[j].attempts + 1]

RetryElapses(j) ==
  /\ job[j].status = "waiting"
  /\ job' = [job EXCEPT ![j].status = "pending"]
  /\ UNCHANGED <<message, invalid, task, sem, recovery, process, faults>>

LeaseElapses(j) ==
  /\ job[j].status = "running"
  /\ ~Leased(j)
  /\ job' = [job EXCEPT ![j].status = "expired"]
  /\ UNCHANGED <<message, invalid, task, sem, recovery, process, faults>>

-----------------------------------------------------------------------------
(* Receiving *)

\* Pull: every callback waits for a slot.  Push: the request starts at once.
ReceiveTranscriptionJobs(t, j) ==
  /\ process = "up"
  /\ task[t].pc = "free"
  /\ message[j] > 0
  /\ Cardinality(Received) < MaxOutstanding
  /\ message' = [message EXCEPT ![j] = @ - 1]
  /\ task' = [task EXCEPT ![t] = IF Push THEN [from |-> "push", pc |-> "claim", job |-> j, ours |-> TRUE]
                                 ELSE [from |-> "message", pc |-> "slot", job |-> j, ours |-> TRUE]]
  /\ UNCHANGED <<job, invalid, sem, recovery, process, faults>>

\* The answer deadline passes: the message is queued again.
Redeliver(t) ==
  /\ t \in Received
  /\ task[t].ours
  /\ Fault
  /\ PublishTranscriptionJob(task[t].job)
  /\ task' = [task EXCEPT ![t].ours = FALSE]
  /\ UNCHANGED <<job, invalid, sem, recovery, process>>

\* A pull worker reports and acknowledges what it cannot parse; a push worker
\* answers 400 and is asked again.
parseTranscriptionJobMessage ==
  /\ process = "up"
  /\ mode # "poll"
  /\ invalid = "queued"
  /\ invalid' = IF Push THEN "queued" ELSE "reported"
  /\ UNCHANGED <<job, message, task, sem, recovery, process, faults>>

BugReleaseSlot(t) == sem

releaseTranscriptionSlot(t) == IF t \in Holding THEN Max({0, sem - 1}) ELSE sem

\* The task ends; "ack" forgets its message, otherwise Pub/Sub has it again.
Answer(t, ack) ==
  /\ task' = [task EXCEPT ![t] = Free]
  /\ sem' = releaseTranscriptionSlot(t)
  /\ IF ack \/ ~task[t].ours THEN UNCHANGED message ELSE PublishTranscriptionJob(task[t].job)

acquireTranscriptionSlot(t) ==
  /\ task[t].pc = "slot"
  /\ \/ /\ sem < Workers
        /\ sem' = sem + 1
        /\ task' = [task EXCEPT ![t].pc = "claim"]
        /\ UNCHANGED message
     \/ /\ process = "draining"
        /\ Answer(t, FALSE)
  /\ UNCHANGED <<job, invalid, recovery, process, faults>>

ClaimPendingByID(t) ==
  /\ task[t].pc = "claim"
  /\ LET j == task[t].job
     IN  \/ /\ Claimable(j)
            /\ job' = [job EXCEPT ![j] = Claimed(j)]
            /\ IF job'[j].status = "running"
               THEN task' = [task EXCEPT ![t].pc = "work"] /\ UNCHANGED <<message, sem>>
               ELSE Answer(t, TRUE)
            /\ UNCHANGED faults
         \/ ~Claimable(j) /\ UNCHANGED <<job, faults>> /\ Answer(t, TRUE)
         \/ Fault /\ UNCHANGED job /\ Answer(t, FALSE)
  /\ UNCHANGED <<invalid, recovery, process>>

processClaimedTranscriptionJob(t) ==
  /\ task[t].pc = "work"
  /\ \/ job' = [job EXCEPT ![task[t].job].status = "done"] /\ Answer(t, TRUE)
     \/ task' = [task EXCEPT ![t].pc = "failed"] /\ UNCHANGED <<job, message, sem>>
  /\ UNCHANGED <<invalid, recovery, process, faults>>

\* The failure is recorded under the same lease, or not at all; the message
\* is given back in either case.
recordClaimedTranscriptionJobFailure(t) ==
  /\ task[t].pc = "failed"
  /\ \/ /\ job' = [job EXCEPT ![task[t].job].status =
                     IF job[task[t].job].attempts >= MaxAttempts THEN "done" ELSE "waiting"]
        /\ UNCHANGED faults
     \/ Fault /\ UNCHANGED job
  /\ Answer(t, FALSE)
  /\ UNCHANGED <<invalid, recovery, process>>

-----------------------------------------------------------------------------
(* Rows that no message announces *)

\* One turn of a polling loop; Workers of them run.
transcriptionWorkerLoop(t) ==
  /\ mode = "poll"
  /\ process = "up"
  /\ task[t].pc = "free"
  /\ Cardinality(Running) < Workers
  /\ \E j \in Jobs :
       /\ Claimable(j)
       /\ job' = [job EXCEPT ![j] = Claimed(j)]
       /\ task' = [task EXCEPT ![t] = IF job'[j].status = "running"
                                      THEN [from |-> "poll", pc |-> "work", job |-> j, ours |-> FALSE] ELSE Free]
  /\ UNCHANGED <<message, invalid, sem, recovery, process, faults>>

\* Each turn of the pull worker's recovery loop takes a slot first.
transcriptionRecoveryLoop ==
  /\ mode = "pull"
  /\ process = "up"
  /\ recovery = "idle"
  /\ sem < Workers
  /\ \E j \in Jobs : Claimable(j)
  /\ sem' = sem + 1
  /\ recovery' = "slot"
  /\ UNCHANGED <<job, message, invalid, task, process, faults>>

BugRecoverable(j) == job[j].status = "pending"

Recoverable(j) == Claimable(j)

ClaimNextPendingOlderThan ==
  /\ recovery = "slot"
  /\ recovery' = "idle"
  /\ \/ \E j \in Jobs, t \in Tasks :
          /\ task[t].pc = "free"
          /\ Recoverable(j)
          /\ job' = [job EXCEPT ![j] = Claimed(j)]
          /\ IF job'[j].status = "running"
             THEN /\ task' = [task EXCEPT ![t] = [from |-> "recovery", pc |-> "work", job |-> j, ours |-> FALSE]]
                  /\ UNCHANGED sem
             ELSE UNCHANGED task /\ sem' = sem - 1
     \/ (\A j \in Jobs : ~Recoverable(j)) /\ sem' = sem - 1 /\ UNCHANGED <<job, task>>
  /\ UNCHANGED <<message, invalid, process, faults>>

\* The scheduled pass of a push deployment.
RunWorkerMaintenance(j) ==
  /\ Push
  /\ process = "up"
  /\ Recoverable(j)
  /\ message[j] = 0
  /\ PublishTranscriptionJob(j)
  /\ UNCHANGED <<job, invalid, task, sem, recovery, process, faults>>

-----------------------------------------------------------------------------
(* Shutdown *)

\* SIGTERM cancels every context; readiness answers "draining".
Shutdown ==
  /\ process = "up"
  /\ Fault
  /\ process' = "draining"
  /\ UNCHANGED <<job, message, invalid, task, sem, recovery>>

\* A canceled attempt hands its job back.
Defer(t) ==
  /\ task[t].pc = "work"
  /\ process = "draining" \/ (Push /\ faults < MaxFaults)
  /\ faults' = IF process = "draining" THEN faults ELSE faults + 1
  /\ job' = [job EXCEPT ![task[t].job].status = "waiting"]
  /\ Answer(t, FALSE)
  /\ UNCHANGED <<invalid, recovery, process>>

\* The process ends with its last task.
WaitForBackgroundWorkers ==
  /\ process = "draining"
  /\ Running = {}
  /\ recovery = "idle"
  /\ process' = "down"
  /\ UNCHANGED <<job, message, invalid, task, sem, recovery, faults>>

\* Or with tasks in it: a crash, or a drain that took ten seconds.
Crash ==
  /\ process # "down"
  /\ Fault
  /\ process' = "down"
  /\ task' = [t \in Tasks |-> Free]
  /\ message' = [j \in Jobs |-> Min({MaxMessages, message[j] + Cardinality({t \in Received : task[t].job = j /\ task[t].ours})})]
  /\ sem' = 0
  /\ recovery' = "idle"
  /\ UNCHANGED <<job, invalid>>

StartTranscriptionWorker ==
  /\ process = "down"
  /\ process' = "up"
  /\ UNCHANGED <<job, message, invalid, task, sem, recovery, faults>>

-----------------------------------------------------------------------------
Init ==
  /\ mode \in Modes
  /\ job = [j \in Jobs |-> [status |-> "none", attempts |-> 0]]
  /\ message = [j \in Jobs |-> 0]
  /\ invalid = "queued"
  /\ task = [t \in Tasks |-> Free]
  /\ sem = 0
  /\ recovery = "idle"
  /\ process = "up"
  /\ faults = 0

TaskStep(t) ==
  \/ acquireTranscriptionSlot(t) \/ ClaimPendingByID(t)
  \/ processClaimedTranscriptionJob(t) \/ recordClaimedTranscriptionJobFailure(t)

Next ==
  /\ UNCHANGED mode
  /\ \/ \E j \in Jobs : createTranscriptionJob(j) \/ RetryElapses(j) \/ LeaseElapses(j) \/ RunWorkerMaintenance(j)
     \/ \E t \in Tasks, j \in Jobs : ReceiveTranscriptionJobs(t, j)
     \/ \E t \in Tasks : TaskStep(t) \/ transcriptionWorkerLoop(t) \/ Redeliver(t) \/ Defer(t)
     \/ parseTranscriptionJobMessage
     \/ transcriptionRecoveryLoop \/ ClaimNextPendingOlderThan
     \/ Shutdown \/ WaitForBackgroundWorkers \/ Crash \/ StartTranscriptionWorker

Spec == Init /\ [][Next]_<<mode, vars>>

\* Timers fire, loops turn, Pub/Sub delivers, and the platform restarts the
\* worker; nothing obliges a publish to succeed or a process to keep running.
Fairness ==
  /\ \A j \in Jobs : /\ WF_vars(RetryElapses(j))
                     /\ WF_vars(LeaseElapses(j))
                     /\ WF_vars(RunWorkerMaintenance(j))
                     /\ WF_vars(\E t \in Tasks : ReceiveTranscriptionJobs(t, j))
  /\ \A t \in Tasks : WF_vars(TaskStep(t))
  /\ WF_vars(\E t \in Tasks : transcriptionWorkerLoop(t))
  /\ WF_vars(transcriptionRecoveryLoop)
  /\ WF_vars(ClaimNextPendingOlderThan)
  /\ WF_vars(WaitForBackgroundWorkers)
  /\ WF_vars(StartTranscriptionWorker)

FairSpec == Spec /\ Fairness

-----------------------------------------------------------------------------
\* Jobs, messages and tasks are in one of their states, and attempts, slots and
\* faults within their bounds.
TypeOK ==
  /\ \A j \in Jobs : /\ job[j].status \in {"none", "pending", "waiting", "running", "expired", "done"}
                     /\ job[j].attempts \in 0 .. MaxAttempts
                     /\ message[j] \in 0 .. MaxMessages
  /\ invalid \in {"queued", "reported"}
  /\ \A t \in Tasks : task[t].pc \in {"free", "slot", "claim", "work", "failed"}
  /\ sem \in 0 .. Workers
  /\ recovery \in {"idle", "slot"}
  /\ process \in {"up", "draining", "down"}
  /\ faults \in 0 .. MaxFaults

\* The semaphore counts exactly the tasks that hold a slot, through refused
\* claims, failures, cancellation and drains: a slot is never leaked, and
\* message and recovery attempts together never exceed the worker count.
SlotsMatchTasks == sem = Cardinality(Holding) + (IF recovery = "slot" THEN 1 ELSE 0)

\* No two tasks of one process attempt the same job, however often its
\* message is delivered and whatever recovery claims.
OneAttemptPerJob ==
  \A t, u \in {t \in Tasks : task[t].pc \in {"work", "failed"}} :
    task[t].job = task[u].job => t = u

\* Every committed job comes to an end although publishes fail, messages are
\* acknowledged while their job waits for its retry, and workers stop.
EveryJobEnds == \A j \in Jobs : job[j].status = "pending" ~> job[j].status = "done"
============================================================================
