----------------------------- MODULE JobStream -----------------------------
(***************************************************************************)
(* Watching a transcription job.  StreamTranscriptionJob polls the job row *)
(* and sends it whenever updated_at differs from the last row it sent.     *)
(* The column holds whole seconds; the stream polls twice a second, and    *)
(* backs off while it sees no change.  The job changes underneath it.      *)
(***************************************************************************)
EXTENDS Integers, FiniteSets, FiniteSetsExt

CONSTANTS Streams,             \* open calls
          WorkspaceOf,         \* stream -> workspace
          MaxSSEConnections,
          MaxSSEPerWorkspace,
          Segments,            \* segments of the job
          Second,              \* clock ticks per second
          PollInterval,        \* first and reset interval, in ticks
          MaxPollInterval,
          MaxTime              \* bound on the clock

JobStreamAssumption ==
  /\ {MaxSSEConnections, MaxSSEPerWorkspace, Second, PollInterval, MaxPollInterval} \subseteq Nat \ {0}
  /\ {Segments, MaxTime} \subseteq Nat
  /\ PollInterval <= MaxPollInterval

VARIABLES now,
          job,      \* [status, completed, updated]
          stream,   \* stream -> [phase, last, at, interval, seen]
          limiter   \* [total, by]: the server's count of open streams

vars == <<now, job, stream, limiter>>

Workspaces == {WorkspaceOf[s] : s \in Streams}
Statuses == {"pending", "running", "completed", "failed", "canceled", "superseded"}
Never == -1

\* A row as updated_at keeps it.
NOW == now \div Second

transcriptionJobTerminal(status) == status \in {"completed", "failed", "canceled", "superseded"}

\* What a client is told of a row.
storeJobToProto(row) == [status |-> row.status, completed |-> row.completed]

-----------------------------------------------------------------------------
(* The job *)

ClaimTranscriptionJob ==
  /\ job.status = "pending"
  /\ job' = [job EXCEPT !.status = "running", !.updated = NOW]
  /\ UNCHANGED <<now, stream, limiter>>

UpdateTranscriptionJobProgress ==
  /\ job.status = "running"
  /\ job.completed < Segments
  /\ job' = [job EXCEPT !.completed = @ + 1, !.updated = NOW]
  /\ UNCHANGED <<now, stream, limiter>>

End(status) ==
  /\ \/ status \in {"completed", "failed"} /\ job.status = "running"
     \/ status \in {"canceled", "superseded"} /\ ~transcriptionJobTerminal(job.status)
  /\ job' = [job EXCEPT !.status = status, !.updated = NOW]
  /\ UNCHANGED <<now, stream, limiter>>

-----------------------------------------------------------------------------
(* The limit on open streams *)

Acquire(w) ==
  /\ limiter.total < MaxSSEConnections
  /\ limiter.by[w] < MaxSSEPerWorkspace
  /\ limiter' = [total |-> limiter.total + 1, by |-> [limiter.by EXCEPT ![w] = @ + 1]]

BugReleaseStream(w) == limiter' = [limiter EXCEPT !.total = @ - 1]

ReleaseStream(w) == limiter' = [total |-> limiter.total - 1, by |-> [limiter.by EXCEPT ![w] = @ - 1]]

-----------------------------------------------------------------------------
(* The stream *)

Closed == [phase |-> "closed", last |-> Never, at |-> 0, interval |-> PollInterval,
           seen |-> [status |-> "none", completed |-> 0]]

StreamTranscriptionJob(s) ==
  /\ stream[s].phase = "closed"
  /\ Acquire(WorkspaceOf[s])
  /\ stream' = [stream EXCEPT ![s] = [Closed EXCEPT !.phase = "open", !.at = now]]
  /\ UNCHANGED <<now, job>>

Leave(s, phase, st) ==
  /\ stream' = [stream EXCEPT ![s] = [st EXCEPT !.phase = phase]]
  /\ ReleaseStream(WorkspaceOf[s])

Due(s) == stream[s].phase = "open" /\ stream[s].at <= now

\* The row is the one last sent, as far as updated_at tells.
Unchanged(s) ==
  /\ Due(s)
  /\ job.updated = stream[s].last
  /\ IF transcriptionJobTerminal(job.status) THEN Leave(s, "ended", stream[s])
     ELSE LET i == Min({2 * stream[s].interval, MaxPollInterval})
          IN  /\ stream' = [stream EXCEPT ![s].interval = i, ![s].at = now + i]
              /\ UNCHANGED limiter
  /\ UNCHANGED <<now, job>>

Send(s) ==
  /\ Due(s)
  /\ job.updated # stream[s].last
  /\ LET st == [phase |-> "open", last |-> job.updated, at |-> now + PollInterval,
                interval |-> PollInterval, seen |-> storeJobToProto(job)]
     IN  IF transcriptionJobTerminal(job.status) THEN Leave(s, "ended", st)
         ELSE stream' = [stream EXCEPT ![s] = st] /\ UNCHANGED limiter
  /\ UNCHANGED <<now, job>>

\* The client goes away, a send fails, or the row cannot be read.
Disconnect(s) ==
  /\ stream[s].phase = "open"
  /\ Leave(s, "left", stream[s])
  /\ UNCHANGED <<now, job>>

\* Timers are not starved: the clock waits for polls that are due.
Tick ==
  /\ now < MaxTime
  /\ \A s \in Streams : ~Due(s)
  /\ now' = now + 1
  /\ UNCHANGED <<job, stream, limiter>>

-----------------------------------------------------------------------------
Init ==
  /\ now = 0
  /\ job = [status |-> "pending", completed |-> 0, updated |-> 0]
  /\ stream = [s \in Streams |-> Closed]
  /\ limiter = [total |-> 0, by |-> [w \in Workspaces |-> 0]]

Next ==
  \/ ClaimTranscriptionJob \/ UpdateTranscriptionJobProgress
  \/ \E status \in Statuses : End(status)
  \/ \E s \in Streams : StreamTranscriptionJob(s) \/ Unchanged(s) \/ Send(s) \/ Disconnect(s)
  \/ Tick

Spec == Init /\ [][Next]_vars

-----------------------------------------------------------------------------
\* The job row, the clock and every stream are in one of their states.
TypeOK ==
  /\ now \in 0 .. MaxTime
  /\ job.status \in Statuses
  /\ job.completed \in 0 .. Segments
  /\ \A s \in Streams : stream[s].phase \in {"closed", "open", "ended", "left"}

\* The limiter counts the open streams, in total and per workspace, however
\* they end, and a stream that the server ends watched a job that is over.
StreamsAccounted ==
  /\ limiter.total = Cardinality({s \in Streams : stream[s].phase = "open"})
  /\ \A w \in Workspaces :
       limiter.by[w] = Cardinality({s \in Streams : WorkspaceOf[s] = w /\ stream[s].phase = "open"})
  /\ \A s \in Streams : stream[s].phase = "ended" => transcriptionJobTerminal(job.status)

\* transcription.proto promises a message "once more when the job reaches a
\* terminal state": a stream the server ends has sent the terminal row.
StreamDeliversTerminal ==
  \A s \in Streams : stream[s].phase = "ended" => transcriptionJobTerminal(stream[s].seen.status)
============================================================================
