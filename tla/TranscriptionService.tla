-------------------------- MODULE TranscriptionService --------------------------
(***************************************************************************)
(* What the transcription queue promises to the people and integrations    *)
(* that use it, with no workers, leases, attempts or checkpoints: a job is *)
(* open from its request until it ends in one of four ways, an image has   *)
(* one open job, and a page changes only when a person saves it or when a  *)
(* job requested for exactly the current revision completes.               *)
(***************************************************************************)
EXTENDS Naturals

CONSTANTS Images, MaxJobs

VARIABLES
  revision,    \* per image, the canonical page's revision, 0 before there is a page
  request,     \* the jobs remembered, by id
  lastRequest  \* ids handed out

service == <<revision, request, lastRequest>>

Recorded == DOMAIN request
Open == {j \in Recorded : request[j].state = "open"}
Ended == Recorded \ Open

End(jobs, how) ==
  request' = [j \in Recorded |-> IF j \in jobs THEN [request[j] EXCEPT !.state = how] ELSE request[j]]

Advance(i) == revision' = [revision EXCEPT ![i] = @ + 1]

Init ==
  /\ revision = [i \in Images |-> 0]
  /\ request = [j \in {} |-> 0]
  /\ lastRequest = 0

Save(i) == Advance(i) /\ UNCHANGED <<request, lastRequest>>

\* A new job for revision n of the page; forgotten are ended jobs dropped from
\* the bounded history.
OpenJob(i, n, forgotten) ==
  /\ lastRequest < MaxJobs
  /\ lastRequest' = lastRequest + 1
  /\ request' = [j \in (Recorded \ forgotten) \cup {lastRequest + 1} |->
                   IF j = lastRequest + 1 THEN [image |-> i, input |-> n, state |-> "open"]
                   ELSE IF j \in Open /\ request[j].image = i THEN [request[j] EXCEPT !.state = "superseded"]
                   ELSE request[j]]

Request(i, forgotten) ==
  /\ revision[i] > 0
  /\ OpenJob(i, revision[i], forgotten)
  /\ UNCHANGED revision

Reprocess(i, forgotten) ==
  /\ revision[i] > 0
  /\ OpenJob(i, revision[i] + 1, forgotten)
  /\ Advance(i)

Forget(forgotten) ==
  /\ request' = [j \in Recorded \ forgotten |-> request[j]]
  /\ UNCHANGED <<revision, lastRequest>>

Complete(j) ==
  /\ j \in Open /\ request[j].input = revision[request[j].image]
  /\ End({j}, "completed")
  /\ Advance(request[j].image)
  /\ UNCHANGED lastRequest

Fail(jobs) ==
  /\ jobs \subseteq Open
  /\ End(jobs, "failed")
  /\ UNCHANGED <<revision, lastRequest>>

Cancel(j) ==
  /\ j \in Open
  /\ End({j}, "canceled")
  /\ UNCHANGED <<revision, lastRequest>>

Next ==
  \/ \E i \in Images : Save(i)
  \/ \E i \in Images, forgotten \in SUBSET Ended : Request(i, forgotten) \/ Reprocess(i, forgotten)
  \/ \E forgotten \in SUBSET Ended : Forget(forgotten)
  \/ \E j \in Recorded : Complete(j) \/ Cancel(j)
  \/ \E jobs \in SUBSET Open : Fail(jobs)

Spec == Init /\ [][Next]_service

================================================================================
