--------------------------- MODULE AnnotationMirror ---------------------------
(***************************************************************************)
(* Publication of one image's AnnotationPage and its delivery to Triplet:  *)
(* the published snapshots, the coalescing annotation_mirror_outbox row,   *)
(* the tombstones of removed standalone Annotations, the dispatchers that  *)
(* deliver under a lease, and the remote store they write to.              *)
(*                                                                         *)
(* A conditional PUT or DELETE is retried until it wins, so its effect is  *)
(* to overwrite; losing every retry is one of the errors of a delivery.    *)
(***************************************************************************)
EXTENDS Naturals, Sequences

CONSTANTS
  Annotations,     \* ids of line annotations
  Dispatchers,     \* mirror dispatchers, one per worker process
  MaxAttempts,     \* annotation_mirror_outbox.max_attempts
  LeaseTime,       \* annotationMirrorLeaseDuration in ticks
  OperationTime,   \* annotationMirrorOperationLimit in ticks
  RetryTime,       \* annotationMirrorRetryDelay in ticks
  BackToBack,      \* whether a page may be published twice during one delivery
  MaxPublished     \* bound: publications

MirrorAssumption ==
  /\ MaxAttempts \in Nat \ {0} /\ RetryTime \in Nat /\ MaxPublished \in Nat
  /\ OperationTime \in Nat \ {0} /\ LeaseTime \in Nat /\ OperationTime < LeaseTime
  /\ BackToBack \in BOOLEAN

VARIABLES
  published,    \* the Annotations of each published snapshot, oldest first
  outbox,       \* the image's outbox row
  tombstones,   \* annotation_mirror_tombstones
  page,         \* Triplet: the snapshot the remote page shows, 0 when absent
  child,        \* Triplet: the snapshot each standalone Annotation shows, 0 when absent
  dispatcher    \* what each dispatcher is doing

vars == <<published, outbox, tombstones, page, child, dispatcher>>

Current == Len(published)
Children(n) == IF n = 0 THEN {} ELSE published[n]

NoRow == [status |-> "none", revision |-> 0, attempts |-> 0, wait |-> 0, lease |-> 0]
Idle == [pc |-> "idle", revision |-> 0, attempt |-> 0, left |-> 0, graph |-> 0, removed |-> {}, todo |-> {}]

Delivering == {"build", "load", "put", "delete"}

\* locked_by is drawn per claim; a revision's attempt number names the claim.
FenceHolds(d) ==
  /\ outbox.status = "processing"
  /\ outbox.revision = dispatcher[d].revision /\ outbox.attempts = dispatcher[d].attempt

Init ==
  /\ published = <<>>
  /\ outbox = NoRow
  /\ tombstones = {}
  /\ page = 0
  /\ child = [a \in Annotations |-> 0]
  /\ dispatcher = [d \in Dispatchers |-> Idle]

--------------------------------------------------------------------------------

\* A write of a delivery whose revision the row no longer holds may still come.
Overtaken == \E d \in Dispatchers : dispatcher[d].pc \in Delivering /\ dispatcher[d].revision < outbox.revision

ReplaceTombstones(next) == tombstones' = (tombstones \cup Children(Current)) \ next

BugUpsertOutbox == outbox' = [NoRow EXCEPT !.status = "pending", !.revision = Current + 1]

\* The replacement waits until the lease it finds in the row has passed.
UpsertOutbox ==
  outbox' = [NoRow EXCEPT !.status = "pending", !.revision = Current + 1, !.wait = outbox.lease]

Publish(next) ==
  /\ Current < MaxPublished
  /\ BackToBack \/ ~Overtaken
  /\ published' = Append(published, next)
  /\ ReplaceTombstones(next)
  /\ UpsertOutbox
  /\ UNCHANGED <<page, child, dispatcher>>

--------------------------------------------------------------------------------

BugExpired == FALSE
Expired == outbox.status = "processing" /\ outbox.lease = 0

FailExhausted ==
  /\ Expired /\ outbox.attempts >= MaxAttempts
  /\ outbox' = [outbox EXCEPT !.status = "failed"]
  /\ UNCHANGED <<published, tombstones, page, child, dispatcher>>

Claimable == \/ outbox.status = "pending" /\ outbox.wait = 0
             \/ Expired /\ outbox.attempts < MaxAttempts

Claim(d) ==
  /\ dispatcher[d].pc = "idle" /\ Claimable
  /\ outbox' = [outbox EXCEPT !.status = "processing", !.attempts = @ + 1, !.lease = LeaseTime]
  /\ dispatcher' = [dispatcher EXCEPT ![d] =
       [Idle EXCEPT !.pc = "build", !.revision = outbox.revision, !.attempt = outbox.attempts + 1,
                    !.left = OperationTime]]
  /\ UNCHANGED <<published, tombstones, page, child>>

--------------------------------------------------------------------------------
(* One delivery, cut off by its operation limit *)

At(d, pc) == dispatcher[d].pc = pc /\ dispatcher[d].left > 0

Become(d, changes) == dispatcher' = [dispatcher EXCEPT ![d] = changes]

\* The graph is built from what is published now, not from the claimed payload.
BuildGraph(d) ==
  /\ At(d, "build")
  /\ Become(d, [dispatcher[d] EXCEPT !.pc = "load", !.graph = Current, !.todo = Children(Current)])
  /\ UNCHANGED <<published, outbox, tombstones, page, child>>

LoadTombstones(d) ==
  /\ At(d, "load")
  /\ Become(d, [dispatcher[d] EXCEPT !.pc = "put", !.removed = tombstones \ dispatcher[d].todo])
  /\ UNCHANGED <<published, outbox, tombstones, page, child>>

PutChild(d, a) ==
  /\ At(d, "put") /\ a \in dispatcher[d].todo
  /\ child' = [child EXCEPT ![a] = dispatcher[d].graph]
  /\ Become(d, [dispatcher[d] EXCEPT !.todo = @ \ {a}])
  /\ UNCHANGED <<published, outbox, tombstones, page>>

\* Parents are written after every child, and before removed children go.
PutPage(d) ==
  /\ At(d, "put") /\ dispatcher[d].todo = {}
  /\ page' = dispatcher[d].graph
  /\ Become(d, [dispatcher[d] EXCEPT !.pc = "delete", !.todo = dispatcher[d].removed])
  /\ UNCHANGED <<published, outbox, tombstones, child>>

DeleteChild(d, a) ==
  /\ At(d, "delete") /\ a \in dispatcher[d].todo
  /\ child' = [child EXCEPT ![a] = 0]
  /\ Become(d, [dispatcher[d] EXCEPT !.todo = @ \ {a}])
  /\ UNCHANGED <<published, outbox, tombstones, page>>

Acknowledge(d) ==
  /\ At(d, "delete") /\ dispatcher[d].todo = {}
  /\ tombstones' = tombstones \ dispatcher[d].removed
  /\ Become(d, [dispatcher[d] EXCEPT !.pc = "finish"])
  /\ UNCHANGED <<published, outbox, page, child>>

BugComplete(d) ==
  /\ dispatcher[d].pc = "finish"
  /\ outbox' = NoRow
  /\ Become(d, Idle)
  /\ UNCHANGED <<published, tombstones, page, child>>

\* Deletes the row only while this claim still owns it.
Complete(d) ==
  /\ dispatcher[d].pc = "finish"
  /\ outbox' = IF FenceHolds(d) THEN NoRow ELSE outbox
  /\ Become(d, Idle)
  /\ UNCHANGED <<published, tombstones, page, child>>

\* A read, a write or the operation limit fails the delivery.
Fail(d) ==
  /\ dispatcher[d].pc \in Delivering
  /\ Become(d, [dispatcher[d] EXCEPT !.pc = "retry"])
  /\ UNCHANGED <<published, outbox, tombstones, page, child>>

Retry(d) ==
  /\ dispatcher[d].pc = "retry"
  /\ outbox' = IF FenceHolds(d)
               THEN [outbox EXCEPT !.status = IF outbox.attempts >= MaxAttempts THEN "failed" ELSE "pending",
                                   !.wait = RetryTime, !.lease = 0]
               ELSE outbox
  /\ Become(d, Idle)
  /\ UNCHANGED <<published, tombstones, page, child>>

Crash(d) ==
  /\ dispatcher[d].pc # "idle"
  /\ Become(d, Idle)
  /\ UNCHANGED <<published, outbox, tombstones, page, child>>

Earlier(t) == IF t = 0 THEN 0 ELSE t - 1

\* One clock for leases, retry times and operation limits.
Tick ==
  /\ \/ outbox.lease > 0 \/ outbox.wait > 0
     \/ \E d \in Dispatchers : dispatcher[d].left > 0
  /\ outbox' = [outbox EXCEPT !.lease = Earlier(@), !.wait = Earlier(@)]
  /\ dispatcher' = [d \in Dispatchers |-> [dispatcher[d] EXCEPT !.left = Earlier(@)]]
  /\ UNCHANGED <<published, tombstones, page, child>>

--------------------------------------------------------------------------------

\* What a running dispatcher does by itself; a delivery past its limit fails.
Deliver(d) ==
  \/ BuildGraph(d) \/ LoadTombstones(d) \/ PutPage(d) \/ Acknowledge(d) \/ Complete(d) \/ Retry(d)
  \/ \E a \in Annotations : PutChild(d, a) \/ DeleteChild(d, a)
  \/ dispatcher[d].left = 0 /\ Fail(d)

Next ==
  \/ \E next \in SUBSET Annotations : Publish(next)
  \/ FailExhausted \/ Tick
  \/ \E d \in Dispatchers : Claim(d) \/ Deliver(d) \/ Fail(d) \/ Crash(d)

Spec == Init /\ [][Next]_vars

\* Dispatchers poll every two seconds, started deliveries go on, time passes.
Fairness ==
  /\ WF_vars(FailExhausted) /\ WF_vars(Tick)
  /\ WF_vars(\E d \in Dispatchers : Claim(d))
  /\ \A d \in Dispatchers : WF_vars(Deliver(d))

FairSpec == Spec /\ Fairness

--------------------------------------------------------------------------------

RowType ==
  [status : {"none", "pending", "processing", "failed"}, revision : 0 .. MaxPublished,
   attempts : 0 .. MaxAttempts, wait : Nat, lease : 0 .. LeaseTime]

DispatcherType ==
  [pc : {"idle", "finish", "retry"} \cup Delivering, revision : 0 .. MaxPublished, attempt : 0 .. MaxAttempts,
   left : 0 .. OperationTime, graph : 0 .. MaxPublished, removed : SUBSET Annotations, todo : SUBSET Annotations]

\* Rows, remote resources and dispatchers hold values of their types.
TypeOK ==
  /\ published \in Seq(SUBSET Annotations) /\ Current <= MaxPublished
  /\ outbox \in RowType
  /\ tombstones \in SUBSET Annotations
  /\ page \in 0 .. MaxPublished /\ child \in [Annotations -> 0 .. MaxPublished]
  /\ dispatcher \in [Dispatchers -> DispatcherType]

\* The lease horizon keeps remote writes serialized: a replaced delivery is over
\* before its replacement is claimed, as UpsertAnnotationMirrorOutbox intends.
RemoteWritesSerialized ==
  \A d, e \in Dispatchers : dispatcher[d].pc \in Delivering /\ dispatcher[d].left > 0
                            /\ dispatcher[e].pc \in Delivering /\ dispatcher[e].left > 0 => d = e

\* A standalone Annotation that left the published page stays tombstoned until it
\* is gone from Triplet, through crashes, failed DELETEs and later publications.
RemovedChildrenTombstoned ==
  \A a \in Annotations : child[a] # 0 => a \in Children(Current) \cup tombstones

\* No delivery in progress and no row left to deliver means Triplet shows the
\* published page: the same snapshot, its Annotations and no others.
\* Until then, what it has beyond the published page is tombstoned.
MirrorConverged ==
  /\ RemovedChildrenTombstoned
  /\ outbox.status = "none" /\ (\A d \in Dispatchers : dispatcher[d].pc \notin Delivering) =>
       /\ page = Current
       /\ \A a \in Annotations : child[a] = IF a \in Children(Current) THEN Current ELSE 0

\* A publication is delivered or given up for an operator to see; it is never
\* left pending or leased for ever.
DeliveryEnds == (outbox.status \in {"pending", "processing"}) ~> (outbox.status \in {"none", "failed"})

================================================================================
