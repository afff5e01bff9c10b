------------------------- MODULE WebhookDeliveries -------------------------
(***************************************************************************)
(* The webhook outbox of one workspace: event transactions that expand     *)
(* into one delivery for each subscription, subscriptions that come and    *)
(* go, dispatchers that claim deliveries in batches, post them and mark    *)
(* the outcome, and retention (internal/server/events.go,                  *)
(* internal/store/transcription_jobs.go, webhook_subscriptions.go and      *)
(* sqlc/queries/event_outbox.sql).                                         *)
(*                                                                         *)
(* One action is one database transaction or one POST.  A claim's          *)
(* locked_by is fresh and its dispatcher finishes the batch before it      *)
(* claims again, so the dispatcher stands for it.                          *)
(***************************************************************************)
EXTENDS Integers, FiniteSets, FiniteSetsExt

CONSTANTS
    Events,         \* events of the workspace
    Subscriptions,  \* subscription rows it may have
    Dispatchers,    \* worker replicas that dispatch
    BatchSize,      \* deliveries taken by one claim
    MaxSubscriptions, \* MaxWebhookSubscriptionsPerWorkspace
    MaxAttempts,    \* webhook_deliveries.max_attempts
    LeaseTime,      \* the two minutes of a claim, in ticks
    RetryTime,      \* the longest backoff, in ticks
    None            \* no dispatcher: locked_by IS NULL

WebhookAssumption ==
    /\ IsFiniteSet(Events) /\ IsFiniteSet(Subscriptions) /\ IsFiniteSet(Dispatchers)
    /\ None \notin Dispatchers
    /\ {BatchSize, MaxSubscriptions, MaxAttempts, LeaseTime, RetryTime} \subseteq Nat \ {0}

VARIABLES
    event,         \* event_outbox; "old" is past the retention cutoff
    subscription,  \* webhook_subscriptions; an id is given out once
    delivery,      \* webhook_deliveries, by event and subscription
    dispatcher,    \* what each dispatcher still has to post, and to mark
    posted,        \* history: POSTs made for each delivery
    accepted       \* history: deliveries the receiver answered with 2xx

vars == <<event, subscription, delivery, dispatcher, posted, accepted>>

Pairs == Events \X Subscriptions

NoDelivery == [status |-> "none", attempts |-> 0, wait |-> 0, lease |-> 0, lock |-> None]
NewDelivery == [NoDelivery EXCEPT !.status = "pending"]
NoWork == [post |-> {}, ok |-> {}, failed |-> {}]

\* Rows and batches hold values of their types; no delivery is claimed more than
\* MaxAttempts times.
TypeOK ==
    /\ event \in [Events -> {"none", "recent", "old", "gone"}]
    /\ subscription \in [Subscriptions -> {"none", "active", "gone"}]
    /\ delivery \in [Pairs -> [status : {"none", "pending", "processing", "delivered", "failed"},
                               attempts : 0 .. MaxAttempts, wait : 0 .. RetryTime,
                               lease : 0 .. LeaseTime, lock : Dispatchers \cup {None}]]
    /\ dispatcher \in [Dispatchers -> [post : SUBSET Pairs, ok : SUBSET Pairs, failed : SUBSET Pairs]]
    /\ posted \in [Pairs -> Nat]
    /\ accepted \subseteq Pairs

Outbox == {e \in Events : event[e] \in {"recent", "old"}}
Subscribed == {s \in Subscriptions : subscription[s] = "active"}

Init ==
    /\ event = [e \in Events |-> "none"]
    /\ subscription = [s \in Subscriptions |-> "none"]
    /\ delivery = [x \in Pairs |-> NoDelivery]
    /\ dispatcher = [d \in Dispatchers |-> NoWork]
    /\ posted = [x \in Pairs |-> 0] /\ accepted = {}

-----------------------------------------------------------------------------
(* Publishing and subscribing.  All three lock the workspace row.          *)

\* The deliveries an event expands to: one for each subscription of now.
Expansion(e) == {e} \X Subscribed

EnqueueWebhookEvent(e) ==
    /\ event[e] = "none"
    /\ event' = [event EXCEPT ![e] = "recent"]
    /\ delivery' = [x \in Pairs |-> IF x \in Expansion(e) THEN NewDelivery ELSE delivery[x]]
    /\ UNCHANGED <<subscription, dispatcher, posted, accepted>>

CreateWebhookSubscription(s) ==
    /\ subscription[s] = "none"
    /\ Cardinality(Subscribed) < MaxSubscriptions
    /\ subscription' = [subscription EXCEPT ![s] = "active"]
    /\ UNCHANGED <<event, delivery, dispatcher, posted, accepted>>

BugRemoved(s) == {<<e, s>> : e \in {f \in Events : delivery[<<f, s>>].status = "pending"}}
\* DeleteWebhookDeliveriesForSubscription: in whatever state they are.
Removed(s) == Events \X {s}

DeleteWebhookSubscription(s) ==
    /\ s \in Subscribed
    /\ subscription' = [subscription EXCEPT ![s] = "gone"]
    /\ delivery' = [x \in Pairs |-> IF x \in Removed(s) THEN NoDelivery ELSE delivery[x]]
    /\ UNCHANGED <<event, dispatcher, posted, accepted>>

-----------------------------------------------------------------------------
(* Dispatching.                                                            *)

BugExpired(x) == FALSE
Expired(x) == delivery[x].status = "processing" /\ delivery[x].lease = 0

Spent(x) == delivery[x].attempts >= MaxAttempts

Due(x) ==
    \/ delivery[x].status = "pending" /\ delivery[x].wait = 0
    \/ Expired(x) /\ ~Spent(x)

BugClaimWebhookDeliveries(d, batch) ==
    /\ dispatcher[d] = NoWork
    /\ delivery' = [x \in Pairs |->
         IF x \in batch
         THEN [delivery[x] EXCEPT !.status = "processing", !.attempts = IF Expired(x) THEN @ ELSE @ + 1,
                                  !.lease = LeaseTime, !.lock = d]
         ELSE IF Expired(x) /\ Spent(x)
         THEN [delivery[x] EXCEPT !.status = "failed", !.lease = 0, !.lock = None]
         ELSE delivery[x]]
    /\ dispatcher' = [dispatcher EXCEPT ![d].post = batch]
    /\ UNCHANGED <<event, subscription, posted, accepted>>

\* Exhausted claims nobody finished are failed first; then a batch is taken.
ClaimWebhookDeliveries(d, batch) ==
    /\ dispatcher[d] = NoWork
    /\ delivery' = [x \in Pairs |->
         IF x \in batch
         THEN [delivery[x] EXCEPT !.status = "processing", !.attempts = @ + 1,
                                  !.lease = LeaseTime, !.lock = d]
         ELSE IF Expired(x) /\ Spent(x)
         THEN [delivery[x] EXCEPT !.status = "failed", !.lease = 0, !.lock = None]
         ELSE delivery[x]]
    /\ dispatcher' = [dispatcher EXCEPT ![d].post = batch]
    /\ UNCHANGED <<event, subscription, posted, accepted>>

\* LIMIT: as many of the due deliveries as the batch holds.
Claim(d) ==
    LET due == {x \in Pairs : Due(x)}
    IN  \E batch \in SUBSET due :
          /\ Cardinality(batch) = Min({Cardinality(due), BatchSize})
          /\ ClaimWebhookDeliveries(d, batch)

\* The receiver takes the event or not; an answer it gave can still be lost.
DeliverWebhook(d, x) ==
    /\ x \in dispatcher[d].post
    /\ posted' = [posted EXCEPT ![x] = @ + 1]
    /\ \/ /\ accepted' = accepted \cup {x}
          /\ dispatcher' = [dispatcher EXCEPT ![d].post = @ \ {x}, ![d].ok = @ \cup {x}]
       \/ /\ UNCHANGED accepted \/ accepted' = accepted \cup {x}
          /\ dispatcher' = [dispatcher EXCEPT ![d].post = @ \ {x}, ![d].failed = @ \cup {x}]
    /\ UNCHANGED <<event, subscription, delivery>>

BugOwns(d, x) == delivery[x].status # "none"
\* The fence of both marks: still processing, still under this claim.
Owns(d, x) == delivery[x].status = "processing" /\ delivery[x].lock = d

MarkWebhookDeliveryDelivered(d, x) ==
    /\ x \in dispatcher[d].ok
    /\ dispatcher' = [dispatcher EXCEPT ![d].ok = @ \ {x}]
    /\ delivery' = IF Owns(d, x)
         THEN [delivery EXCEPT ![x].status = "delivered", ![x].lease = 0, ![x].lock = None]
         ELSE delivery
    /\ UNCHANGED <<event, subscription, posted, accepted>>

MarkWebhookDeliveryFailed(d, x) ==
    /\ x \in dispatcher[d].failed
    /\ dispatcher' = [dispatcher EXCEPT ![d].failed = @ \ {x}]
    /\ delivery' = IF Owns(d, x)
         THEN [delivery EXCEPT ![x].status = IF Spent(x) THEN "failed" ELSE "pending",
                               ![x].wait = IF Spent(x) THEN 0 ELSE RetryTime,
                               ![x].lease = 0, ![x].lock = None]
         ELSE delivery
    /\ UNCHANGED <<event, subscription, posted, accepted>>

\* The process stops; an outcome whose mark failed is dropped the same way.
Crash(d) ==
    /\ dispatcher[d] # NoWork
    /\ dispatcher' = [dispatcher EXCEPT ![d] = NoWork]
    /\ UNCHANGED <<event, subscription, delivery, posted, accepted>>

-----------------------------------------------------------------------------
(* Retention and time.                                                     *)

\* An event passes the thirty-day cutoff.
Age(e) ==
    /\ event[e] = "recent"
    /\ event' = [event EXCEPT ![e] = "old"]
    /\ UNCHANGED <<subscription, delivery, dispatcher, posted, accepted>>

\* The deliveries that go with the retired events.
Retired == {e \in Events : event[e] = "old"} \X Subscriptions

RetainWebhookEvents ==
    /\ \E e \in Events : event[e] = "old"
    /\ event' = [e \in Events |-> IF event[e] = "old" THEN "gone" ELSE event[e]]
    /\ delivery' = [x \in Pairs |-> IF x \in Retired THEN NoDelivery ELSE delivery[x]]
    /\ UNCHANGED <<subscription, dispatcher, posted, accepted>>

Less(n) == IF n = 0 THEN 0 ELSE n - 1

Tick ==
    /\ \E x \in Pairs : delivery[x].wait > 0 \/ delivery[x].lease > 0
    /\ delivery' = [x \in Pairs |->
                      [delivery[x] EXCEPT !.wait = Less(@), !.lease = Less(@)]]
    /\ UNCHANGED <<event, subscription, dispatcher, posted, accepted>>

\* What a running dispatcher does with the batch it took.
Deliver(d) ==
    \E x \in Pairs : DeliverWebhook(d, x) \/ MarkWebhookDeliveryDelivered(d, x)
                       \/ MarkWebhookDeliveryFailed(d, x)

Next ==
    \/ \E e \in Events : EnqueueWebhookEvent(e) \/ Age(e)
    \/ \E s \in Subscriptions : CreateWebhookSubscription(s) \/ DeleteWebhookSubscription(s)
    \/ \E d \in Dispatchers : Claim(d) \/ Deliver(d) \/ Crash(d)
    \/ RetainWebhookEvents \/ Tick

Spec == Init /\ [][Next]_vars

\* Time passes, every replica polls and works through its batch.
Fairness ==
    /\ WF_vars(Tick)
    /\ \A d \in Dispatchers : WF_vars(Claim(d)) /\ WF_vars(Deliver(d))

FairSpec == Spec /\ Fairness

-----------------------------------------------------------------------------
(* Properties.                                                             *)

\* "A concurrent delete cannot leave a delivery without its subscription", nor
\* can retention leave one without its event: the claim joins both.
DeliveriesHaveParents ==
    \A e \in Events, s \in Subscriptions :
        delivery[<<e, s>>].status # "none" => e \in Outbox /\ s \in Subscribed

\* At least once and at most max_attempts times: a delivery is only marked
\* delivered after its receiver took it, and a receiver is sent one event no more
\* than max_attempts times, whatever crashes and expired leases the dispatchers
\* went through.
PostsMatchMarks ==
    \A x \in Pairs :
        /\ delivery[x].status = "delivered" => x \in accepted
        /\ posted[x] <= MaxAttempts

\* A delivery that ended stays as it ended until it is removed: a dispatcher
\* that lost its lease cannot reopen it, and "delivered" is never taken back.
EndedDeliveriesStay ==
    [][\A x \in Pairs : delivery[x].status \in {"delivered", "failed"} =>
          delivery'[x].status \in {delivery[x].status, "none"}]_vars

\* Every delivery ends: delivered, failed, or removed with its parents.
DeliveriesEnd ==
    \A x \in Pairs : delivery[x].status \in {"pending", "processing"}
        ~> delivery[x].status \in {"none", "delivered", "failed"}

=============================================================================
