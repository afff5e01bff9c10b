---------------------------- MODULE EventStream ----------------------------
(***************************************************************************)
(* The event stream of one workspace: transactions that append to          *)
(* event_outbox, an API replica that polls it for one browser, and the     *)
(* browser's EventSource, which takes a snapshot after every ready frame   *)
(* and resumes with Last-Event-ID (internal/server/events.go,              *)
(* sqlc/queries/event_outbox.sql, web/src/api/events.ts).                  *)
(*                                                                         *)
(* Ids are allocated when a row is inserted, not when it is committed.     *)
(* What keeps them in commit order is the workspace row: the insert reads  *)
(* it in an INSERT ... SELECT, which locks it shared until the transaction *)
(* ends, and the expansion of deliveries then locks it exclusively.  Of    *)
(* two transactions that both hold it shared the database rolls one back.  *)
(***************************************************************************)
EXTENDS Integers, Sequences, FiniteSets, FiniteSetsExt

CONSTANTS
    Writers,         \* event transactions open at once
    Limit,           \* events taken by one poll (100)
    MaxEvents,       \* bound: ids allocated
    MaxDisconnects   \* bound: connections lost

StreamAssumption ==
    /\ IsFiniteSet(Writers)
    /\ Limit \in Nat \ {0} /\ MaxEvents \in Nat /\ MaxDisconnects \in Nat

VARIABLES
    writer,   \* each event transaction
    nextId,   \* AUTO_INCREMENT of event_outbox
    outbox,   \* ids of the committed rows
    hidden,   \* ids the stream's filters do not let through
    stream,   \* the replica's side of the connection
    client    \* the browser

vars == <<writer, nextId, outbox, hidden, stream, client>>

Id == 1 .. MaxEvents
NoCursor == -1          \* no Last-Event-ID header
NoWriter == [pc |-> "idle", id |-> 0]
NoStream == [open |-> FALSE, cursor |-> 0, frames |-> << >>]

\* In-flight frames: control frames carry the cursor as their id.
Frame == [kind : {"ready", "event", "checkpoint"}, id : 0 .. MaxEvents]

\* The outbox, both ends of the stream and the frames between them hold values of
\* their types.
TypeOK ==
    /\ writer \in [Writers -> [pc : {"idle", "inserted", "locked"}, id : 0 .. MaxEvents]]
    /\ nextId \in 1 .. MaxEvents + 1
    /\ outbox \subseteq Id /\ hidden \subseteq Id
    /\ stream \in [open : BOOLEAN, cursor : 0 .. MaxEvents, frames : Seq(Frame)]
    /\ client \in [state : {"waiting", "ready", "synced", "refused"}, last : NoCursor .. MaxEvents,
                   seen : SUBSET Id, received : SUBSET Id, drops : 0 .. MaxDisconnects]

Init ==
    /\ writer = [w \in Writers |-> NoWriter]
    /\ nextId = 1 /\ outbox = {} /\ hidden = {}
    /\ stream = NoStream
    /\ client = [state |-> "waiting", last |-> NoCursor, seen |-> {}, received |-> {}, drops |-> 0]

-----------------------------------------------------------------------------
(* Event transactions.                                                     *)

BugHoldsShared(w) == writer[w].pc = "locked"
HoldsShared(w) == writer[w].pc \in {"inserted", "locked"}

HoldsExclusive(w) == writer[w].pc = "locked"

\* The filters' verdict on the event is fixed with it.
InsertEventOutbox(w, hide) ==
    /\ writer[w].pc = "idle" /\ nextId \in Id
    /\ \A v \in Writers : ~HoldsExclusive(v)
    /\ writer' = [writer EXCEPT ![w] = [pc |-> "inserted", id |-> nextId]]
    /\ nextId' = nextId + 1
    /\ hidden' = IF hide THEN hidden \cup {nextId} ELSE hidden
    /\ UNCHANGED <<outbox, stream, client>>

LockWebhookDeliveryExpansionWorkspace(w) ==
    /\ writer[w].pc = "inserted"
    /\ \A v \in Writers \ {w} : ~HoldsShared(v)
    /\ writer' = [writer EXCEPT ![w].pc = "locked"]
    /\ UNCHANGED <<nextId, outbox, hidden, stream, client>>

\* An error, or the victim of the deadlock of two shared holders.
Rollback(w) ==
    /\ writer[w].pc # "idle"
    /\ writer' = [writer EXCEPT ![w] = NoWriter]
    /\ UNCHANGED <<nextId, outbox, hidden, stream, client>>

Commit(w) ==
    /\ writer[w].pc = "locked"
    /\ outbox' = outbox \cup {writer[w].id}
    /\ writer' = [writer EXCEPT ![w] = NoWriter]
    /\ UNCHANGED <<nextId, hidden, stream, client>>

\* Retention removes the oldest rows, all of them when the workspace is idle.
RetainWebhookEvents(i) ==
    /\ i \in outbox
    /\ outbox' = {j \in outbox : j > i}
    /\ UNCHANGED <<writer, nextId, hidden, stream, client>>

-----------------------------------------------------------------------------
(* The stream.                                                             *)

EventOutboxHighWater == Max(outbox \cup {0})

\* A cursor past the high water mark is answered with 400, and an EventSource
\* does not come back from that.
HandleEventStream ==
    /\ client.state # "refused" /\ ~stream.open
    /\ IF client.last > EventOutboxHighWater
       THEN /\ client' = [client EXCEPT !.state = "refused"]
            /\ UNCHANGED stream
       ELSE LET cursor == IF client.last = NoCursor THEN EventOutboxHighWater ELSE client.last
            IN  /\ stream' = [open |-> TRUE, cursor |-> cursor,
                              frames |-> <<[kind |-> "ready", id |-> cursor]>>]
                /\ UNCHANGED client
    /\ UNCHANGED <<writer, nextId, outbox, hidden>>

\* id > cursor, in order, limited.
After(cursor) == {i \in outbox : i > cursor}

Batch == {i \in After(stream.cursor) :
            Cardinality({j \in After(stream.cursor) : j < i}) < Limit}

InOrder(S) == CHOOSE s \in [1 .. Cardinality(S) -> S] :
                /\ \A j, k \in 1 .. Cardinality(S) : j < k => s[j] < s[k]
                /\ \A i \in S : \E k \in 1 .. Cardinality(S) : s[k] = i

\* What a poll writes: the visible events, and a checkpoint when the batch
\* ends with a hidden one.
BatchFrames ==
    LET shown == InOrder(Batch \ hidden)
        end == Max(Batch)
    IN  [k \in DOMAIN shown |-> [kind |-> "event", id |-> shown[k]]]
        \o IF end \in hidden THEN <<[kind |-> "checkpoint", id |-> end]>> ELSE << >>

BugPoll ==
    /\ stream.open /\ Batch # {}
    /\ stream' = [stream EXCEPT !.cursor = EventOutboxHighWater, !.frames = @ \o BatchFrames]
    /\ UNCHANGED <<writer, nextId, outbox, hidden, client>>

Poll ==
    /\ stream.open /\ Batch # {}
    /\ stream' = [stream EXCEPT !.cursor = Max(Batch), !.frames = @ \o BatchFrames]
    /\ UNCHANGED <<writer, nextId, outbox, hidden, client>>

Receive ==
    /\ stream.frames # << >>
    /\ LET f == Head(stream.frames)
       IN  client' = [client EXCEPT
             !.last = f.id,
             !.state = IF f.kind = "ready" THEN "ready" ELSE @,
             !.seen = IF f.kind = "event" THEN @ \cup {f.id} ELSE @,
             !.received = IF f.kind = "event" THEN @ \cup {f.id} ELSE @]
    /\ stream' = [stream EXCEPT !.frames = Tail(@)]
    /\ UNCHANGED <<writer, nextId, outbox, hidden>>

\* After ready the client reads the durable state: all that is committed.
ReconcileSnapshot ==
    /\ client.state = "ready"
    /\ client' = [client EXCEPT !.state = "synced", !.seen = @ \cup outbox]
    /\ UNCHANGED <<writer, nextId, outbox, hidden, stream>>

\* The connection is lost, with the frames in it.
Disconnect ==
    /\ stream.open /\ client.drops < MaxDisconnects
    /\ stream' = NoStream
    /\ client' = [client EXCEPT !.state = "waiting", !.drops = @ + 1]
    /\ UNCHANGED <<writer, nextId, outbox, hidden>>

Next ==
    \/ \E w \in Writers : \/ \E hide \in BOOLEAN : InsertEventOutbox(w, hide)
                          \/ LockWebhookDeliveryExpansionWorkspace(w)
                          \/ Rollback(w) \/ Commit(w)
    \/ \E i \in Id : RetainWebhookEvents(i)
    \/ HandleEventStream \/ Poll \/ Receive \/ ReconcileSnapshot \/ Disconnect

Spec == Init /\ [][Next]_vars

\* The browser reconnects, the poll ticker fires and the network delivers.
Fairness ==
    /\ WF_vars(HandleEventStream) /\ WF_vars(Poll)
    /\ WF_vars(Receive) /\ WF_vars(ReconcileSnapshot)

FairSpec == Spec /\ Fairness

-----------------------------------------------------------------------------
(* Properties.                                                             *)

\* "Completion cannot fall between a snapshot and subscription": a client in
\* sync has seen, in the snapshot or as an event, everything committed that its
\* cursor has passed, because no id commits after a larger one.
NoEventMissed ==
    client.state = "synced" =>
        \A i \in outbox \ hidden : i <= client.last => i \in client.seen

\* The stream "resumes strictly after that cursor": what is on its way to the
\* client is in order and newer than all it received, over every reconnection.
StreamInOrder ==
    LET events == {k \in DOMAIN stream.frames : stream.frames[k].kind = "event"}
    IN  /\ \A j, k \in events : j < k => stream.frames[j].id < stream.frames[k].id
        /\ \A k \in events : \A i \in client.received : i < stream.frames[k].id

\* What the browser may rely on.
ClientInSync == NoEventMissed /\ StreamInOrder

\* A cursor that the server put into a frame is one a reconnection may resume
\* from: "the server resumes strictly after that cursor".
IssuedCursorAccepted == client.state # "refused"

\* A committed event reaches the client, by the stream or by a snapshot, unless
\* retention removes it or the client is refused.
ClientCatchesUp ==
    \A i \in Id : (i \in outbox \ hidden)
        ~> (i \in client.seen \/ i \notin outbox \/ client.state = "refused")

=============================================================================
