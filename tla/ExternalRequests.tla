-------------------------- MODULE ExternalRequests --------------------------
(***************************************************************************)
(* One idempotency key: its external_requests record, the calls that       *)
(* present it, the result they commit, the deletion of that result and the *)
(* retention of the record (internal/store/transcription_jobs.go and the   *)
(* ImportManifest, ProcessImageURL, ProcessHOCR and ReprocessItemImage     *)
(* handlers).                                                              *)
(*                                                                         *)
(* One action is one database transaction.  The lease owner is a fresh     *)
(* value for every claim, so it is the claim's number; the item, or the    *)
(* new revision, that a call commits is named by its claim too.            *)
(***************************************************************************)
EXTENDS Integers, FiniteSets

CONSTANTS
    Calls,          \* calls in flight at once with this key
    Payloads,       \* what they ask for: the request hash
    ForItemImage,   \* TRUE for a reprocess, whose key is one revision of an image
    Deadline,       \* TRUE when the handler bounds its work (manifest imports)
    MaxAttempts,    \* external_requests.max_attempts
    LeaseTime,      \* the ten minutes of a reservation, in ticks
    WorkTime,       \* the handler's own deadline, in ticks
    RetentionTime,  \* the age at which a record is removed, in ticks
    MaxClaims       \* bound: claims in a behaviour

RequestAssumption ==
    /\ IsFiniteSet(Calls) /\ IsFiniteSet(Payloads) /\ Payloads # {}
    /\ ForItemImage \in BOOLEAN /\ Deadline \in BOOLEAN
    /\ {MaxAttempts, LeaseTime, WorkTime, RetentionTime, MaxClaims} \subseteq Nat \ {0}
    /\ WorkTime < LeaseTime /\ LeaseTime < RetentionTime

VARIABLES
    row,      \* the external_requests record
    call,     \* the memory of each call
    claims,   \* claims handed out so far
    page,     \* the reprocessed page: at the key's revision, past it, or deleted
    results,  \* the items, or revisions, committed under this record
    answers   \* history: what callers were answered under this record

vars == <<row, call, claims, page, results, answers>>

Claim == 1 .. MaxClaims
Result == [claim : Claim, payload : Payloads]
AnyPayload == CHOOSE p \in Payloads : TRUE

NoRow == [status |-> "none", payload |-> AnyPayload, attempts |-> 0,
          lock |-> 0, lease |-> 0, result |-> 0, age |-> 0]
Idle == [pc |-> "idle", payload |-> AnyPayload, claim |-> 0, left |-> 0]

\* The record and the calls hold values of their types; a key is never claimed
\* more than MaxAttempts times under one record.
TypeOK ==
    /\ row \in [status : {"none", "in_progress", "completed", "failed"},
                payload : Payloads, attempts : 0 .. MaxAttempts, lock : 0 .. MaxClaims,
                lease : 0 .. LeaseTime, result : 0 .. MaxClaims, age : 0 .. RetentionTime]
    /\ call \in [Calls -> [pc : {"idle", "ready", "waiting", "working", "done"},
                           payload : Payloads, claim : 0 .. MaxClaims, left : 0 .. WorkTime]]
    /\ claims \in 0 .. MaxClaims
    /\ page \in {"base", "moved", "deleted"}
    /\ results \subseteq Result
    /\ answers \subseteq [result : Claim, payload : Payloads]

Init ==
    /\ row = NoRow
    /\ call = [c \in Calls |-> Idle]
    /\ claims = 0 /\ page = "base"
    /\ results = {} /\ answers = {}

-----------------------------------------------------------------------------
(* Reserving the key.                                                      *)

\* now After lease_until.
Expired == row.status = "in_progress" /\ row.lease = 0

BugExhausted == row.attempts > MaxAttempts
Exhausted == row.attempts >= MaxAttempts

\* A reprocess first compares the page it read with the key's revision.
Begin(c, p) ==
    /\ call[c] = Idle
    /\ ForItemImage => page = "base"
    /\ call' = [call EXCEPT ![c].pc = "ready", ![c].payload = p]
    /\ UNCHANGED <<row, claims, page, results, answers>>

\* The transaction gives c the key: claimed by row r, with a new lease.
Claims(c, r) ==
    /\ claims < MaxClaims
    /\ claims' = claims + 1
    /\ row' = [r EXCEPT !.status = "in_progress", !.attempts = @ + 1, !.lock = claims + 1,
                        !.lease = LeaseTime, !.result = 0, !.age = 0]
    /\ call' = [call EXCEPT ![c].pc = "waiting", ![c].claim = claims + 1, ![c].left = WorkTime]
    /\ UNCHANGED <<page, results, answers>>

InsertExternalRequest(c) ==
    /\ call[c].pc = "ready" /\ page # "deleted"
    /\ row = NoRow
    /\ Claims(c, [NoRow EXCEPT !.payload = call[c].payload])

BugSamePayload(c) == TRUE
\* request_hash of the record and of the call; a mismatch is an error.
SamePayload(c) == row.payload = call[c].payload

ReclaimExternalRequest(c) ==
    /\ call[c].pc = "ready" /\ page # "deleted" /\ SamePayload(c)
    /\ row.status = "failed" \/ Expired
    /\ ~Exhausted
    /\ Claims(c, row)

\* An abandoned last attempt is failed by the next call with the key.
FailExhausted(c) ==
    /\ call[c].pc = "ready" /\ page # "deleted" /\ SamePayload(c)
    /\ Expired /\ Exhausted
    /\ row' = [row EXCEPT !.status = "failed", !.lock = 0, !.lease = 0, !.age = 0]
    /\ call' = [call EXCEPT ![c] = Idle]
    /\ UNCHANGED <<claims, page, results, answers>>

\* The committed result is answered again.
Replay(c) ==
    /\ call[c].pc = "ready" /\ page # "deleted" /\ SamePayload(c)
    /\ row.status = "completed"
    /\ answers' = answers \cup {[result |-> row.result, payload |-> call[c].payload]}
    /\ call' = [call EXCEPT ![c] = Idle]
    /\ UNCHANGED <<row, claims, page, results>>

\* A reprocess that finds its revision gone looks for the record instead.
ReplayMoved(c, p) ==
    /\ ForItemImage /\ page = "moved"
    /\ call[c] = Idle
    /\ row.status = "completed" /\ row.payload = p
    /\ answers' = answers \cup {[result |-> row.result, payload |-> p]}
    /\ UNCHANGED <<row, call, claims, page, results>>

\* Wrong payload, somebody else's live lease, attempts exhausted, image gone.
Refused(c) ==
    /\ call[c].pc = "ready"
    /\ \/ page = "deleted"
       \/ row # NoRow /\ ~SamePayload(c)
       \/ row.status = "in_progress" /\ ~Expired
       \/ row.status = "failed" /\ Exhausted
    /\ call' = [call EXCEPT ![c] = Idle]
    /\ UNCHANGED <<row, claims, page, results, answers>>

-----------------------------------------------------------------------------
(* Working under the claim.                                                *)

\* The import deadline covers the wait for a slot and every remote read.
InTime(c) == Deadline => call[c].left > 0

Working(c) == call[c].pc = "working" /\ InTime(c)

AcquireSlot(c) ==
    /\ call[c].pc = "waiting" /\ InTime(c)
    /\ call' = [call EXCEPT ![c].pc = "working"]
    /\ UNCHANGED <<row, claims, page, results, answers>>

Process(c) ==
    /\ Working(c)
    /\ call' = [call EXCEPT ![c].pc = "done"]
    /\ UNCHANGED <<row, claims, page, results, answers>>

BugOwns(c) == TRUE
\* The fence of complete and fail: the claim, not the lease.
Owns(c) == row.status = "in_progress" /\ row.lock = call[c].claim

\* The result and the record's completion are one transaction; a reprocess
\* also moves the page from the revision it expects.  The answer may be lost.
CommitExternalRequest(c, answered) ==
    /\ call[c].pc = "done" /\ Owns(c)
    /\ ForItemImage => page = "base"
    /\ row' = [row EXCEPT !.status = "completed", !.lock = 0, !.lease = 0,
                          !.result = call[c].claim, !.age = 0]
    /\ results' = results \cup {[claim |-> call[c].claim, payload |-> call[c].payload]}
    /\ page' = IF ForItemImage THEN "moved" ELSE page
    /\ answers' = IF answered
                  THEN answers \cup {[result |-> call[c].claim, payload |-> call[c].payload]}
                  ELSE answers
    /\ call' = [call EXCEPT ![c] = Idle]
    /\ UNCHANGED claims

\* Any error, a commit the fence or the revision rolled back included.
FailExternalRequest(c) ==
    /\ call[c].pc \in {"waiting", "working", "done"}
    /\ row' = IF Owns(c)
              THEN [row EXCEPT !.status = "failed", !.lock = 0, !.lease = 0, !.age = 0]
              ELSE row
    /\ call' = [call EXCEPT ![c] = Idle]
    /\ UNCHANGED <<claims, page, results, answers>>

\* The process stops, or its failure could not be recorded.
Crash(c) ==
    /\ call[c].pc # "idle"
    /\ call' = [call EXCEPT ![c] = Idle]
    /\ UNCHANGED <<row, claims, page, results, answers>>

-----------------------------------------------------------------------------
(* The result's own life, and the record's.                                *)

\* An editor saves the page before the reprocess commits.
SavePage ==
    /\ ForItemImage /\ page = "base"
    /\ page' = "moved"
    /\ UNCHANGED <<row, call, claims, results, answers>>

\* Deleting the item, or the image, takes the records that name it along.
DeleteItem ==
    /\ IF ForItemImage THEN page # "deleted" ELSE results # {}
    /\ page' = IF ForItemImage THEN "deleted" ELSE page
    /\ row' = NoRow
    /\ results' = {} /\ answers' = {}
    /\ UNCHANGED <<call, claims>>

Retainable == row.status \in {"completed", "failed"} \/ Expired

\* The key is forgotten: what was committed under it is no longer its result.
RetainExternalRequests ==
    /\ Retainable /\ row.age = RetentionTime
    /\ row' = NoRow
    /\ results' = {} /\ answers' = {}
    /\ UNCHANGED <<call, claims, page>>

Less(n) == IF n = 0 THEN 0 ELSE n - 1

Tick ==
    /\ row # NoRow
    /\ row' = [row EXCEPT !.lease = Less(@), !.age = IF @ < RetentionTime THEN @ + 1 ELSE @]
    /\ call' = [c \in Calls |-> [call[c] EXCEPT !.left = Less(@)]]
    /\ UNCHANGED <<claims, page, results, answers>>

Reserve(c) ==
    InsertExternalRequest(c) \/ ReclaimExternalRequest(c) \/ FailExhausted(c)
      \/ Replay(c) \/ Refused(c)

Next ==
    \/ \E c \in Calls, p \in Payloads : Begin(c, p) \/ ReplayMoved(c, p)
    \/ \E c \in Calls : \/ Reserve(c) \/ AcquireSlot(c) \/ Process(c)
                        \/ \E answered \in BOOLEAN : CommitExternalRequest(c, answered)
                        \/ FailExternalRequest(c) \/ Crash(c)
    \/ SavePage \/ DeleteItem \/ RetainExternalRequests \/ Tick

Spec == Init /\ [][Next]_vars

\* Time passes and the hourly retention runs; no call has to go on.
Fairness == WF_vars(Tick) /\ WF_vars(RetainExternalRequests)

FairSpec == Spec /\ Fairness

-----------------------------------------------------------------------------
(* Properties.                                                             *)

\* The same key never makes a second item (or a second reprocessed page): what
\* exists under the record is what the record answers with, however many calls
\* outlived their lease and tried to commit late.
OneResultPerKey ==
    {r.claim : r \in results} = IF row.status = "completed" THEN {row.result} ELSE {}

\* Every answer under the key names the committed result, and that result was
\* made from what the answered caller had asked for.
AnswersAgree ==
    \A a \in answers : [claim |-> a.result, payload |-> a.payload] \in results

\* No two calls with one key do the remote work (fetch or segment) at the same
\* time: a key is only claimed again when its holder stopped.
OneWorkerPerKey ==
    \A c, d \in Calls : Working(c) /\ Working(d) => c = d

\* What callers with one key may rely on, with or without a bound on the work.
KeysAgree == AnswersAgree /\ OneResultPerKey /\ (Deadline => OneWorkerPerKey)

\* A caller that dies, on its last attempt too, does not hold the key forever,
\* even if nobody presents it again.
KeySettles ==
    row.status = "in_progress" ~> row.status # "in_progress"

=============================================================================
