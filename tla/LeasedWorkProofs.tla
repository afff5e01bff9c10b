-------------------------- MODULE LeasedWorkProofs --------------------------
(***************************************************************************)
(* The two kinds of work, beside the queue, that are done under a lease:   *)
(*   - what an idempotency key guarantees its callers, for any number of   *)
(*     calls, payloads, claims and attempts and any times that keep the    *)
(*     work shorter than the lease;                                        *)
(*   - that the mirror shows the published page, for any number of         *)
(*     Annotations, dispatchers, publications and attempts and any times   *)
(*     that keep a delivery shorter than its lease.                        *)
(***************************************************************************)
EXTENDS ExternalRequests, Sequences, TLAPS

-----------------------------------------------------------------------------
(* The inductive invariant.                                                *)

InFlight(c) == call[c].pc \in {"waiting", "working", "done"}

\* What was committed under the record is what the record names.
ResultsInv ==
    results = IF row.status = "completed" THEN {[claim |-> row.result, payload |-> row.payload]} ELSE {}

\* Claims are handed out once, and the owner asked for what the record is for.
OwnersInv ==
    /\ \A c \in Calls : InFlight(c) => call[c].claim \in 1 .. claims
    /\ \A c, d \in Calls : InFlight(c) /\ InFlight(d) /\ call[c].claim = call[d].claim => c = d
    /\ \A c \in Calls : InFlight(c) /\ Owns(c) => call[c].payload = row.payload

\* A call that still has time.
Timely(c) == call[c].pc \in {"waiting", "working"} /\ call[c].left > 0

\* It owns the record under a lease longer than its time, unless its image was
\* deleted, and then nobody claims the key again.
LeaseInv ==
    /\ \A c \in Calls : Timely(c) => page = "deleted" \/ (Owns(c) /\ row.lease > call[c].left)
    /\ \A c, d \in Calls : Timely(c) /\ Timely(d) => c = d

KeyInv == TypeOK /\ ResultsInv /\ AnswersAgree /\ OwnersInv /\ LeaseInv

-----------------------------------------------------------------------------

\* The bounds are positive, and the work ends before the lease does.
LEMMA Times ==
  ASSUME RequestAssumption
  PROVE  /\ MaxAttempts \in Nat \ {0} /\ LeaseTime \in Nat \ {0} /\ WorkTime \in Nat \ {0}
         /\ RetentionTime \in Nat \ {0} /\ MaxClaims \in Nat \ {0}
         /\ WorkTime < LeaseTime /\ AnyPayload \in Payloads
BY DEF RequestAssumption, AnyPayload

RowType == [status : {"none", "in_progress", "completed", "failed"},
            payload : Payloads, attempts : 0 .. MaxAttempts, lock : 0 .. MaxClaims,
            lease : 0 .. LeaseTime, result : 0 .. MaxClaims, age : 0 .. RetentionTime]

CallType == [pc : {"idle", "ready", "waiting", "working", "done"},
             payload : Payloads, claim : 0 .. MaxClaims, left : 0 .. WorkTime]

\* The initial record and memory have their types.
LEMMA EmptyTypes ==
  ASSUME RequestAssumption
  PROVE  NoRow \in RowType /\ Idle \in CallType
BY Times DEF NoRow, Idle, RowType, CallType

\* The type invariant in terms of the two record types.
LEMMA Types == TypeOK <=> /\ row \in RowType /\ call \in [Calls -> CallType]
                          /\ claims \in 0 .. MaxClaims /\ page \in {"base", "moved", "deleted"}
                          /\ results \subseteq Result /\ answers \subseteq [result : Claim, payload : Payloads]
BY DEF TypeOK, RowType, CallType

\* A step that lets one call stop, and leaves the record alone, keeps the invariant.
LEMMA Stops ==
  ASSUME RequestAssumption, KeyInv, NEW c \in Calls, call' = [call EXCEPT ![c] = Idle],
         UNCHANGED <<row, claims, page, results>>,
         \A a \in answers' : a \in answers \/ (a \in [result : Claim, payload : Payloads]
                                               /\ [claim |-> a.result, payload |-> a.payload] \in results)
  PROVE  KeyInv'
<1>1. Idle \in CallType /\ Idle.pc = "idle"
  BY EmptyTypes DEF Idle
<1>2. TypeOK'
  <2>1. call' \in [Calls -> CallType]
    BY <1>1, Types DEF KeyInv
  <2> QED
    BY Zenon, <2>1, Types DEF KeyInv, TypeOK, CallType
<1>3. \A d \in Calls : call'[d] = IF d = c THEN Idle ELSE call[d]
  BY DEF KeyInv, TypeOK
<1>4. ResultsInv' /\ AnswersAgree'
  BY DEF KeyInv, ResultsInv, AnswersAgree
<1>5. OwnersInv'
  BY <1>1, <1>3 DEF KeyInv, OwnersInv, InFlight, Owns
<1>6. LeaseInv'
  BY <1>1, <1>3 DEF KeyInv, LeaseInv, Timely, Owns
<1> QED
  BY <1>2, <1>4, <1>5, <1>6 DEF KeyInv

\* The three ways in which statements write a record, for columns of any type.
LEMMA Columns ==
  ASSUME NEW S, NEW P, NEW A, NEW L, NEW E, NEW R, NEW G,
         NEW r \in [status : S, payload : P, attempts : A, lock : L, lease : E, result : R, age : G],
         NEW s \in S, NEW a \in A, NEW l \in L, NEW e \in E, NEW t \in R, NEW g \in G
  PROVE  LET type == [status : S, payload : P, attempts : A, lock : L, lease : E, result : R, age : G]
         IN  /\ [r EXCEPT !.status = s, !.attempts = a, !.lock = l, !.lease = e, !.result = t, !.age = g] \in type
             /\ [r EXCEPT !.status = s, !.lock = l, !.lease = e, !.result = t, !.age = g] \in type
             /\ [r EXCEPT !.status = s, !.lock = l, !.lease = e, !.age = g] \in type
<1> DEFINE type == [status : S, payload : P, attempts : A, lock : L, lease : E, result : R, age : G]
<1>1. [r EXCEPT !.status = s, !.attempts = a, !.lock = l, !.lease = e, !.result = t, !.age = g] \in type
  BY Zenon
<1>2. [r EXCEPT !.status = s, !.lock = l, !.lease = e, !.result = t, !.age = g] \in type
  BY Zenon
<1>3. [r EXCEPT !.status = s, !.lock = l, !.lease = e, !.age = g] \in type
  BY Zenon
<1> QED
  BY <1>1, <1>2, <1>3

\* A record that is claimed, completed or failed.
Claimed(r, n) == [r EXCEPT !.status = "in_progress", !.attempts = @ + 1, !.lock = n, !.lease = LeaseTime,
                           !.result = 0, !.age = 0]
Completed(r, n) == [r EXCEPT !.status = "completed", !.lock = 0, !.lease = 0, !.result = n, !.age = 0]
Failed(r) == [r EXCEPT !.status = "failed", !.lock = 0, !.lease = 0, !.age = 0]

\* It keeps its type and its payload.
LEMMA RowFields ==
  ASSUME RequestAssumption, NEW r \in RowType, NEW n \in 0 .. MaxClaims
  PROVE  /\ r.attempts < MaxAttempts => Claimed(r, n) \in RowType
         /\ Claimed(r, n).status = "in_progress" /\ Claimed(r, n).lock = n /\ Claimed(r, n).lease = LeaseTime
         /\ Claimed(r, n).payload = r.payload
         /\ Completed(r, n) \in RowType /\ Completed(r, n).status = "completed"
         /\ Completed(r, n).payload = r.payload /\ Completed(r, n).result = n
         /\ Failed(r) \in RowType /\ Failed(r).status = "failed"
<1>1. /\ 0 \in 0 .. RetentionTime /\ 0 \in 0 .. MaxClaims /\ 0 \in 0 .. LeaseTime /\ LeaseTime \in 0 .. LeaseTime
      /\ r.attempts < MaxAttempts => r.attempts + 1 \in 0 .. MaxAttempts
      /\ r.attempts \in 0 .. MaxAttempts
  BY Times DEF RowType
<1>2. r.attempts < MaxAttempts => Claimed(r, n) \in RowType
  BY Zenon, <1>1, Columns DEF RowType, Claimed
<1>3. Completed(r, n) \in RowType
  BY Zenon, <1>1, Columns DEF RowType, Completed
<1>4. Failed(r) \in RowType
  BY Zenon, <1>1, Columns DEF RowType, Failed
<1>5. /\ Claimed(r, n).status = "in_progress" /\ Claimed(r, n).lock = n /\ Claimed(r, n).lease = LeaseTime
      /\ Claimed(r, n).payload = r.payload
  BY DEF RowType, Claimed
<1>6. Completed(r, n).status = "completed" /\ Completed(r, n).payload = r.payload /\ Completed(r, n).result = n
  BY DEF RowType, Completed
<1>7. Failed(r).status = "failed"
  BY DEF RowType, Failed
<1> QED
  BY <1>2, <1>3, <1>4, <1>5, <1>6, <1>7

\* What a claim does, to the first record or to one that ended or expired.
LEMMA ClaimStep ==
  ASSUME RequestAssumption, KeyInv, NEW c \in Calls, NEW r \in RowType, Claims(c, r),
         page # "deleted", r.payload = call[c].payload, r.attempts < MaxAttempts, r.status # "completed",
         row.status # "completed", row.status = "in_progress" => row.lease = 0
  PROVE  KeyInv'
<1> DEFINE n == claims + 1
           x == Claimed(r, n)
           m == [call[c] EXCEPT !.pc = "waiting", !.claim = n, !.left = WorkTime]
<1>1. /\ row' = x /\ call' = [call EXCEPT ![c] = m] /\ claims' = n /\ claims < MaxClaims
      /\ UNCHANGED <<page, results, answers>>
  BY Zenon DEF Claims, Claimed, KeyInv, TypeOK
<1>2. call \in [Calls -> CallType] /\ claims \in Nat /\ n \in 1 .. MaxClaims /\ call[c] \in CallType
  BY <1>1, Times, Types DEF KeyInv
<1>3. x.status = "in_progress" /\ x.lock = n /\ x.lease = LeaseTime /\ x.payload = call[c].payload /\ x \in RowType
  <2>1. n \in 0 .. MaxClaims
    BY <1>2, Times
  <2> QED
    BY <2>1, RowFields
<1>4. m.pc = "waiting" /\ m.claim = n /\ m.left = WorkTime /\ m.payload = call[c].payload /\ m \in CallType
  <2>1. n \in 0 .. MaxClaims /\ WorkTime \in 0 .. WorkTime
    BY <1>2, Times
  <2> HIDE DEF n
  <2> QED
    BY Zenon, <1>2, <2>1 DEF CallType
<1> HIDE DEF x, m
<1>5. \A d \in Calls : call'[d] = IF d = c THEN m ELSE call[d]
  BY <1>1, <1>2
<1>6. TypeOK'
  <2>1. row' \in RowType /\ call' \in [Calls -> CallType] /\ claims' \in 0 .. MaxClaims
    BY <1>1, <1>2, <1>3, <1>4, Times
  <2> QED
    BY <1>1, <2>1 DEF KeyInv, TypeOK, RowType, CallType
<1>7. ResultsInv' /\ AnswersAgree'
  BY <1>1, <1>3 DEF KeyInv, ResultsInv, AnswersAgree
<1>8. ASSUME NEW d \in Calls, d # c, InFlight(d)
      PROVE  call[d].claim \in 1 .. claims /\ call[d].claim # n
  BY <1>2, <1>8 DEF KeyInv, OwnersInv
<1>9. OwnersInv'
  <2>1. \A d \in Calls : InFlight(d)' => call'[d].claim \in 1 .. claims'
    BY <1>1, <1>2, <1>4, <1>5, <1>8 DEF InFlight
  <2>2. \A d, e \in Calls : InFlight(d)' /\ InFlight(e)' /\ call'[d].claim = call'[e].claim => d = e
    BY <1>4, <1>5, <1>8 DEF KeyInv, OwnersInv, InFlight
  <2>3. \A d \in Calls : InFlight(d)' /\ Owns(d)' => call'[d].payload = row'.payload
    BY <1>1, <1>3, <1>4, <1>5, <1>8 DEF InFlight, Owns
  <2> QED
    BY <2>1, <2>2, <2>3 DEF OwnersInv
<1>10. LeaseInv'
  <2>1. \A d \in Calls : ~Timely(d)
    <3> SUFFICES ASSUME NEW d \in Calls, Timely(d) PROVE FALSE
      OBVIOUS
    <3>1. Owns(d) /\ row.lease > call[d].left /\ call[d].left > 0 /\ call[d].left \in Nat
      BY <1>2, Times DEF KeyInv, LeaseInv, Timely, CallType
    <3> QED
      BY <3>1 DEF Owns
  <2>2. \A d \in Calls : Timely(d)' => d = c
    BY <1>5, <2>1 DEF Timely
  <2>3. Owns(c)' /\ row'.lease > call'[c].left
    BY <1>1, <1>3, <1>4, <1>5, Times DEF Owns
  <2> QED
    BY <2>2, <2>3 DEF LeaseInv
<1> QED
  BY <1>6, <1>7, <1>9, <1>10 DEF KeyInv

\* What it takes to let go of the record: call c stops, the record ends, and no call
\* with time left depended on it.
LEMMA EndStep ==
  ASSUME RequestAssumption, KeyInv, NEW c \in Calls, call' = [call EXCEPT ![c] = Idle],
         row' \in RowType, row'.status \in {"completed", "failed"}, UNCHANGED claims,
         page' = page \/ (page = "base" /\ page' = "moved"),
         results' \subseteq Result, answers' \subseteq [result : Claim, payload : Payloads],
         ResultsInv', AnswersAgree', \A d \in Calls \ {c} : Timely(d) => page = "deleted"
  PROVE  KeyInv'
<1>1. Idle \in CallType /\ Idle.pc = "idle"
  BY EmptyTypes DEF Idle
<1>2. TypeOK'
  <2>1. call' \in [Calls -> CallType]
    BY <1>1, Types DEF KeyInv
  <2> QED
    BY <2>1, Types DEF KeyInv, TypeOK, CallType, RowType
<1>3. \A d \in Calls : call'[d] = IF d = c THEN Idle ELSE call[d]
  BY DEF KeyInv, TypeOK
<1>4. OwnersInv'
  BY <1>1, <1>3 DEF KeyInv, OwnersInv, InFlight, Owns
<1>5. LeaseInv'
  BY <1>1, <1>3 DEF KeyInv, LeaseInv, Timely
<1> QED
  BY <1>2, <1>4, <1>5 DEF KeyInv

\* The owner of the record is alone with it.
LEMMA OwnerAlone ==
  ASSUME RequestAssumption, KeyInv, NEW c \in Calls, InFlight(c), Owns(c)
  PROVE  \A d \in Calls \ {c} : Timely(d) => page = "deleted"
BY DEF KeyInv, LeaseInv, OwnersInv, InFlight, Timely, Owns

\* The first claim of a key, and a claim of a record that failed or expired.
LEMMA ReserveStep ==
  ASSUME RequestAssumption, KeyInv, NEW c \in Calls, Reserve(c)
  PROVE  KeyInv'
<1>1. row \in RowType /\ call \in [Calls -> CallType] /\ call[c] \in CallType
  BY Types DEF KeyInv
<1>2. CASE InsertExternalRequest(c)
  <2> DEFINE r == [NoRow EXCEPT !.payload = call[c].payload]
  <2>1. /\ r \in RowType /\ r.payload = call[c].payload /\ r.attempts < MaxAttempts /\ r.status = "none"
        /\ row.status = "none" /\ Claims(c, r) /\ page # "deleted"
    BY <1>1, <1>2, EmptyTypes, Times DEF InsertExternalRequest, RowType, CallType, NoRow
  <2> HIDE DEF r
  <2> QED
    BY <2>1, ClaimStep
<1>3. CASE ReclaimExternalRequest(c)
  <2>1. /\ Claims(c, row) /\ page # "deleted" /\ row.payload = call[c].payload /\ row.attempts < MaxAttempts
        /\ row.status # "completed" /\ (row.status = "in_progress" => row.lease = 0)
    BY <1>1, <1>3, Times DEF ReclaimExternalRequest, SamePayload, Expired, Exhausted, RowType
  <2> QED
    BY <1>1, <2>1, ClaimStep
<1>4. CASE FailExhausted(c)
  <2>1. row' \in RowType /\ row'.status = "failed"
    <3>1. row' = Failed(row)
      BY <1>4 DEF FailExhausted, Failed
    <3>2. 0 \in 0 .. MaxClaims
      BY Times
    <3> QED
      BY <1>1, <3>1, <3>2, RowFields
  <2>2. /\ call' = [call EXCEPT ![c] = Idle] /\ UNCHANGED <<claims, page, results, answers>> /\ results = {}
        /\ row.status = "in_progress" /\ row.lease = 0
    BY <1>4 DEF FailExhausted, Expired, KeyInv, ResultsInv
  <2>3. ResultsInv' /\ AnswersAgree'
    BY <2>1, <2>2 DEF KeyInv, ResultsInv, AnswersAgree
  <2>4. ASSUME NEW d \in Calls, Timely(d) PROVE page = "deleted"
    <3>1. call[d].left \in Nat /\ call[d].left > 0
      BY <1>1, <2>4, Times DEF Timely, CallType
    <3> QED
      BY <2>2, <2>4, <3>1 DEF KeyInv, LeaseInv
  <2> QED
    BY Zenon, <2>1, <2>2, <2>3, <2>4, EndStep DEF KeyInv, TypeOK
<1>5. CASE Replay(c)
  <2> DEFINE a == [result |-> row.result, payload |-> call[c].payload]
  <2>1. /\ answers' = answers \cup {a} /\ call' = [call EXCEPT ![c] = Idle] /\ UNCHANGED <<row, claims, page, results>>
        /\ row.status = "completed" /\ row.payload = call[c].payload
    BY <1>5 DEF Replay, SamePayload
  <2>2. [claim |-> a.result, payload |-> a.payload] \in results
    BY <2>1 DEF KeyInv, ResultsInv
  <2>3. [claim |-> a.result, payload |-> a.payload] \in Result
    BY <2>2 DEF KeyInv, TypeOK
  <2>4. a \in [result : Claim, payload : Payloads]
    BY <2>3 DEF Result
  <2> HIDE DEF a
  <2> QED
    BY Zenon, <2>1, <2>2, <2>4, Stops
<1>6. CASE Refused(c)
  BY Zenon, <1>6, Stops DEF Refused
<1> QED
  BY <1>2, <1>3, <1>4, <1>5, <1>6 DEF Reserve

\* The commit of the owner is the only one, and makes what the record asks for.
LEMMA CommitStep ==
  ASSUME RequestAssumption, KeyInv, NEW c \in Calls, NEW answered \in BOOLEAN, CommitExternalRequest(c, answered)
  PROVE  KeyInv'
<1> DEFINE me == call[c]
           made == [claim |-> me.claim, payload |-> me.payload]
           told == [result |-> me.claim, payload |-> me.payload]
<1>1. row \in RowType /\ call \in [Calls -> CallType] /\ me \in CallType
  BY Types DEF KeyInv
<1>2. /\ InFlight(c) /\ Owns(c) /\ call' = [call EXCEPT ![c] = Idle] /\ UNCHANGED claims
      /\ page' = page \/ (page = "base" /\ page' = "moved")
      /\ results' = results \cup {made} /\ (answers' = answers \/ answers' = answers \cup {told})
      /\ row' = Completed(row, me.claim)
  BY DEF CommitExternalRequest, Completed, InFlight
<1>3. row' \in RowType /\ row'.status = "completed" /\ row'.result = me.claim /\ row'.payload = row.payload
  <2>1. me.claim \in 0 .. MaxClaims
    BY <1>1 DEF CallType
  <2> HIDE DEF me
  <2> QED
    BY <1>1, <1>2, <2>1, RowFields
<1>4. row.status = "in_progress" /\ results = {} /\ answers = {} /\ me.payload = row.payload
  BY <1>2 DEF Owns, KeyInv, ResultsInv, AnswersAgree, OwnersInv
<1>5. me.claim \in Claim /\ me.payload \in Payloads
  <2>1. claims \in 0 .. MaxClaims /\ me.claim \in 1 .. claims
    BY <1>2 DEF KeyInv, TypeOK, OwnersInv
  <2> QED
    BY <1>1, <2>1, Times DEF CallType, Claim
<1>6. results' \subseteq Result /\ answers' \subseteq [result : Claim, payload : Payloads]
  BY <1>2, <1>4, <1>5 DEF Result
<1>7. ResultsInv' /\ AnswersAgree'
  BY <1>2, <1>3, <1>4 DEF ResultsInv, AnswersAgree
<1>8. \A d \in Calls \ {c} : Timely(d) => page = "deleted"
  BY <1>2, OwnerAlone
<1> QED
  BY Zenon, <1>2, <1>3, <1>6, <1>7, <1>8, EndStep

\* The other steps of a call.
LEMMA CallStep ==
  ASSUME RequestAssumption, KeyInv, NEW c \in Calls,
         \/ \E p \in Payloads : Begin(c, p) \/ ReplayMoved(c, p)
         \/ AcquireSlot(c) \/ Process(c) \/ FailExternalRequest(c) \/ Crash(c)
  PROVE  KeyInv'
<1>1. row \in RowType /\ call \in [Calls -> CallType] /\ call[c] \in CallType
  BY Types DEF KeyInv
\* A call that goes on keeps its claim and gains no time.
<1>2. ASSUME NEW m \in CallType, call' = [call EXCEPT ![c] = m], UNCHANGED <<row, claims, page, results, answers>>,
             m.pc \in {"waiting", "working", "done"} =>
               InFlight(c) /\ m.claim = call[c].claim /\ m.payload = call[c].payload,
             m.pc \in {"waiting", "working"} => m.left = call[c].left /\ call[c].pc \in {"waiting", "working"}
      PROVE  KeyInv'
  <2>1. \A d \in Calls : call'[d] = IF d = c THEN m ELSE call[d]
    BY <1>1, <1>2
  <2>2. TypeOK'
    <3>1. call' \in [Calls -> CallType]
      BY <1>1, <1>2
    <3> QED
      BY <1>2, <3>1 DEF KeyInv, TypeOK, CallType
  <2>3. ResultsInv' /\ AnswersAgree'
    BY <1>2 DEF KeyInv, ResultsInv, AnswersAgree
  <2>4. OwnersInv'
    BY <1>2, <2>1 DEF KeyInv, OwnersInv, InFlight, Owns
  <2>5. LeaseInv'
    BY <1>2, <2>1 DEF KeyInv, LeaseInv, Timely, Owns, InFlight
  <2> QED
    BY <2>2, <2>3, <2>4, <2>5 DEF KeyInv
<1>3. ASSUME NEW p \in Payloads, Begin(c, p) PROVE KeyInv'
  <2> DEFINE m == [call[c] EXCEPT !.pc = "ready", !.payload = p]
  <2>1. m \in CallType /\ m.pc = "ready"
    BY Zenon, <1>1 DEF CallType
  <2>2. call' = [call EXCEPT ![c] = m] /\ UNCHANGED <<row, claims, page, results, answers>>
    BY Zenon, <1>1, <1>3 DEF Begin
  <2> HIDE DEF m
  <2> QED
    BY Zenon, <1>2, <2>1, <2>2
<1>4. ASSUME NEW p \in Payloads, ReplayMoved(c, p) PROVE KeyInv'
  <2> DEFINE a == [result |-> row.result, payload |-> p]
  <2>1. answers' = answers \cup {a} /\ call[c] = Idle /\ UNCHANGED <<row, call, claims, page, results>>
    BY <1>4 DEF ReplayMoved
  <2>2. row.status = "completed" /\ row.payload = p
    BY <1>4 DEF ReplayMoved
  <2>3. [claim |-> a.result, payload |-> a.payload] \in results
    BY <2>2 DEF KeyInv, ResultsInv
  <2>4. [claim |-> a.result, payload |-> a.payload] \in Result
    BY <2>3 DEF KeyInv, TypeOK
  <2>5. a \in [result : Claim, payload : Payloads]
    BY <2>4 DEF Result
  <2>6. call' = [call EXCEPT ![c] = Idle]
    BY <1>1, <2>1
  <2> HIDE DEF a
  <2> QED
    BY Zenon, <2>1, <2>3, <2>5, <2>6, Stops
<1>5. CASE AcquireSlot(c)
  <2> DEFINE m == [call[c] EXCEPT !.pc = "working"]
  <2>1. /\ m \in CallType /\ m.pc = "working" /\ m.claim = call[c].claim
        /\ m.payload = call[c].payload /\ m.left = call[c].left
    BY <1>1 DEF CallType
  <2>2. /\ call' = [call EXCEPT ![c] = m] /\ UNCHANGED <<row, claims, page, results, answers>>
        /\ call[c].pc = "waiting"
    BY <1>1, <1>5 DEF AcquireSlot
  <2> HIDE DEF m
  <2> QED
    BY Zenon, <1>2, <2>1, <2>2 DEF InFlight
<1>6. CASE Process(c)
  <2> DEFINE m == [call[c] EXCEPT !.pc = "done"]
  <2>1. m \in CallType /\ m.pc = "done" /\ m.claim = call[c].claim /\ m.payload = call[c].payload
    BY <1>1 DEF CallType
  <2>2. /\ call' = [call EXCEPT ![c] = m] /\ UNCHANGED <<row, claims, page, results, answers>>
        /\ call[c].pc = "working"
    BY <1>1, <1>6 DEF Process, Working
  <2> HIDE DEF m
  <2> QED
    BY Zenon, <1>2, <2>1, <2>2 DEF InFlight
<1>7. CASE FailExternalRequest(c)
  <2>1. InFlight(c) /\ call' = [call EXCEPT ![c] = Idle] /\ UNCHANGED <<claims, page, results, answers>>
    BY <1>7 DEF FailExternalRequest, InFlight
  <2>2. CASE Owns(c)
    <3>1. row' = Failed(row)
      BY <1>7, <2>2 DEF FailExternalRequest, Failed
    <3>2. 0 \in 0 .. MaxClaims
      BY Times
    <3>3. row' \in RowType /\ row'.status = "failed"
      BY <1>1, <3>1, <3>2, RowFields
    <3>4. ResultsInv' /\ AnswersAgree'
      BY <2>1, <2>2, <3>3 DEF KeyInv, ResultsInv, AnswersAgree, Owns
    <3>5. \A d \in Calls \ {c} : Timely(d) => page = "deleted"
      BY <2>1, <2>2, OwnerAlone
    <3> QED
      BY Zenon, <2>1, <3>3, <3>4, <3>5, EndStep DEF KeyInv, TypeOK
  <2>3. CASE ~Owns(c)
    BY Zenon, <1>7, <2>1, <2>3, Stops DEF FailExternalRequest
  <2> QED
    BY <2>2, <2>3
<1>8. CASE Crash(c)
  BY Zenon, <1>8, Stops DEF Crash
<1> QED
  BY <1>3, <1>4, <1>5, <1>6, <1>7, <1>8

\* What happens to the page, the record and the clock.
LEMMA RecordStep ==
  ASSUME RequestAssumption, KeyInv, SavePage \/ DeleteItem \/ RetainExternalRequests \/ Tick
  PROVE  KeyInv'
<1>1. row \in RowType /\ call \in [Calls -> CallType] /\ \A c \in Calls : call[c] \in CallType
  BY Types DEF KeyInv
<1>2. ASSUME NEW c \in Calls, Timely(c), page # "deleted"
      PROVE  row.status = "in_progress" /\ row.lease # 0
  <2>1. call[c].left \in Nat /\ call[c].left > 0 /\ Owns(c) /\ row.lease > call[c].left
    BY <1>1, <1>2, Times DEF KeyInv, LeaseInv, Timely, CallType
  <2> QED
    BY <2>1 DEF Owns
<1>3. ASSUME row' = NoRow, results' = {}, answers' = {}, UNCHANGED <<call, claims>>,
             page' \in {page, "deleted"}, \A c \in Calls : Timely(c) => page' = "deleted"
      PROVE  KeyInv'
  <2>1. row' \in RowType /\ row'.status = "none"
    BY <1>3, EmptyTypes DEF NoRow
  <2>2. TypeOK'
    BY <1>3, <2>1 DEF KeyInv, TypeOK, RowType
  <2>3. ResultsInv' /\ AnswersAgree' /\ OwnersInv'
    BY <1>3, <2>1 DEF KeyInv, ResultsInv, AnswersAgree, OwnersInv, InFlight, Owns
  <2>4. LeaseInv'
    BY <1>3 DEF KeyInv, LeaseInv, Timely
  <2> QED
    BY <2>2, <2>3, <2>4 DEF KeyInv
<1>4. CASE SavePage
  <2>1. page = "base" /\ page' = "moved" /\ UNCHANGED <<row, call, claims, results, answers>>
    BY <1>4 DEF SavePage
  <2> QED
    BY <2>1 DEF KeyInv, TypeOK, ResultsInv, AnswersAgree, OwnersInv, LeaseInv, InFlight, Owns, Timely
<1>5. CASE DeleteItem
  <2>1. /\ row' = NoRow /\ results' = {} /\ answers' = {} /\ UNCHANGED <<call, claims>> /\ page' \in {page, "deleted"}
        /\ page' = "deleted" \/ (page' = page /\ results # {})
    BY <1>5 DEF DeleteItem
  <2>2. results # {} => row.status = "completed"
    BY DEF KeyInv, ResultsInv
  <2> QED
    BY <1>2, <1>3, <2>1, <2>2
<1>6. CASE RetainExternalRequests
  <2>1. /\ row' = NoRow /\ results' = {} /\ answers' = {} /\ UNCHANGED <<call, claims, page>>
        /\ row.status \in {"completed", "failed"} \/ row.lease = 0
    BY <1>6 DEF RetainExternalRequests, Retainable, Expired
  <2> QED
    BY <1>2, <1>3, <2>1
<1>7. CASE Tick
  <2> DEFINE older == IF row.age < RetentionTime THEN row.age + 1 ELSE row.age
             r == [row EXCEPT !.lease = Less(row.lease), !.age = older]
  <2>1. /\ row' = r /\ call' = [c \in Calls |-> [call[c] EXCEPT !.left = Less(@)]]
        /\ UNCHANGED <<claims, page, results, answers>>
    BY <1>1, <1>7 DEF Tick, RowType
  <2>2. older \in 0 .. RetentionTime /\ Less(row.lease) \in 0 .. LeaseTime
    BY <1>1, Times DEF RowType, Less
  <2> HIDE DEF older
  <2>3. /\ r \in RowType /\ r.status = row.status /\ r.payload = row.payload /\ r.lock = row.lock
        /\ r.result = row.result /\ r.lease = Less(row.lease)
    BY Zenon, <1>1, <2>2 DEF RowType
  <2> HIDE DEF r
  <2>4. ASSUME NEW c \in Calls
        PROVE  /\ call'[c] \in CallType /\ call'[c].pc = call[c].pc /\ call'[c].claim = call[c].claim
               /\ call'[c].payload = call[c].payload /\ call'[c].left = Less(call[c].left)
    <3> DEFINE m == [call[c] EXCEPT !.left = Less(call[c].left)]
    <3>1. call[c] \in CallType /\ call'[c] = m
      BY <1>1, <2>1
    <3>2. Less(call[c].left) \in 0 .. WorkTime
      BY <3>1, Times DEF CallType, Less
    <3>3. /\ m \in CallType /\ m.pc = call[c].pc /\ m.claim = call[c].claim
          /\ m.payload = call[c].payload /\ m.left = Less(call[c].left)
      BY <3>1, <3>2 DEF CallType
    <3> HIDE DEF m
    <3> QED
      BY <3>1, <3>3
  <2>5. TypeOK'
    <3>1. call' \in [Calls -> CallType] /\ row' \in RowType
      BY <2>1, <2>3, <2>4
    <3> QED
      BY <2>1, <3>1 DEF KeyInv, TypeOK, RowType, CallType
  <2>6. ResultsInv' /\ AnswersAgree'
    BY <2>1, <2>3 DEF KeyInv, ResultsInv, AnswersAgree
  <2>7. OwnersInv'
    <3>1. ASSUME NEW c \in Calls, InFlight(c)'
          PROVE  /\ InFlight(c) /\ call'[c].claim = call[c].claim /\ call'[c].payload = call[c].payload
                 /\ Owns(c)' => Owns(c)
      BY <2>1, <2>3, <2>4, <3>1 DEF InFlight, Owns
    <3>2. row'.payload = row.payload /\ claims' = claims
      BY <2>1, <2>3
    <3>3. ASSUME NEW c \in Calls, InFlight(c)'
          PROVE  call'[c].claim \in 1 .. claims' /\ (Owns(c)' => call'[c].payload = row'.payload)
      BY <3>1, <3>2, <3>3 DEF KeyInv, OwnersInv
    <3>4. ASSUME NEW c \in Calls, NEW d \in Calls, InFlight(c)', InFlight(d)', call'[c].claim = call'[d].claim
          PROVE  c = d
      BY <3>1, <3>4 DEF KeyInv, OwnersInv
    <3> QED
      BY <3>3, <3>4 DEF OwnersInv
  <2>8. ASSUME NEW c \in Calls, Timely(c)'
        PROVE  Timely(c) /\ (row.lease > call[c].left => row'.lease > call'[c].left) /\ (Owns(c) => Owns(c)')
    <3>1. row.lease \in Nat /\ call[c].left \in Nat
      BY <1>1, Times DEF RowType, CallType
    <3> QED
      BY <2>1, <2>3, <2>4, <2>8, <3>1 DEF Timely, Owns, Less
  <2>9. LeaseInv'
    BY <2>1, <2>8 DEF KeyInv, LeaseInv
  <2> QED
    BY <2>5, <2>6, <2>7, <2>9 DEF KeyInv
<1> QED
  BY <1>4, <1>5, <1>6, <1>7

\* Every execution keeps the invariant.
LEMMA KeyInvHolds ==
  ASSUME RequestAssumption
  PROVE  Spec => []KeyInv
<1>1. Init => KeyInv
  <2> SUFFICES ASSUME Init PROVE KeyInv
    OBVIOUS
  <2>1. NoRow \in RowType /\ Idle \in CallType /\ NoRow.status = "none" /\ Idle.pc = "idle"
    BY EmptyTypes DEF NoRow, Idle
  <2>2. TypeOK
    BY <2>1, Times, Types DEF Init
  <2> QED
    BY <2>1, <2>2 DEF Init, KeyInv, ResultsInv, AnswersAgree, OwnersInv, LeaseInv, InFlight, Timely
<1>2. KeyInv /\ [Next]_vars => KeyInv'
  <2>1. ASSUME KeyInv, Next PROVE KeyInv'
    BY <2>1, ReserveStep, CommitStep, CallStep, RecordStep DEF Next
  <2>2. ASSUME KeyInv, UNCHANGED vars PROVE KeyInv'
    BY <2>2 DEF vars, KeyInv, TypeOK, ResultsInv, AnswersAgree, OwnersInv, LeaseInv, InFlight, Owns, Timely
  <2> QED
    BY <2>1, <2>2
<1> QED
  BY <1>1, <1>2, PTL DEF Spec

\* However many calls present a key, crash, outlive their lease or commit late: one
\* item or revision is committed under its record, every answer names it and fits
\* what its caller asked for, and calls that bound their work never work at the
\* same time (ReserveExternalRequest, CompleteExternalRequest, FailExternalRequest).
THEOREM KeysHold ==
  ASSUME RequestAssumption
  PROVE  Spec => []KeysAgree
<1>1. KeyInv => KeysAgree
  <2> SUFFICES ASSUME KeyInv PROVE KeysAgree
    OBVIOUS
  <2>1. OneResultPerKey
    <3>1. CASE row.status = "completed"
      <4>1. results = {[claim |-> row.result, payload |-> row.payload]}
        BY <3>1 DEF KeyInv, ResultsInv
      <4>2. \A x : x \in {r.claim : r \in results} <=> x = row.result
        BY <4>1
      <4> QED
        BY <3>1, <4>2 DEF OneResultPerKey
    <3>2. CASE row.status # "completed"
      BY <3>2 DEF KeyInv, ResultsInv, OneResultPerKey
    <3> QED
      BY <3>1, <3>2
  <2>2. Deadline => OneWorkerPerKey
    BY DEF KeyInv, LeaseInv, OneWorkerPerKey, Working, InTime, Timely
  <2> QED
    BY <2>1, <2>2 DEF KeyInv, KeysAgree
<1> QED
  BY <1>1, KeyInvHolds, PTL

-----------------------------------------------------------------------------
(* The mirror of published pages: the inductive invariant.                 *)

CONSTANTS Annotations, Dispatchers, MaxDeliveries, DeliveryLease, OperationTime, RetryTime,
          BackToBack, MaxPublished

VARIABLES published, outbox, tombstones, remotePage, child, dispatcher

M == INSTANCE AnnotationMirror WITH
       MaxAttempts <- MaxDeliveries, LeaseTime <- DeliveryLease, page <- remotePage

\* A delivery r that can still write, and whether the row o is still under its claim.
Writing(r) == r.pc \in M!Delivering /\ r.left > 0
Fenced(r, o) == o.status = "processing" /\ o.revision = r.revision /\ o.attempts = r.attempt

\* The row is for the current snapshot, and has an attempt left while it waits.
RowInv ==
  /\ outbox.status # "none" => outbox.revision = M!Current
  /\ outbox.status = "pending" => outbox.attempts < MaxDeliveries

\* No two dispatchers have the same claim, and none has one still to come.
ClaimsInv ==
  /\ \A d \in Dispatchers : dispatcher[d].pc # "idle" =>
       /\ dispatcher[d].revision <= M!Current
       /\ dispatcher[d].revision = M!Current /\ outbox.status # "none"
            => dispatcher[d].attempt <= outbox.attempts
  /\ \A d, e \in Dispatchers :
       /\ dispatcher[d].pc # "idle" /\ dispatcher[e].pc # "idle"
       /\ dispatcher[d].revision = dispatcher[e].revision
       /\ dispatcher[d].attempt = dispatcher[e].attempt
       => d = e

\* Who can still write is covered by the lease of the row, or by the wait of the
\* row that replaced it.
Covered(r, o) ==
  \/ Fenced(r, o) /\ r.left < o.lease
  \/ o.status = "pending" /\ r.revision < o.revision /\ r.left < o.wait

HorizonInv == \A d \in Dispatchers : Writing(dispatcher[d]) => Covered(dispatcher[d], outbox)

\* Triplet shows the published page and nothing else.
Mirrored ==
  /\ remotePage = M!Current
  /\ \A a \in Annotations : child[a] = IF a \in M!Children(M!Current) THEN M!Current ELSE 0

\* What a delivery that can still write has yet to do, when kids are published,
\* stones are tombstoned and ch is what Triplet has.
Done(r, kids, stones, ch) ==
  /\ r.pc \in {"load", "put"} => r.todo \subseteq kids \cup stones
  /\ r.pc = "delete" => /\ r.todo \subseteq r.removed
                        /\ \A a \in r.removed \ r.todo : ch[a] = 0

\* And, while the row is under its claim, how far it has brought Triplet towards
\* snapshot n.
Brought(r, n, kids, pg, ch) ==
  /\ r.pc \in {"load", "put", "delete"} => r.graph = n
  /\ r.pc = "load" => r.todo = kids
  /\ r.pc \in {"put", "delete"} => r.removed \cap kids = {}
  /\ r.pc = "put" => /\ r.todo \subseteq kids
                     /\ \A a \in Annotations : /\ a \in kids \ r.todo => ch[a] = n
                                               /\ ch[a] # 0 => a \in kids \cup r.removed
  /\ r.pc = "delete" => /\ pg = n
                        /\ \A a \in Annotations : IF a \in kids THEN ch[a] = n
                                                  ELSE ch[a] # 0 => a \in r.todo

Work(d) ==
  /\ Writing(dispatcher[d]) =>
       /\ Done(dispatcher[d], M!Children(M!Current), tombstones, child)
       /\ Fenced(dispatcher[d], outbox) => Brought(dispatcher[d], M!Current, M!Children(M!Current), remotePage, child)
  /\ dispatcher[d].pc = "finish" /\ Fenced(dispatcher[d], outbox) => Mirrored

WorkInv == \A d \in Dispatchers : Work(d)

MirrorInv ==
  /\ M!TypeOK /\ RowInv /\ ClaimsInv /\ HorizonInv /\ M!RemoteWritesSerialized
  /\ WorkInv /\ M!RemovedChildrenTombstoned
  /\ outbox.status = "none" => Mirrored

-----------------------------------------------------------------------------
(* What a step leaves alone *)

\* While a delivery can write, the row is there, no other delivery can write and
\* none has just finished under the claim that holds the row.
LEMMA Alone ==
  ASSUME M!MirrorAssumption, MirrorInv, NEW d \in Dispatchers, Writing(dispatcher[d])
  PROVE  /\ outbox.status \in {"processing", "pending"}
         /\ \A e \in Dispatchers : e # d =>
              /\ ~Writing(dispatcher[e])
              /\ ~(dispatcher[e].pc = "finish" /\ Fenced(dispatcher[e], outbox))
<1>1. Covered(dispatcher[d], outbox)  BY DEF MirrorInv, HorizonInv
<1>2. outbox.status \in {"processing", "pending"}  BY <1>1 DEF Covered, Fenced
<1>3. ASSUME NEW e \in Dispatchers, e # d  PROVE ~Writing(dispatcher[e])
  BY <1>3 DEF MirrorInv, M!RemoteWritesSerialized, Writing
<1>4. ASSUME NEW e \in Dispatchers, e # d, dispatcher[e].pc = "finish", Fenced(dispatcher[e], outbox)
      PROVE  FALSE
  <2>1. Fenced(dispatcher[d], outbox)  BY <1>1, <1>4 DEF Covered, Fenced
  <2>2. dispatcher[d].pc # "idle"  BY DEF Writing, M!Delivering
  <2> QED BY Zenon, <2>1, <2>2, <1>4 DEF Fenced, MirrorInv, ClaimsInv
<1> QED BY <1>2, <1>3, <1>4, Zenon

\* A step of a delivery that can write keeps the invariant when what it says of
\* its own work stays true: it is alone, and the row does not change.
LEMMA WriteStep ==
  ASSUME M!MirrorAssumption, MirrorInv, NEW d \in Dispatchers, NEW r \in M!DispatcherType,
         Writing(dispatcher[d]),
         r.revision = dispatcher[d].revision, r.attempt = dispatcher[d].attempt,
         r.left = dispatcher[d].left, r.pc \in M!Delivering \cup {"finish"},
         dispatcher' = [dispatcher EXCEPT ![d] = r], published' = published, outbox' = outbox,
         tombstones' \in SUBSET Annotations, remotePage' \in 0 .. MaxPublished,
         child' \in [Annotations -> 0 .. MaxPublished],
         M!RemovedChildrenTombstoned',
         r.pc # "finish" => /\ Done(r, M!Children(M!Current), tombstones', child')
                            /\ Fenced(r, outbox) => Brought(r, M!Current, M!Children(M!Current), remotePage', child'),
         r.pc = "finish" /\ Fenced(r, outbox) => Mirrored'
  PROVE  MirrorInv'
<1>1. M!TypeOK'  BY DEF MirrorInv, M!TypeOK, M!Current
<1>2. dispatcher'[d] = r /\ \A e \in Dispatchers : e # d => dispatcher'[e] = dispatcher[e]
  BY DEF MirrorInv, M!TypeOK
<1>3. RowInv'  BY DEF MirrorInv, RowInv, M!Current
<1>4. dispatcher[d].pc # "idle" /\ r.pc # "idle"  BY DEF Writing, M!Delivering
<1>5. ClaimsInv'  BY <1>2, <1>4 DEF MirrorInv, ClaimsInv, M!Current
<1>6. Covered(dispatcher[d], outbox)  BY DEF MirrorInv, HorizonInv
<1>7. \A e \in Dispatchers : e # d =>
        ~Writing(dispatcher'[e]) /\ ~(dispatcher'[e].pc = "finish" /\ Fenced(dispatcher'[e], outbox'))
  BY <1>2, Alone, Zenon
<1>8. HorizonInv'
  <2>1. Covered(r, outbox)  BY <1>6 DEF Covered, Fenced
  <2> QED BY <2>1, <1>2, <1>7, Zenon DEF HorizonInv
<1>9. M!RemoteWritesSerialized'
  <2>1. ASSUME NEW e \in Dispatchers, Writing(dispatcher'[e])  PROVE e = d  BY <2>1, <1>7
  <2> QED BY <2>1 DEF M!RemoteWritesSerialized, Writing
<1>10. WorkInv'
  <2> SUFFICES ASSUME NEW e \in Dispatchers  PROVE Work(e)'  BY Zenon DEF WorkInv
  <2>1. CASE e # d  BY <2>1, <1>7, Zenon DEF Work
  <2>2. CASE e = d
    <3>1. Writing(r) => r.pc # "finish"  BY DEF Writing, M!Delivering
    <3>2. M!Current' = M!Current /\ M!Children(M!Current)' = M!Children(M!Current)  BY DEF M!Current, M!Children
    <3> QED BY <3>1, <3>2, <2>2, <1>2, Zenon DEF Work
  <2> QED BY <2>1, <2>2
<1>11. outbox'.status # "none"  BY Alone
<1> QED BY <1>1, <1>3, <1>5, <1>8, <1>9, <1>10, <1>11 DEF MirrorInv

\* A dispatcher that stops writing, and leaves the row as it is, disturbs nothing.
LEMMA LeaveStep ==
  ASSUME M!MirrorAssumption, MirrorInv, NEW d \in Dispatchers, NEW r \in M!DispatcherType,
         \/ r.pc = "idle"
         \/ /\ r.pc = "retry" /\ dispatcher[d].pc # "idle"
            /\ r.revision = dispatcher[d].revision /\ r.attempt = dispatcher[d].attempt,
         dispatcher' = [dispatcher EXCEPT ![d] = r],
         published' = published, outbox' = outbox, tombstones' = tombstones, remotePage' = remotePage, child' = child
  PROVE  MirrorInv'
<1>1. M!TypeOK'  BY DEF MirrorInv, M!TypeOK, M!Current
<1>2. dispatcher'[d] = r /\ \A e \in Dispatchers : e # d => dispatcher'[e] = dispatcher[e]
  BY DEF MirrorInv, M!TypeOK
<1>3. ~Writing(r) /\ r.pc # "finish"  BY DEF Writing, M!Delivering
<1>4. RowInv'  BY DEF MirrorInv, RowInv, M!Current
<1>5. ClaimsInv'  BY <1>2 DEF MirrorInv, ClaimsInv, M!Current
<1>6. HorizonInv'
  BY <1>2, <1>3, Zenon DEF MirrorInv, HorizonInv
<1>7. M!RemoteWritesSerialized'
  BY <1>2, <1>3 DEF MirrorInv, M!RemoteWritesSerialized, Writing
<1>8. M!Current' = M!Current /\ M!Children(M!Current)' = M!Children(M!Current)  BY DEF M!Current, M!Children
<1>9. Mirrored' <=> Mirrored  BY <1>8 DEF Mirrored
<1>10. WorkInv'
  <2> SUFFICES ASSUME NEW e \in Dispatchers  PROVE Work(e)'  BY Zenon DEF WorkInv
  <2>1. CASE e = d  BY <2>1, <1>2, <1>3, Zenon DEF Work
  <2>2. CASE e # d
    <3>1. Work(e)  BY DEF MirrorInv, WorkInv
    <3> QED BY <3>1, <2>2, <1>2, <1>8, <1>9, Zenon DEF Work
  <2> QED BY <2>1, <2>2
<1>11. M!RemovedChildrenTombstoned'
  BY <1>8 DEF MirrorInv, M!RemovedChildrenTombstoned
<1> QED BY <1>1, <1>4, <1>5, <1>6, <1>7, <1>9, <1>10, <1>11 DEF MirrorInv

-----------------------------------------------------------------------------
(* One lemma per action *)

\* The snapshot that is current is what the types allow.
LEMMA CurrentType ==
  ASSUME M!MirrorAssumption, M!TypeOK
  PROVE  M!Current \in 0 .. MaxPublished /\ M!Children(M!Current) \in SUBSET Annotations
BY DEF M!MirrorAssumption, M!TypeOK, M!Current, M!Children

\* BuildGraph takes the snapshot published by then.
LEMMA BuildGraphStep ==
  ASSUME M!MirrorAssumption, MirrorInv, NEW d \in Dispatchers, M!BuildGraph(d)
  PROVE  MirrorInv'
<1> DEFINE r == [dispatcher[d] EXCEPT !.pc = "load", !.graph = M!Current, !.todo = M!Children(M!Current)]
<1>1. M!TypeOK /\ dispatcher[d] \in M!DispatcherType  BY DEF MirrorInv, M!TypeOK
<1>2. r \in M!DispatcherType  BY Zenon, <1>1, CurrentType DEF M!DispatcherType, M!Delivering
<1>3. /\ r.pc = "load" /\ r.graph = M!Current /\ r.todo = M!Children(M!Current)
      /\ r.revision = dispatcher[d].revision /\ r.attempt = dispatcher[d].attempt /\ r.left = dispatcher[d].left
  BY <1>1 DEF M!DispatcherType
<1>4. dispatcher' = [dispatcher EXCEPT ![d] = r]  BY DEF M!BuildGraph, M!Become
<1> HIDE DEF r
<1>5. Writing(dispatcher[d])  BY DEF M!BuildGraph, M!At, Writing, M!Delivering
<1>6. /\ Done(r, M!Children(M!Current), tombstones, child)
      /\ Brought(r, M!Current, M!Children(M!Current), remotePage, child)
  BY <1>3 DEF Done, Brought
<1>7. M!RemovedChildrenTombstoned'
  BY DEF MirrorInv, M!RemovedChildrenTombstoned, M!BuildGraph, M!Current, M!Children
<1>8. r.pc \in M!Delivering /\ r.pc # "finish"  BY <1>3 DEF M!Delivering
<1>9. UNCHANGED <<published, outbox, tombstones, remotePage, child>>  BY DEF M!BuildGraph
<1> QED BY Zenon, <1>1, <1>2, <1>3, <1>4, <1>5, <1>6, <1>7, <1>8, <1>9, WriteStep DEF M!TypeOK

\* LoadTombstones finds every Annotation that Triplet has and the page has not.
LEMMA LoadTombstonesStep ==
  ASSUME M!MirrorAssumption, MirrorInv, NEW d \in Dispatchers, M!LoadTombstones(d)
  PROVE  MirrorInv'
<1> DEFINE r == [dispatcher[d] EXCEPT !.pc = "put", !.removed = tombstones \ dispatcher[d].todo]
<1>1. M!TypeOK /\ dispatcher[d] \in M!DispatcherType  BY DEF MirrorInv, M!TypeOK
<1>2. r \in M!DispatcherType  BY Zenon, <1>1 DEF M!DispatcherType, M!Delivering, M!TypeOK
<1>3. /\ r.pc = "put" /\ r.graph = dispatcher[d].graph /\ r.todo = dispatcher[d].todo
      /\ r.removed = tombstones \ dispatcher[d].todo
      /\ r.revision = dispatcher[d].revision /\ r.attempt = dispatcher[d].attempt /\ r.left = dispatcher[d].left
  BY <1>1 DEF M!DispatcherType
<1>4. dispatcher' = [dispatcher EXCEPT ![d] = r]  BY DEF M!LoadTombstones, M!Become
<1> HIDE DEF r
<1>5. Writing(dispatcher[d]) /\ dispatcher[d].pc = "load"
  BY DEF M!LoadTombstones, M!At, Writing, M!Delivering
<1>6. /\ Done(dispatcher[d], M!Children(M!Current), tombstones, child)
      /\ Fenced(dispatcher[d], outbox) => Brought(dispatcher[d], M!Current, M!Children(M!Current), remotePage, child)
  BY <1>5 DEF MirrorInv, WorkInv, Work
<1>7. Done(r, M!Children(M!Current), tombstones, child)
  BY <1>3, <1>5, <1>6 DEF Done
<1>8. Fenced(r, outbox) => Brought(r, M!Current, M!Children(M!Current), remotePage, child)
  <2> SUFFICES ASSUME Fenced(r, outbox)  PROVE Brought(r, M!Current, M!Children(M!Current), remotePage, child)
    OBVIOUS
  <2>1. Brought(dispatcher[d], M!Current, M!Children(M!Current), remotePage, child)
    BY <1>3, <1>6 DEF Fenced
  <2>2. r.graph = M!Current /\ r.todo = M!Children(M!Current)  BY <2>1, <1>3, <1>5 DEF Brought
  <2>3. \A a \in Annotations : child[a] # 0 => a \in M!Children(M!Current) \cup r.removed
    BY <2>2, <1>3 DEF MirrorInv, M!RemovedChildrenTombstoned
  <2> QED BY <2>2, <2>3, <1>3 DEF Brought
<1>9. M!RemovedChildrenTombstoned'
  BY DEF MirrorInv, M!RemovedChildrenTombstoned, M!LoadTombstones, M!Current, M!Children
<1>10. r.pc \in M!Delivering /\ r.pc # "finish"  BY <1>3 DEF M!Delivering
<1>11. UNCHANGED <<published, outbox, tombstones, remotePage, child>>  BY DEF M!LoadTombstones
<1> QED BY Zenon, <1>1, <1>2, <1>3, <1>4, <1>5, <1>7, <1>8, <1>9, <1>10, <1>11, WriteStep DEF M!TypeOK

\* PutChild writes an Annotation that is published or tombstoned.
LEMMA PutChildStep ==
  ASSUME M!MirrorAssumption, MirrorInv, NEW d \in Dispatchers, NEW a \in Annotations, M!PutChild(d, a)
  PROVE  MirrorInv'
<1> DEFINE r == [dispatcher[d] EXCEPT !.todo = @ \ {a}]
<1>1. M!TypeOK /\ dispatcher[d] \in M!DispatcherType  BY DEF MirrorInv, M!TypeOK
<1>2. r \in M!DispatcherType  BY <1>1 DEF M!DispatcherType
<1>3. /\ r.pc = dispatcher[d].pc /\ r.graph = dispatcher[d].graph /\ r.removed = dispatcher[d].removed
      /\ r.todo = dispatcher[d].todo \ {a}
      /\ r.revision = dispatcher[d].revision /\ r.attempt = dispatcher[d].attempt /\ r.left = dispatcher[d].left
  BY <1>1 DEF M!DispatcherType
<1>4. dispatcher' = [dispatcher EXCEPT ![d] = r]  BY DEF M!PutChild, M!Become
<1> HIDE DEF r
<1>5. Writing(dispatcher[d]) /\ dispatcher[d].pc = "put" /\ a \in dispatcher[d].todo
  BY DEF M!PutChild, M!At, Writing, M!Delivering
<1>6. /\ Done(dispatcher[d], M!Children(M!Current), tombstones, child)
      /\ Fenced(dispatcher[d], outbox) => Brought(dispatcher[d], M!Current, M!Children(M!Current), remotePage, child)
  BY <1>5 DEF MirrorInv, WorkInv, Work
<1>7. /\ child' \in [Annotations -> 0 .. MaxPublished]
      /\ child'[a] = dispatcher[d].graph /\ \A b \in Annotations : b # a => child'[b] = child[b]
  BY <1>1 DEF M!PutChild, M!TypeOK, M!DispatcherType
<1>8. Done(r, M!Children(M!Current), tombstones, child')
  BY <1>3, <1>5, <1>6 DEF Done
<1>9. Fenced(r, outbox) => Brought(r, M!Current, M!Children(M!Current), remotePage, child')
  <2> SUFFICES ASSUME Fenced(r, outbox)  PROVE Brought(r, M!Current, M!Children(M!Current), remotePage, child')
    OBVIOUS
  <2>1. Brought(dispatcher[d], M!Current, M!Children(M!Current), remotePage, child)
    BY <1>3, <1>6 DEF Fenced
  <2>2. child'[a] = M!Current /\ a \in M!Children(M!Current)  BY <2>1, <1>5, <1>7 DEF Brought
  <2> QED BY <2>1, <2>2, <1>3, <1>5, <1>7 DEF Brought
<1>10. M!RemovedChildrenTombstoned'
  <2>1. a \in M!Children(M!Current) \cup tombstones  BY <1>5, <1>6 DEF Done
  <2>2. M!Children(M!Current)' = M!Children(M!Current) /\ tombstones' = tombstones
    BY DEF M!PutChild, M!Current, M!Children
  <2> QED BY <2>1, <2>2, <1>7 DEF MirrorInv, M!RemovedChildrenTombstoned
<1>11. r.pc \in M!Delivering /\ r.pc # "finish"  BY <1>3, <1>5 DEF M!Delivering
<1>12. UNCHANGED <<published, outbox, tombstones, remotePage>>  BY DEF M!PutChild
<1> QED BY Zenon, <1>1, <1>2, <1>3, <1>4, <1>5, <1>7, <1>8, <1>9, <1>10, <1>11, <1>12, WriteStep DEF M!TypeOK

\* PutPage comes when every child is there.
LEMMA PutPageStep ==
  ASSUME M!MirrorAssumption, MirrorInv, NEW d \in Dispatchers, M!PutPage(d)
  PROVE  MirrorInv'
<1> DEFINE r == [dispatcher[d] EXCEPT !.pc = "delete", !.todo = dispatcher[d].removed]
<1>1. M!TypeOK /\ dispatcher[d] \in M!DispatcherType  BY DEF MirrorInv, M!TypeOK
<1>2. r \in M!DispatcherType  BY Zenon, <1>1 DEF M!DispatcherType, M!Delivering
<1>3. /\ r.pc = "delete" /\ r.graph = dispatcher[d].graph /\ r.removed = dispatcher[d].removed
      /\ r.todo = dispatcher[d].removed
      /\ r.revision = dispatcher[d].revision /\ r.attempt = dispatcher[d].attempt /\ r.left = dispatcher[d].left
  BY <1>1 DEF M!DispatcherType
<1>4. dispatcher' = [dispatcher EXCEPT ![d] = r]  BY DEF M!PutPage, M!Become
<1> HIDE DEF r
<1>5. Writing(dispatcher[d]) /\ dispatcher[d].pc = "put" /\ dispatcher[d].todo = {}
  BY DEF M!PutPage, M!At, Writing, M!Delivering
<1>6. Fenced(dispatcher[d], outbox) => Brought(dispatcher[d], M!Current, M!Children(M!Current), remotePage, child)
  BY <1>5 DEF MirrorInv, WorkInv, Work
<1>7. remotePage' = dispatcher[d].graph /\ remotePage' \in 0 .. MaxPublished
  BY <1>1 DEF M!PutPage, M!DispatcherType
<1>8. Done(r, M!Children(M!Current), tombstones, child)
  BY <1>3 DEF Done
<1>9. Fenced(r, outbox) => Brought(r, M!Current, M!Children(M!Current), remotePage', child)
  <2> SUFFICES ASSUME Fenced(r, outbox)  PROVE Brought(r, M!Current, M!Children(M!Current), remotePage', child)
    OBVIOUS
  <2>1. Brought(dispatcher[d], M!Current, M!Children(M!Current), remotePage, child)
    BY <1>3, <1>6 DEF Fenced
  <2> QED BY <2>1, <1>3, <1>5, <1>7 DEF Brought
<1>10. M!RemovedChildrenTombstoned'
  BY DEF MirrorInv, M!RemovedChildrenTombstoned, M!PutPage, M!Current, M!Children
<1>11. r.pc \in M!Delivering /\ r.pc # "finish"  BY <1>3 DEF M!Delivering
<1>12. UNCHANGED <<published, outbox, tombstones, child>>  BY DEF M!PutPage
<1> QED BY Zenon, <1>1, <1>2, <1>3, <1>4, <1>5, <1>7, <1>8, <1>9, <1>10, <1>11, <1>12, WriteStep DEF M!TypeOK

\* DeleteChild takes away only what left the page, as long as the row is its own.
LEMMA DeleteChildStep ==
  ASSUME M!MirrorAssumption, MirrorInv, NEW d \in Dispatchers, NEW a \in Annotations, M!DeleteChild(d, a)
  PROVE  MirrorInv'
<1> DEFINE r == [dispatcher[d] EXCEPT !.todo = @ \ {a}]
<1>1. M!TypeOK /\ dispatcher[d] \in M!DispatcherType  BY DEF MirrorInv, M!TypeOK
<1>2. r \in M!DispatcherType  BY <1>1 DEF M!DispatcherType
<1>3. /\ r.pc = dispatcher[d].pc /\ r.graph = dispatcher[d].graph /\ r.removed = dispatcher[d].removed
      /\ r.todo = dispatcher[d].todo \ {a}
      /\ r.revision = dispatcher[d].revision /\ r.attempt = dispatcher[d].attempt /\ r.left = dispatcher[d].left
  BY <1>1 DEF M!DispatcherType
<1>4. dispatcher' = [dispatcher EXCEPT ![d] = r]  BY DEF M!DeleteChild, M!Become
<1> HIDE DEF r
<1>5. Writing(dispatcher[d]) /\ dispatcher[d].pc = "delete" /\ a \in dispatcher[d].todo
  BY DEF M!DeleteChild, M!At, Writing, M!Delivering
<1>6. /\ Done(dispatcher[d], M!Children(M!Current), tombstones, child)
      /\ Fenced(dispatcher[d], outbox) => Brought(dispatcher[d], M!Current, M!Children(M!Current), remotePage, child)
  BY <1>5 DEF MirrorInv, WorkInv, Work
<1>7. /\ child' \in [Annotations -> 0 .. MaxPublished]
      /\ child'[a] = 0 /\ \A b \in Annotations : b # a => child'[b] = child[b]
  BY <1>1 DEF M!DeleteChild, M!TypeOK, M!MirrorAssumption
<1>8. Done(r, M!Children(M!Current), tombstones, child')
  <2>1. r.removed \subseteq Annotations  BY SMTT(20), <1>2 DEF M!DispatcherType
  <2> QED BY <2>1, <1>3, <1>5, <1>6, <1>7 DEF Done
<1>9. Fenced(r, outbox) => Brought(r, M!Current, M!Children(M!Current), remotePage, child')
  <2> SUFFICES ASSUME Fenced(r, outbox)  PROVE Brought(r, M!Current, M!Children(M!Current), remotePage, child')
    OBVIOUS
  <2>1. Brought(dispatcher[d], M!Current, M!Children(M!Current), remotePage, child)
    BY <1>3, <1>6 DEF Fenced
  <2>2. a \notin M!Children(M!Current)  BY <2>1, <1>5, <1>6 DEF Brought, Done
  <2> QED BY <2>1, <2>2, <1>3, <1>5, <1>7 DEF Brought
<1>10. M!RemovedChildrenTombstoned'
  <2>1. M!Children(M!Current)' = M!Children(M!Current) /\ tombstones' = tombstones
    BY DEF M!DeleteChild, M!Current, M!Children
  <2> QED BY <2>1, <1>7 DEF MirrorInv, M!RemovedChildrenTombstoned
<1>11. r.pc \in M!Delivering /\ r.pc # "finish"  BY <1>3, <1>5 DEF M!Delivering
<1>12. UNCHANGED <<published, outbox, tombstones, remotePage>>  BY DEF M!DeleteChild
<1> QED BY Zenon, <1>1, <1>2, <1>3, <1>4, <1>5, <1>7, <1>8, <1>9, <1>10, <1>11, <1>12, WriteStep DEF M!TypeOK

\* Acknowledge drops the tombstones of what is gone from Triplet.
LEMMA AcknowledgeStep ==
  ASSUME M!MirrorAssumption, MirrorInv, NEW d \in Dispatchers, M!Acknowledge(d)
  PROVE  MirrorInv'
<1> DEFINE r == [dispatcher[d] EXCEPT !.pc = "finish"]
<1>1. M!TypeOK /\ dispatcher[d] \in M!DispatcherType  BY DEF MirrorInv, M!TypeOK
<1>2. r \in M!DispatcherType  BY <1>1 DEF M!DispatcherType
<1>3. /\ r.pc = "finish"
      /\ r.revision = dispatcher[d].revision /\ r.attempt = dispatcher[d].attempt /\ r.left = dispatcher[d].left
  BY <1>1 DEF M!DispatcherType
<1>4. dispatcher' = [dispatcher EXCEPT ![d] = r]  BY DEF M!Acknowledge, M!Become
<1> HIDE DEF r
<1>5. Writing(dispatcher[d]) /\ dispatcher[d].pc = "delete" /\ dispatcher[d].todo = {}
  BY DEF M!Acknowledge, M!At, Writing, M!Delivering
<1>6. /\ Done(dispatcher[d], M!Children(M!Current), tombstones, child)
      /\ Fenced(dispatcher[d], outbox) => Brought(dispatcher[d], M!Current, M!Children(M!Current), remotePage, child)
  BY <1>5 DEF MirrorInv, WorkInv, Work
<1>7. UNCHANGED <<published, outbox, remotePage, child>> /\ tombstones' = tombstones \ dispatcher[d].removed
  BY DEF M!Acknowledge
<1>8. M!Current' = M!Current /\ M!Children(M!Current)' = M!Children(M!Current)
  BY <1>7 DEF M!Current, M!Children
<1>9. Fenced(r, outbox) => Mirrored'
  <2> SUFFICES ASSUME Fenced(r, outbox)  PROVE Mirrored'
    OBVIOUS
  <2>1. Brought(dispatcher[d], M!Current, M!Children(M!Current), remotePage, child)
    BY <1>3, <1>6 DEF Fenced
  <2> QED BY <2>1, <1>5, <1>7, <1>8 DEF Brought, Mirrored
<1>10. M!RemovedChildrenTombstoned'
  <2>1. \A a \in dispatcher[d].removed : child[a] = 0  BY <1>5, <1>6 DEF Done
  <2> QED BY <2>1, <1>7, <1>8 DEF MirrorInv, M!RemovedChildrenTombstoned
<1>11. tombstones' \in SUBSET Annotations  BY <1>1, <1>7 DEF M!TypeOK
<1> QED BY Zenon, <1>1, <1>2, <1>3, <1>4, <1>5, <1>7, <1>9, <1>10, <1>11, WriteStep DEF M!TypeOK

\* A dispatcher under whose claim the row is, and that no longer delivers, leaves
\* nobody who could write.
LEMMA NobodyWrites ==
  ASSUME MirrorInv, NEW d \in Dispatchers, dispatcher[d].pc \in {"finish", "retry"}, M!FenceHolds(d)
  PROVE  \A e \in Dispatchers : ~Writing(dispatcher[e])
<1> SUFFICES ASSUME NEW e \in Dispatchers, Writing(dispatcher[e])  PROVE FALSE
  OBVIOUS
<1>1. Fenced(dispatcher[e], outbox)
  BY DEF MirrorInv, HorizonInv, Covered, M!FenceHolds
<1>2. dispatcher[e].pc # "idle" /\ e # d  BY DEF Writing, M!Delivering
<1> QED BY Zenon, <1>1, <1>2 DEF MirrorInv, ClaimsInv, Fenced, M!FenceHolds

\* The record of an idle dispatcher.
LEMMA IdleType ==
  ASSUME M!MirrorAssumption
  PROVE  M!Idle \in M!DispatcherType /\ M!Idle.pc = "idle"
BY DEF M!MirrorAssumption, M!Idle, M!DispatcherType

\* Complete removes the row of a delivery that brought Triplet to what is current.
LEMMA CompleteDeliveryStep ==
  ASSUME M!MirrorAssumption, MirrorInv, NEW d \in Dispatchers, M!Complete(d)
  PROVE  MirrorInv'
<1>1. dispatcher' = [dispatcher EXCEPT ![d] = M!Idle] /\ UNCHANGED <<published, tombstones, remotePage, child>>
  BY DEF M!Complete, M!Become
<1>2. CASE ~M!FenceHolds(d)
  <2>1. outbox' = outbox  BY <1>2 DEF M!Complete
  <2> QED BY Zenon, <2>1, <1>1, IdleType, LeaveStep
<1>3. CASE M!FenceHolds(d)
  <2>1. outbox' = M!NoRow  BY <1>3 DEF M!Complete
  <2>2. dispatcher'[d].pc = "idle" /\ \A e \in Dispatchers : e # d => dispatcher'[e] = dispatcher[e]
    BY <1>1, IdleType DEF MirrorInv, M!TypeOK
  <2>3. \A e \in Dispatchers : ~Writing(dispatcher'[e])
    BY <2>2, <1>3, NobodyWrites DEF M!Complete, Writing, M!Delivering
  <2>4. M!NoRow \in M!RowType /\ M!NoRow.status = "none"  BY DEF M!NoRow, M!RowType, M!MirrorAssumption
  <2>5. M!TypeOK'  BY <1>1, <2>1, <2>4, IdleType DEF MirrorInv, M!TypeOK, M!Current
  <2>6. M!Current' = M!Current /\ M!Children(M!Current)' = M!Children(M!Current)  BY <1>1 DEF M!Current, M!Children
  <2>7. Mirrored'
    <3>1. Mirrored  BY <1>3 DEF MirrorInv, WorkInv, Work, M!Complete, M!FenceHolds, Fenced
    <3> QED BY <3>1, <2>6, <1>1 DEF Mirrored
  <2>8. RowInv'  BY <2>1, <2>4 DEF RowInv
  <2>9. ClaimsInv'  BY <2>1, <2>2, <2>4, <2>6 DEF MirrorInv, ClaimsInv
  <2>10. HorizonInv'  BY <2>3, Zenon DEF HorizonInv
  <2>11. M!RemoteWritesSerialized'  BY <2>3 DEF M!RemoteWritesSerialized, Writing
  <2>12. WorkInv'  BY <2>3, <2>7, Zenon DEF WorkInv, Work
  <2>13. M!RemovedChildrenTombstoned'  BY <2>6, <1>1 DEF MirrorInv, M!RemovedChildrenTombstoned
  <2> QED BY <2>5, <2>7, <2>8, <2>9, <2>10, <2>11, <2>12, <2>13 DEF MirrorInv
<1> QED BY <1>2, <1>3

\* Retry gives back only the row that is under its own claim.
LEMMA RetryDeliveryStep ==
  ASSUME M!MirrorAssumption, MirrorInv, NEW d \in Dispatchers, M!Retry(d)
  PROVE  MirrorInv'
<1>1. dispatcher' = [dispatcher EXCEPT ![d] = M!Idle] /\ UNCHANGED <<published, tombstones, remotePage, child>>
  BY DEF M!Retry, M!Become
<1>2. CASE ~M!FenceHolds(d)
  <2>1. outbox' = outbox  BY <1>2 DEF M!Retry
  <2> QED BY Zenon, <2>1, <1>1, IdleType, LeaveStep
<1>3. CASE M!FenceHolds(d)
  <2>1. outbox' = [outbox EXCEPT !.status = IF outbox.attempts >= MaxDeliveries THEN "failed" ELSE "pending",
                                 !.wait = RetryTime, !.lease = 0]
    BY <1>3 DEF M!Retry
  <2>2. outbox \in M!RowType  BY DEF MirrorInv, M!TypeOK
  <2>3. /\ outbox' \in M!RowType /\ outbox'.revision = outbox.revision /\ outbox'.attempts = outbox.attempts
        /\ outbox'.status \in {"failed", "pending"}
        /\ outbox'.status = "pending" => outbox.attempts < MaxDeliveries
    <3> DEFINE s == IF outbox.attempts >= MaxDeliveries THEN "failed" ELSE "pending"
    <3>1. s \in {"failed", "pending"} /\ (s = "pending" => outbox.attempts < MaxDeliveries)
      BY <2>2 DEF M!RowType, M!MirrorAssumption
    <3>2. outbox' = [outbox EXCEPT !.status = s, !.wait = RetryTime, !.lease = 0]  BY <2>1
    <3> HIDE DEF s
    <3>3. RetryTime \in Nat /\ 0 \in 0 .. DeliveryLease  BY DEF M!MirrorAssumption
    <3>4. /\ outbox'.revision = outbox.revision /\ outbox'.attempts = outbox.attempts /\ outbox'.status = s
      BY <3>2, <2>2 DEF M!RowType
    <3>5. outbox' \in M!RowType  BY Zenon, <3>1, <3>2, <3>3, <2>2 DEF M!RowType
    <3> QED BY <3>1, <3>4, <3>5
  <2>4. dispatcher'[d].pc = "idle" /\ \A e \in Dispatchers : e # d => dispatcher'[e] = dispatcher[e]
    BY <1>1, IdleType DEF MirrorInv, M!TypeOK
  <2>5. \A e \in Dispatchers : ~Writing(dispatcher'[e])
    BY <2>4, <1>3, NobodyWrites DEF M!Retry, Writing, M!Delivering
  <2>6. M!TypeOK'  BY <1>1, <2>3, IdleType DEF MirrorInv, M!TypeOK, M!Current
  <2>7. M!Current' = M!Current /\ M!Children(M!Current)' = M!Children(M!Current)  BY <1>1 DEF M!Current, M!Children
  <2>8. outbox.status = "processing"  BY SMTT(20), <1>3 DEF M!FenceHolds
  <2>9. RowInv'  BY <2>3, <2>7, <2>8 DEF MirrorInv, RowInv
  <2>10. ClaimsInv'  BY <2>3, <2>4, <2>7, <2>8 DEF MirrorInv, ClaimsInv
  <2>11. HorizonInv'  BY <2>5, Zenon DEF HorizonInv
  <2>12. M!RemoteWritesSerialized'  BY <2>5 DEF M!RemoteWritesSerialized, Writing
  <2>13. \A e \in Dispatchers : ~Fenced(dispatcher'[e], outbox')  BY <2>3 DEF Fenced
  <2>14. WorkInv'  BY <2>5, <2>13, Zenon DEF WorkInv, Work
  <2>15. M!RemovedChildrenTombstoned'  BY <2>7, <1>1 DEF MirrorInv, M!RemovedChildrenTombstoned
  <2> QED BY <2>3, <2>6, <2>9, <2>10, <2>11, <2>12, <2>14, <2>15 DEF MirrorInv
<1> QED BY <1>2, <1>3

\* Fail and Crash only end a delivery.
LEMMA EndDeliveryStep ==
  ASSUME M!MirrorAssumption, MirrorInv, NEW d \in Dispatchers, M!Fail(d) \/ M!Crash(d)
  PROVE  MirrorInv'
<1>1. CASE M!Fail(d)
  <2> DEFINE r == [dispatcher[d] EXCEPT !.pc = "retry"]
  <2>1. dispatcher[d] \in M!DispatcherType  BY DEF MirrorInv, M!TypeOK
  <2>2. /\ r \in M!DispatcherType /\ r.pc = "retry"
        /\ r.revision = dispatcher[d].revision /\ r.attempt = dispatcher[d].attempt
    BY <2>1 DEF M!DispatcherType
  <2>3. /\ dispatcher' = [dispatcher EXCEPT ![d] = r] /\ dispatcher[d].pc # "idle"
        /\ UNCHANGED <<published, outbox, tombstones, remotePage, child>>
    BY <1>1 DEF M!Fail, M!Become, M!Delivering
  <2> HIDE DEF r
  <2> QED BY Zenon, <2>2, <2>3, LeaveStep
<1>2. CASE M!Crash(d)
  <2>1. /\ dispatcher' = [dispatcher EXCEPT ![d] = M!Idle]
        /\ UNCHANGED <<published, outbox, tombstones, remotePage, child>>
    BY <1>2 DEF M!Crash, M!Become
  <2> QED BY Zenon, <2>1, IdleType, LeaveStep
<1> QED BY <1>1, <1>2

\* Nobody can write when the row may be claimed or given up: the lease, or the
\* wait that took over what was left of it, outlasts every delivery.
LEMMA HorizonPassed ==
  ASSUME M!MirrorAssumption, MirrorInv, M!Expired \/ (outbox.status = "pending" /\ outbox.wait = 0)
  PROVE  \A e \in Dispatchers : ~Writing(dispatcher[e])
<1> SUFFICES ASSUME NEW e \in Dispatchers, Writing(dispatcher[e])  PROVE FALSE
  OBVIOUS
<1>1. Covered(dispatcher[e], outbox)  BY DEF MirrorInv, HorizonInv
<1>2. dispatcher[e].left \in Nat
  BY DEF M!MirrorAssumption, MirrorInv, M!TypeOK, M!DispatcherType
<1> QED BY <1>1, <1>2 DEF Covered, Fenced, M!Expired

\* FailExhausted gives up a row under which nobody can write.
LEMMA FailExhaustedStep ==
  ASSUME M!MirrorAssumption, MirrorInv, M!FailExhausted
  PROVE  MirrorInv'
<1>1. UNCHANGED <<published, tombstones, remotePage, child, dispatcher>>  BY DEF M!FailExhausted
<1>2. outbox' = [outbox EXCEPT !.status = "failed"] /\ outbox \in M!RowType /\ outbox.status = "processing"
  BY DEF M!FailExhausted, M!Expired, MirrorInv, M!TypeOK
<1>3. /\ outbox' \in M!RowType /\ outbox'.revision = outbox.revision /\ outbox'.attempts = outbox.attempts
      /\ outbox'.status = "failed"
  BY <1>2 DEF M!RowType
<1>4. \A e \in Dispatchers : ~Writing(dispatcher'[e])  BY <1>1, HorizonPassed DEF M!FailExhausted
<1>5. M!TypeOK'  BY <1>1, <1>3 DEF MirrorInv, M!TypeOK, M!Current
<1>6. M!Current' = M!Current /\ M!Children(M!Current)' = M!Children(M!Current)  BY <1>1 DEF M!Current, M!Children
<1>7. RowInv'  BY <1>2, <1>3, <1>6 DEF MirrorInv, RowInv
<1>8. ClaimsInv'  BY <1>1, <1>2, <1>3, <1>6 DEF MirrorInv, ClaimsInv
<1>9. HorizonInv'  BY <1>4, Zenon DEF HorizonInv
<1>10. M!RemoteWritesSerialized'  BY <1>4 DEF M!RemoteWritesSerialized, Writing
<1>11. \A e \in Dispatchers : ~Fenced(dispatcher'[e], outbox')  BY <1>3 DEF Fenced
<1>12. WorkInv'  BY <1>4, <1>11, Zenon DEF WorkInv, Work
<1>13. M!RemovedChildrenTombstoned'  BY <1>1, <1>6 DEF MirrorInv, M!RemovedChildrenTombstoned
<1> QED BY <1>3, <1>5, <1>7, <1>8, <1>9, <1>10, <1>12, <1>13 DEF MirrorInv

\* Claim starts the only delivery that can write, under a claim nobody had.
LEMMA ClaimDeliveryStep ==
  ASSUME M!MirrorAssumption, MirrorInv, NEW d \in Dispatchers, M!Claim(d)
  PROVE  MirrorInv'
<1> DEFINE r == [M!Idle EXCEPT !.pc = "build", !.revision = outbox.revision, !.attempt = outbox.attempts + 1,
                             !.left = OperationTime]
<1>1. UNCHANGED <<published, tombstones, remotePage, child>> /\ dispatcher' = [dispatcher EXCEPT ![d] = r]
  BY DEF M!Claim
<1>2. outbox' = [outbox EXCEPT !.status = "processing", !.attempts = @ + 1, !.lease = DeliveryLease]
  BY DEF M!Claim
<1>3. /\ outbox \in M!RowType /\ outbox.status \in {"pending", "processing"}
      /\ outbox.attempts < MaxDeliveries /\ outbox.revision = M!Current
  BY DEF M!Claim, M!Claimable, M!Expired, MirrorInv, M!TypeOK, RowInv
<1>4. /\ outbox' \in M!RowType /\ outbox'.status = "processing" /\ outbox'.revision = M!Current
      /\ outbox'.attempts = outbox.attempts + 1 /\ outbox'.lease = DeliveryLease
  <2> DEFINE n == outbox.attempts + 1
  <2>1. n \in 0 .. MaxDeliveries /\ DeliveryLease \in 0 .. DeliveryLease  BY <1>3 DEF M!RowType, M!MirrorAssumption
  <2>2. outbox' = [outbox EXCEPT !.status = "processing", !.attempts = n, !.lease = DeliveryLease]  BY <1>2
  <2> HIDE DEF n
  <2>3. outbox' \in M!RowType  BY Zenon, <2>1, <2>2, <1>3 DEF M!RowType
  <2>4. /\ outbox'.status = "processing" /\ outbox'.revision = M!Current
        /\ outbox'.attempts = n /\ outbox'.lease = DeliveryLease
    BY <2>2, <1>3 DEF M!RowType
  <2> QED BY <2>3, <2>4 DEF n
<1>5. /\ r \in M!DispatcherType /\ r.pc = "build" /\ r.revision = M!Current /\ r.attempt = outbox.attempts + 1
      /\ r.left = OperationTime
  <2> DEFINE n == outbox.attempts + 1
  <2>1. /\ n \in 0 .. MaxDeliveries /\ M!Current \in 0 .. MaxPublished /\ 0 \in 0 .. MaxPublished
        /\ OperationTime \in 0 .. OperationTime
    BY <1>3, CurrentType DEF M!RowType, M!MirrorAssumption, MirrorInv
  <2>2. r = [M!Idle EXCEPT !.pc = "build", !.revision = M!Current, !.attempt = n, !.left = OperationTime]
    BY <1>3
  <2> HIDE DEF n, r
  <2>3. r \in M!DispatcherType  BY Zenon, <2>1, <2>2, IdleType DEF M!DispatcherType, M!Delivering
  <2>4. r.pc = "build" /\ r.revision = M!Current /\ r.attempt = n /\ r.left = OperationTime
    BY <2>2, IdleType DEF M!DispatcherType
  <2> QED BY <2>3, <2>4 DEF n
<1> HIDE DEF r
<1>6. dispatcher'[d] = r /\ \A e \in Dispatchers : e # d => dispatcher'[e] = dispatcher[e]
  BY <1>1 DEF MirrorInv, M!TypeOK
<1>7. \A e \in Dispatchers : e # d => ~Writing(dispatcher'[e])
  BY <1>6, HorizonPassed DEF M!Claim, M!Claimable
<1>8. M!TypeOK'  BY <1>1, <1>4, <1>5 DEF MirrorInv, M!TypeOK, M!Current
<1>9. M!Current' = M!Current /\ M!Children(M!Current)' = M!Children(M!Current)  BY <1>1 DEF M!Current, M!Children
<1>10. RowInv'  BY <1>4, <1>9 DEF RowInv
<1>11. \A e \in Dispatchers : e # d /\ dispatcher[e].pc # "idle" =>
         /\ dispatcher[e].revision <= M!Current
         /\ dispatcher[e].revision = M!Current => dispatcher[e].attempt < r.attempt
  <2> SUFFICES ASSUME NEW e \in Dispatchers, e # d, dispatcher[e].pc # "idle"
               PROVE  /\ dispatcher[e].revision <= M!Current
                      /\ dispatcher[e].revision = M!Current => dispatcher[e].attempt < r.attempt
    OBVIOUS
  <2>1. dispatcher[e].attempt \in Nat /\ outbox.attempts \in Nat
    BY <1>3 DEF MirrorInv, M!TypeOK, M!DispatcherType, M!RowType, M!MirrorAssumption
  <2> QED BY <2>1, <1>3, <1>5 DEF MirrorInv, ClaimsInv
<1>12. ClaimsInv'
  <2>1. ASSUME NEW e \in Dispatchers, dispatcher'[e].pc # "idle"
        PROVE  /\ dispatcher'[e].revision <= M!Current'
               /\ dispatcher'[e].revision = M!Current' => dispatcher'[e].attempt <= outbox'.attempts
    <3>1. /\ M!Current \in Nat /\ outbox.attempts \in Nat
          /\ dispatcher[e].attempt \in Nat
      BY SMTT(20), <1>3, CurrentType DEF MirrorInv, M!TypeOK, M!DispatcherType, M!RowType, M!MirrorAssumption
    <3>2. CASE e = d  BY <3>1, <3>2, <1>4, <1>5, <1>6, <1>9
    <3>3. CASE e # d  BY <3>1, <3>3, <2>1, <1>4, <1>5, <1>6, <1>9, <1>11
    <3> QED BY <3>2, <3>3
  <2>2. ASSUME NEW e \in Dispatchers, e # d, dispatcher'[e].pc # "idle",
               dispatcher'[e].revision = r.revision, dispatcher'[e].attempt = r.attempt
        PROVE  FALSE
    <3>1. r.attempt \in Nat  BY <1>5 DEF M!DispatcherType, M!MirrorAssumption
    <3> QED BY <3>1, <2>2, <1>5, <1>6, <1>11
  <2>3. ASSUME NEW e \in Dispatchers, NEW f \in Dispatchers,
               dispatcher'[e].pc # "idle", dispatcher'[f].pc # "idle",
               dispatcher'[e].revision = dispatcher'[f].revision,
               dispatcher'[e].attempt = dispatcher'[f].attempt
        PROVE  e = f
    <3>1. CASE e = d \/ f = d  BY <3>1, <2>2, <2>3, <1>6
    <3>2. CASE e # d /\ f # d  BY <3>2, <2>3, <1>6 DEF MirrorInv, ClaimsInv
    <3> QED BY <3>1, <3>2
  <2> QED BY <2>1, <2>3 DEF ClaimsInv
<1>13. HorizonInv'
  <2>1. Covered(r, outbox')  BY <1>4, <1>5 DEF Covered, Fenced, M!MirrorAssumption
  <2> QED BY <2>1, <1>6, <1>7, Zenon DEF HorizonInv
<1>14. M!RemoteWritesSerialized'
  <2>1. ASSUME NEW e \in Dispatchers, Writing(dispatcher'[e])  PROVE e = d  BY <2>1, <1>7
  <2> QED BY <2>1 DEF M!RemoteWritesSerialized, Writing
<1>15. WorkInv'
  <2> SUFFICES ASSUME NEW e \in Dispatchers  PROVE Work(e)'  BY Zenon DEF WorkInv
  <2>1. CASE e = d
    <3>1. Done(r, M!Children(M!Current)', tombstones', child') /\ r.pc # "finish"  BY <1>5 DEF Done
    <3>2. Brought(r, M!Current', M!Children(M!Current)', remotePage', child')  BY <1>5 DEF Brought
    <3> QED BY <3>1, <3>2, <2>1, <1>6, Zenon DEF Work
  <2>2. CASE e # d
    <3>1. dispatcher[e].pc # "idle" => dispatcher'[e].revision # M!Current \/ dispatcher'[e].attempt # outbox'.attempts
      <4>1. r.attempt \in Nat  BY <1>5 DEF M!DispatcherType, M!MirrorAssumption
      <4> QED BY <4>1, <2>2, <1>4, <1>5, <1>6, <1>11
    <3>2. ~(dispatcher'[e].pc = "finish" /\ Fenced(dispatcher'[e], outbox'))
      BY <3>1, <2>2, <1>4, <1>6 DEF Fenced
    <3> QED BY <3>2, <2>2, <1>7, Zenon DEF Work
  <2> QED BY <2>1, <2>2
<1>16. M!RemovedChildrenTombstoned'  BY <1>1, <1>9 DEF MirrorInv, M!RemovedChildrenTombstoned
<1> QED BY <1>4, <1>8, <1>10, <1>12, <1>13, <1>14, <1>15, <1>16 DEF MirrorInv

\* Publish finds no delivery that an earlier publication overtook, hands what is
\* left of the lease on as the wait, and tombstones what it takes off the page.
LEMMA PublishStep ==
  ASSUME M!MirrorAssumption, BackToBack = FALSE, MirrorInv, NEW next \in SUBSET Annotations, M!Publish(next)
  PROVE  MirrorInv'
<1>1. M!TypeOK  BY DEF MirrorInv
<1>2. /\ M!Current \in Nat /\ M!Current < MaxPublished /\ published' = Append(published, next)
      /\ UNCHANGED <<remotePage, child, dispatcher>>
  BY <1>1 DEF M!Publish, M!TypeOK, M!Current
<1>3. /\ published' \in Seq(SUBSET Annotations) /\ M!Current' = M!Current + 1 /\ M!Children(M!Current)' = next
  BY <1>1, <1>2 DEF M!TypeOK, M!Current, M!Children
<1>4. outbox \in M!RowType /\ outbox.lease \in Nat  BY <1>1 DEF M!TypeOK, M!RowType, M!MirrorAssumption
<1>5. outbox' = [M!NoRow EXCEPT !.status = "pending", !.revision = M!Current', !.wait = outbox.lease]
  BY <1>3 DEF M!Publish, M!UpsertOutbox
<1>6. /\ M!NoRow \in M!RowType /\ M!NoRow.attempts = 0 /\ M!Current' \in 0 .. MaxPublished
  BY <1>2, <1>3 DEF M!NoRow, M!RowType, M!MirrorAssumption
<1>7. /\ outbox'.status = "pending" /\ outbox'.revision = M!Current' /\ outbox'.attempts = 0
      /\ outbox'.wait = outbox.lease
  BY <1>5, <1>6 DEF M!RowType
<1>8. outbox' \in M!RowType  BY Zenon, <1>4, <1>5, <1>6 DEF M!RowType
<1>9. tombstones' = (tombstones \cup M!Children(M!Current)) \ next
  BY DEF M!Publish, M!ReplaceTombstones
<1>10. M!TypeOK'
  <2>1. tombstones' \in SUBSET Annotations  BY <1>1, <1>9, CurrentType DEF M!TypeOK
  <2>2. M!Current' <= MaxPublished  BY <1>6
  <2> QED BY <2>1, <2>2, <1>1, <1>2, <1>3, <1>8 DEF M!TypeOK
<1>11. RowInv'  BY <1>7 DEF RowInv, M!MirrorAssumption
<1>12. \A e \in Dispatchers : dispatcher[e].pc # "idle" => dispatcher[e].revision < M!Current'
  <2> SUFFICES ASSUME NEW e \in Dispatchers, dispatcher[e].pc # "idle"
               PROVE  dispatcher[e].revision < M!Current'
    OBVIOUS
  <2>1. dispatcher[e].revision \in Nat  BY <1>1 DEF M!TypeOK, M!DispatcherType, M!MirrorAssumption
  <2> QED BY <2>1, <1>2, <1>3 DEF MirrorInv, ClaimsInv
<1>13. ClaimsInv'
  <2>1. ASSUME NEW e \in Dispatchers, dispatcher[e].pc # "idle"
        PROVE  dispatcher[e].revision <= M!Current' /\ dispatcher[e].revision # M!Current'
    <3>1. dispatcher[e].revision \in Nat  BY <1>1 DEF M!TypeOK, M!DispatcherType, M!MirrorAssumption
    <3> QED BY <3>1, <2>1, <1>2, <1>3, <1>12
  <2> QED BY <2>1, <1>2 DEF MirrorInv, ClaimsInv
<1>14. HorizonInv'
  <2> SUFFICES ASSUME NEW e \in Dispatchers, Writing(dispatcher[e])
               PROVE  Covered(dispatcher[e], outbox')
    BY <1>2, Zenon DEF HorizonInv
  <2>1. Covered(dispatcher[e], outbox)  BY DEF MirrorInv, HorizonInv
  <2>2. dispatcher[e].pc \in M!Delivering /\ dispatcher[e].pc # "idle"  BY DEF Writing, M!Delivering
  <2>3. ~(dispatcher[e].revision < outbox.revision)  BY <2>2 DEF M!Publish, M!Overtaken
  <2>4. dispatcher[e].left < outbox.lease  BY <2>1, <2>3 DEF Covered
  <2> QED BY <2>2, <2>4, <1>7, <1>12 DEF Covered
<1>15. M!RemoteWritesSerialized'  BY <1>2 DEF MirrorInv, M!RemoteWritesSerialized
<1>16. WorkInv'
  <2> SUFFICES ASSUME NEW e \in Dispatchers  PROVE Work(e)'  BY Zenon DEF WorkInv
  <2>1. ~Fenced(dispatcher'[e], outbox')  BY SMTT(20), <1>7 DEF Fenced
  <2>2. ASSUME Writing(dispatcher[e])  PROVE Done(dispatcher[e], next, tombstones', child)
    <3>1. Done(dispatcher[e], M!Children(M!Current), tombstones, child)
      BY <2>2 DEF MirrorInv, WorkInv, Work
    <3> QED BY SMTT(20), <3>1, <1>9 DEF Done
  <2> QED BY <2>1, <2>2, <1>2, <1>3, Zenon DEF Work
<1>17. M!RemovedChildrenTombstoned'
  BY <1>2, <1>3, <1>9 DEF MirrorInv, M!RemovedChildrenTombstoned
<1> QED BY <1>7, <1>10, <1>11, <1>13, <1>14, <1>15, <1>16, <1>17 DEF MirrorInv

\* Tick moves the lease, the wait and the operation limits on together.
LEMMA MirrorTickStep ==
  ASSUME M!MirrorAssumption, MirrorInv, M!Tick
  PROVE  MirrorInv'
<1>1. UNCHANGED <<published, tombstones, remotePage, child>>  BY DEF M!Tick
<1>2. outbox \in M!RowType /\ outbox.lease \in 0 .. DeliveryLease /\ outbox.wait \in Nat
  BY DEF MirrorInv, M!TypeOK, M!RowType
<1>3. M!Earlier(outbox.lease) \in 0 .. DeliveryLease /\ M!Earlier(outbox.wait) \in Nat
  BY <1>2 DEF M!Earlier, M!MirrorAssumption
<1>4. outbox' = [outbox EXCEPT !.lease = M!Earlier(outbox.lease), !.wait = M!Earlier(outbox.wait)]
  BY DEF M!Tick
<1>5. outbox' \in M!RowType  BY <1>2, <1>3, <1>4, Zenon DEF M!RowType
<1>6. /\ outbox'.status = outbox.status /\ outbox'.revision = outbox.revision
      /\ outbox'.attempts = outbox.attempts
      /\ outbox'.lease = M!Earlier(outbox.lease) /\ outbox'.wait = M!Earlier(outbox.wait)
  BY <1>2, <1>4 DEF M!RowType
<1>7. ASSUME NEW e \in Dispatchers
      PROVE  /\ dispatcher[e] \in M!DispatcherType /\ dispatcher'[e] \in M!DispatcherType
             /\ dispatcher'[e].pc = dispatcher[e].pc /\ dispatcher'[e].revision = dispatcher[e].revision
             /\ dispatcher'[e].attempt = dispatcher[e].attempt /\ dispatcher'[e].graph = dispatcher[e].graph
             /\ dispatcher'[e].removed = dispatcher[e].removed /\ dispatcher'[e].todo = dispatcher[e].todo
             /\ dispatcher'[e].left = M!Earlier(dispatcher[e].left)
  <2>1. dispatcher[e] \in M!DispatcherType  BY DEF MirrorInv, M!TypeOK
  <2>2. dispatcher'[e] = [dispatcher[e] EXCEPT !.left = M!Earlier(dispatcher[e].left)]  BY DEF M!Tick
  <2>3. M!Earlier(dispatcher[e].left) \in 0 .. OperationTime
    BY <2>1 DEF M!DispatcherType, M!Earlier, M!MirrorAssumption
  <2>4. dispatcher'[e] \in M!DispatcherType  BY <2>1, <2>2, <2>3 DEF M!DispatcherType
  <2>5. /\ dispatcher'[e].pc = dispatcher[e].pc /\ dispatcher'[e].revision = dispatcher[e].revision
        /\ dispatcher'[e].attempt = dispatcher[e].attempt /\ dispatcher'[e].graph = dispatcher[e].graph
        /\ dispatcher'[e].removed = dispatcher[e].removed /\ dispatcher'[e].todo = dispatcher[e].todo
        /\ dispatcher'[e].left = M!Earlier(dispatcher[e].left)
    BY <2>1, <2>2 DEF M!DispatcherType
  <2> QED BY <2>1, <2>4, <2>5
<1>8. M!TypeOK'
  <2>1. dispatcher' \in [Dispatchers -> M!DispatcherType]
    <3>1. dispatcher' = [e \in Dispatchers |-> dispatcher'[e]]  BY DEF M!Tick
    <3> QED BY <3>1, <1>7
  <2> QED BY <2>1, <1>1, <1>5 DEF MirrorInv, M!TypeOK, M!Current
<1>9. M!Current' = M!Current /\ M!Children(M!Current)' = M!Children(M!Current)
      BY SMTT(20), <1>1 DEF M!Current, M!Children
<1>10. RowInv'  BY <1>6, <1>9 DEF MirrorInv, RowInv
<1>11. ClaimsInv'  BY <1>6, <1>7, <1>9 DEF MirrorInv, ClaimsInv
<1>12. ASSUME NEW e \in Dispatchers, Writing(dispatcher'[e])
       PROVE  /\ Writing(dispatcher[e])
              /\ dispatcher[e].left \in Nat /\ dispatcher[e].left > 1
              /\ dispatcher'[e].left = dispatcher[e].left - 1
  <2>1. dispatcher[e].left \in Nat  BY <1>7 DEF M!DispatcherType, M!MirrorAssumption
  <2> QED BY <2>1, <1>7, <1>12 DEF Writing, M!Earlier
<1>13. HorizonInv'
  <2> SUFFICES ASSUME NEW e \in Dispatchers, Writing(dispatcher'[e])
               PROVE  Covered(dispatcher'[e], outbox')
    BY Zenon DEF HorizonInv
  <2>1. Covered(dispatcher[e], outbox)  BY <1>12 DEF MirrorInv, HorizonInv
  <2>2. outbox.lease \in Nat /\ outbox.wait \in Nat  BY <1>2 DEF M!MirrorAssumption
  <2>3. dispatcher[e].left < outbox.lease => dispatcher'[e].left < outbox'.lease
    BY <2>2, <1>6, <1>12 DEF M!Earlier
  <2>4. dispatcher[e].left < outbox.wait => dispatcher'[e].left < outbox'.wait
    BY <2>2, <1>6, <1>12 DEF M!Earlier
  <2> QED BY <2>1, <2>3, <2>4, <1>6, <1>7 DEF Covered, Fenced
<1>14. M!RemoteWritesSerialized'
  BY <1>12 DEF MirrorInv, M!RemoteWritesSerialized, Writing
<1>15. Mirrored' <=> Mirrored  BY <1>1, <1>9 DEF Mirrored
<1>16. WorkInv'
  <2> SUFFICES ASSUME NEW e \in Dispatchers  PROVE Work(e)'  BY Zenon DEF WorkInv
  <2>1. Work(e)  BY DEF MirrorInv, WorkInv
  <2>2. Fenced(dispatcher'[e], outbox') <=> Fenced(dispatcher[e], outbox)  BY SMTT(20), <1>6, <1>7 DEF Fenced
  <2>3. Done(dispatcher[e], M!Children(M!Current), tombstones, child)
          => Done(dispatcher'[e], M!Children(M!Current), tombstones, child)
    BY SMTT(20), <1>7 DEF Done
  <2>4. Brought(dispatcher[e], M!Current, M!Children(M!Current), remotePage, child)
          => Brought(dispatcher'[e], M!Current, M!Children(M!Current), remotePage, child)
    BY SMTT(20), <1>7 DEF Brought
  <2>5. dispatcher'[e].pc = dispatcher[e].pc  BY <1>7
  <2> QED BY <2>1, <2>2, <2>3, <2>4, <2>5, <1>1, <1>9, <1>12, <1>15, Zenon DEF Work
<1>17. M!RemovedChildrenTombstoned'  BY <1>1, <1>9 DEF MirrorInv, M!RemovedChildrenTombstoned
<1> QED BY <1>6, <1>8, <1>10, <1>11, <1>13, <1>14, <1>15, <1>16, <1>17 DEF MirrorInv

-----------------------------------------------------------------------------
(* The theorems *)

\* Nothing is published, and Triplet is empty.
LEMMA MirrorInit ==
  ASSUME M!MirrorAssumption, M!Init
  PROVE  MirrorInv
<1>1. \A d \in Dispatchers : dispatcher[d] = M!Idle  BY DEF M!Init
<1>2. M!Current = 0 /\ M!Children(M!Current) = {} /\ outbox = M!NoRow /\ M!NoRow.status = "none"
  BY DEF M!Init, M!Current, M!Children, M!NoRow
<1>3. M!TypeOK
  <2>1. M!NoRow \in M!RowType  BY DEF M!NoRow, M!RowType, M!MirrorAssumption
  <2> QED BY <2>1, <1>2, IdleType DEF M!Init, M!TypeOK, M!MirrorAssumption
<1>4. \A d \in Dispatchers : ~Writing(dispatcher[d]) /\ dispatcher[d].pc = "idle"
  BY <1>1, IdleType DEF Writing, M!Delivering
<1>5. Mirrored  BY <1>2 DEF M!Init, Mirrored
<1>6. RowInv /\ ClaimsInv  BY <1>2, <1>4 DEF RowInv, ClaimsInv
<1>7. HorizonInv  BY <1>4, Zenon DEF HorizonInv
<1>8. M!RemoteWritesSerialized  BY <1>4 DEF M!RemoteWritesSerialized, Writing
<1>9. WorkInv  BY <1>4, <1>5, Zenon DEF WorkInv, Work
<1>10. M!RemovedChildrenTombstoned  BY DEF M!Init, M!RemovedChildrenTombstoned
<1> QED BY <1>3, <1>5, <1>6, <1>7, <1>8, <1>9, <1>10 DEF MirrorInv

\* Every step keeps the invariant, when no page is published twice in one delivery.
LEMMA MirrorStep ==
  ASSUME M!MirrorAssumption, BackToBack = FALSE, MirrorInv, [M!Next]_(M!vars)
  PROVE  MirrorInv'
<1>1. CASE \E next \in SUBSET Annotations : M!Publish(next)  BY Zenon, <1>1, PublishStep
<1>2. CASE M!FailExhausted  BY <1>2, FailExhaustedStep
<1>3. CASE M!Tick  BY SMTT(20), <1>3, MirrorTickStep
<1>4. ASSUME NEW d \in Dispatchers, M!Claim(d) \/ M!Deliver(d) \/ M!Fail(d) \/ M!Crash(d)  PROVE MirrorInv'
  <2>1. CASE M!Claim(d)  BY <2>1, ClaimDeliveryStep
  <2>2. CASE M!Fail(d) \/ M!Crash(d)  BY <2>2, EndDeliveryStep
  <2>3. CASE M!BuildGraph(d)  BY <2>3, BuildGraphStep
  <2>4. CASE M!LoadTombstones(d)  BY <2>4, LoadTombstonesStep
  <2>5. CASE M!PutPage(d)  BY <2>5, PutPageStep
  <2>6. CASE M!Acknowledge(d)  BY <2>6, AcknowledgeStep
  <2>7. CASE M!Complete(d)  BY <2>7, CompleteDeliveryStep
  <2>8. CASE M!Retry(d)  BY <2>8, RetryDeliveryStep
  <2>9. CASE \E a \in Annotations : M!PutChild(d, a) \/ M!DeleteChild(d, a)
    BY <2>9, PutChildStep, DeleteChildStep
  <2> QED BY <1>4, <2>1, <2>2, <2>3, <2>4, <2>5, <2>6, <2>7, <2>8, <2>9 DEF M!Deliver
<1>5. CASE UNCHANGED M!vars
  <2>1. UNCHANGED <<published, outbox, tombstones, remotePage, child, dispatcher>>  BY <1>5 DEF M!vars
  <2>2. M!Current' = M!Current /\ M!Children(M!Current)' = M!Children(M!Current)  BY <2>1 DEF M!Current, M!Children
  <2>3. Mirrored' <=> Mirrored  BY <2>1, <2>2 DEF Mirrored
  <2>4. WorkInv'  BY <2>1, <2>2, <2>3, Zenon DEF MirrorInv, WorkInv, Work
  <2>5. M!RemoteWritesSerialized' /\ M!RemovedChildrenTombstoned'
    BY <2>1, <2>2 DEF MirrorInv, M!RemoteWritesSerialized, M!RemovedChildrenTombstoned
  <2>6. M!TypeOK' /\ RowInv' /\ ClaimsInv'  BY <2>1, <2>2 DEF MirrorInv, M!TypeOK, RowInv, ClaimsInv
  <2>7. HorizonInv'  BY <2>1, Zenon DEF MirrorInv, HorizonInv
  <2> QED BY <2>1, <2>3, <2>4, <2>5, <2>6, <2>7 DEF MirrorInv
<1> QED BY <1>1, <1>2, <1>3, <1>4, <1>5 DEF M!Next

\* The invariant holds along every behaviour in which a page is published at most
\* once during a delivery.
THEOREM MirrorInvariant ==
  ASSUME M!MirrorAssumption, BackToBack = FALSE
  PROVE  M!Spec => []MirrorInv
<1>1. M!Init => MirrorInv  BY MirrorInit
<1>2. MirrorInv /\ [M!Next]_(M!vars) => MirrorInv'  BY Zenon, MirrorStep
<1> QED BY <1>1, <1>2, PTL DEF M!Spec

\* Remote writes are serialized: the horizon that UpsertAnnotationMirrorOutbox sets
\* outlasts the delivery it overtook, whatever crashes, fails or is retried.
THEOREM WritesStaySerialized ==
  ASSUME M!MirrorAssumption, BackToBack = FALSE
  PROVE  M!Spec => []M!RemoteWritesSerialized
<1>1. MirrorInv => M!RemoteWritesSerialized  BY DEF MirrorInv
<1> QED BY <1>1, MirrorInvariant, PTL

\* When the outbox row is gone Triplet shows exactly the published page, and until
\* then whatever it has beyond that page has a tombstone.
THEOREM MirrorConverges ==
  ASSUME M!MirrorAssumption, BackToBack = FALSE
  PROVE  M!Spec => []M!MirrorConverged
<1>1. MirrorInv => M!MirrorConverged  BY DEF MirrorInv, M!MirrorConverged, Mirrored
<1> QED BY <1>1, MirrorInvariant, PTL

=============================================================================
