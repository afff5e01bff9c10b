-------------------------- MODULE EventOutboxProofs --------------------------
(***************************************************************************)
(* What becomes of the events of the outbox:                               *)
(*   - why a browser in sync misses nothing, for any number of             *)
(*     transactions, events, reconnections and batch sizes: ids commit in  *)
(*     order because the workspace row is locked, and every event that the *)
(*     cursor has passed is in the snapshot, in the frames on their way or *)
(*     already received;                                                   *)
(*   - why the webhooks' marks are true, for any number of events,         *)
(*     subscriptions and dispatchers: a claim counts an attempt before it  *)
(*     entitles anyone to a POST, and whoever is about to mark a delivery  *)
(*     delivered has had it accepted.                                      *)
(***************************************************************************)
EXTENDS EventStream, FiniteSetTheorems, WellFoundedInduction, TLAPS

-----------------------------------------------------------------------------
(* Maxima and orderings of finite sets of ids.                             *)

\* A nonempty set of naturals has a least element.
LEMMA LeastNatural ==
  ASSUME NEW T \in SUBSET Nat, T # {}
  PROVE  \E x \in T : \A y \in T : x <= y
<1> DEFINE Less == {p \in Nat \X Nat : p[1] < p[2]}
<1>1. IsWellFoundedOn(Less, Nat)
  BY NatLessThanWellFounded, Zenon DEF OpToRel
<1> HIDE DEF Less
<1>2. PICK x \in T : \A y \in T : ~(<<y, x>> \in Less)
  BY Zenon, <1>1, WFMin
<1>3. ASSUME NEW y \in T PROVE x <= y
  <2>1. x \in Nat /\ y \in Nat
    OBVIOUS
  <2>2. y < x => <<y, x>> \in Less
    BY <2>1 DEF Less
  <2> QED
    BY <1>2, <2>1, <2>2
<1> QED
  BY <1>3

\* A set with 0 and the successor of each of its naturals holds all of them.
LEMMA Induct ==
  ASSUME NEW S, 0 \in S, \A n \in Nat : n \in S => n + 1 \in S
  PROVE  Nat \subseteq S
<1> SUFFICES ASSUME Nat \ S # {} PROVE FALSE
  OBVIOUS
<1>1. PICK x \in Nat \ S : \A y \in Nat \ S : x <= y
  BY Zenon, LeastNatural
<1>2. x # 0 /\ x - 1 \in Nat
  BY <1>1
<1>3. x - 1 \in S
  BY <1>1, <1>2
<1> QED
  BY <1>1, <1>2, <1>3

\* A nonempty set of naturals below a bound has a greatest element.
LEMMA MaxIs ==
  ASSUME NEW n \in Nat, NEW T \in SUBSET (0 .. n), T # {}
  PROVE  Max(T) \in T /\ \A y \in T : y <= Max(T)
<1> DEFINE D == {x \in Nat : \E y \in T : x = n - y}
<1>1. D \in SUBSET Nat /\ D # {}
  <2>1. PICK y \in T : TRUE
    BY Zenon
  <2>2. n - y \in Nat
    OBVIOUS
  <2> QED
    BY Zenon, <2>2
<1>2. PICK d \in D : \A x \in D : d <= x
  BY Zenon, <1>1, LeastNatural
<1>3. PICK m \in T : d = n - m
  OBVIOUS
<1>4. \A y \in T : m >= y
  <2> SUFFICES ASSUME NEW y \in T PROVE m >= y
    OBVIOUS
  <2>1. n - y \in D
    OBVIOUS
  <2> QED
    BY <1>2, <1>3, <2>1
<1> QED
  BY Zenon, <1>4 DEF Max

Sorted(S, s) ==
    /\ \A j, k \in 1 .. Cardinality(S) : j < k => s[j] < s[k]
    /\ \A i \in S : \E k \in 1 .. Cardinality(S) : s[k] = i

\* A finite set of ids can be listed in order: by induction on its cardinality,
\* the greatest id last.
LEMMA Sortable ==
  ASSUME NEW m \in Nat, NEW T \in SUBSET (0 .. m)
  PROVE  \E s \in [1 .. Cardinality(T) -> T] : Sorted(T, s)
<1> DEFINE Good == {n \in Nat : \A S \in SUBSET (0 .. m) :
                      Cardinality(S) = n => \E s \in [1 .. Cardinality(S) -> S] : Sorted(S, s)}
<1>1. ASSUME NEW S \in SUBSET (0 .. m) PROVE IsFiniteSet(S) /\ Cardinality(S) \in Nat
  <2>1. IsFiniteSet(0 .. m)
    BY FS_Interval
  <2>2. IsFiniteSet(S)
    BY Zenon, <2>1, FS_Subset
  <2> QED
    BY <2>2, FS_CardinalityType
<1>2. 0 \in Good
  <2> SUFFICES ASSUME NEW S \in SUBSET (0 .. m), Cardinality(S) = 0
               PROVE  \E s \in [1 .. Cardinality(S) -> S] : Sorted(S, s)
    OBVIOUS
  <2>1. S = {} /\ 1 .. Cardinality(S) = {}
    BY <1>1, FS_EmptySet
  <2>2. [k \in 1 .. Cardinality(S) |-> k] \in [1 .. Cardinality(S) -> S]
    BY <2>1
  <2> QED
    BY Zenon, <2>1, <2>2 DEF Sorted
<1>3. ASSUME NEW n \in Nat, n \in Good PROVE n + 1 \in Good
  <2> SUFFICES ASSUME NEW S \in SUBSET (0 .. m), Cardinality(S) = n + 1
               PROVE  \E s \in [1 .. Cardinality(S) -> S] : Sorted(S, s)
    OBVIOUS
  <2> DEFINE top == Max(S)
             U == S \ {top}
  <2>1. S # {}
    BY FS_EmptySet
  <2>2. top \in S /\ \A y \in S : y <= top
    BY Zenon, <2>1, MaxIs
  <2> HIDE DEF top
  <2>3. U \in SUBSET (0 .. m) /\ Cardinality(U) = n
    BY <1>1, <2>2, FS_RemoveElement
  <2>4. PICK u \in [1 .. Cardinality(U) -> U] : Sorted(U, u)
    BY Zenon, <1>3, <2>3
  <2> DEFINE s == [k \in 1 .. n + 1 |-> IF k = n + 1 THEN top ELSE u[k]]
  <2>5. ASSUME NEW k \in 1 .. n PROVE u[k] \in S /\ u[k] < top /\ u[k] \in Nat /\ top \in Nat
    <3>1. u[k] \in U
      BY Zenon, <2>3, <2>4
    <3>2. u[k] \in S /\ u[k] # top
      BY <3>1
    <3>3. u[k] \in 0 .. m /\ top \in 0 .. m /\ u[k] <= top
      BY Zenon, <2>2, <3>2
    <3> QED
      BY <3>2, <3>3
  <2>6. s \in [1 .. Cardinality(S) -> S]
    <3>1. ASSUME NEW k \in 1 .. n + 1 PROVE s[k] \in S
      <4>1. CASE k = n + 1
        BY <2>2, <4>1
      <4>2. CASE k # n + 1
        <5>1. k \in 1 .. n
          BY <4>2
        <5> QED
          BY Zenon, <2>5, <4>2, <5>1
      <4> QED
        BY <4>1, <4>2
    <3>2. s \in [1 .. n + 1 -> S]
      BY Zenon, <3>1
    <3> QED
      BY <3>2
  <2>7. ASSUME NEW j \in 1 .. n + 1, NEW k \in 1 .. n + 1, j < k PROVE s[j] < s[k]
    <3>1. j \in 1 .. n /\ s[j] = u[j]
      BY <2>7
    <3>2. CASE k = n + 1
      BY Zenon, <2>5, <3>1, <3>2
    <3>3. CASE k # n + 1
      <4>1. k \in 1 .. n /\ s[k] = u[k]
        BY <3>3
      <4> QED
        BY Zenon, <2>3, <2>4, <2>7, <3>1, <4>1 DEF Sorted
    <3> QED
      BY <3>2, <3>3
  <2>8. \A i \in S : \E k \in 1 .. n + 1 : s[k] = i
    <3> SUFFICES ASSUME NEW i \in S PROVE \E k \in 1 .. n + 1 : s[k] = i
      BY Zenon
    <3>1. CASE i = top
      BY <3>1
    <3>2. CASE i # top
      <4>1. PICK k \in 1 .. n : u[k] = i
        BY Zenon, <2>3, <2>4, <3>2 DEF Sorted
      <4> QED
        BY <4>1
    <3> QED
      BY Zenon, <3>1, <3>2
  <2> QED
    BY Zenon, <2>6, <2>7, <2>8 DEF Sorted
<1> HIDE DEF Good
<1>4. Cardinality(T) \in Good
  BY <1>1, <1>2, <1>3, Induct
<1> QED
  BY <1>4 DEF Good

\* What InOrder returns.
LEMMA InOrderIs ==
  ASSUME NEW m \in Nat, NEW T \in SUBSET (0 .. m)
  PROVE  InOrder(T) \in [1 .. Cardinality(T) -> T] /\ Sorted(T, InOrder(T))
BY Zenon, Sortable DEF InOrder, Sorted

-----------------------------------------------------------------------------
(* The inductive invariant.                                                *)

\* Ids are handed out once.  A transaction's id is newer than all that is
\* committed and than every cursor, and one that holds the row exclusively is the
\* only one.
WritersInv ==
    /\ \A i \in outbox \cup hidden : i < nextId
    /\ stream.cursor < nextId /\ client.last < nextId
    /\ \A w \in Writers : writer[w].pc # "idle" =>
         /\ writer[w].id \in 1 .. nextId - 1
         /\ \A i \in outbox : i < writer[w].id
         /\ stream.cursor < writer[w].id /\ client.last < writer[w].id
    /\ \A v, w \in Writers : writer[v].pc = "locked" /\ writer[w].pc # "idle" => v = w

\* Frames are in order, between the client's cursor and the server's; a ready frame
\* comes first, to a client that waits for it.
FramesInv ==
    LET f == stream.frames IN
    /\ \A j, k \in DOMAIN f : j < k => f[j].id < f[k].id
    /\ \A k \in DOMAIN f : /\ f[k].id <= stream.cursor
                           /\ IF f[k].kind = "ready" THEN k = 1 /\ f[k].id >= client.last /\ client.state = "waiting"
                                                     ELSE f[k].id > client.last /\ f[k].id >= 1
    /\ IF stream.open THEN client.last <= stream.cursor ELSE f = << >> /\ client.state \in {"waiting", "refused"}

\* Events that a client in sync has not seen are on their way to it.
SyncInv ==
    /\ client.state = "synced" =>
         \A i \in outbox \ hidden : i <= stream.cursor =>
           \/ i \in client.seen
           \/ \E k \in DOMAIN stream.frames : stream.frames[k].kind = "event" /\ stream.frames[k].id = i
    /\ \A i \in client.received : i <= client.last

StreamInv == TypeOK /\ WritersInv /\ FramesInv /\ SyncInv

\* The bounds are natural numbers.
LEMMA Bounds ==
  ASSUME StreamAssumption
  PROVE  MaxEvents \in Nat /\ MaxDisconnects \in Nat /\ Limit \in Nat
BY DEF StreamAssumption

\* A batch ends at its greatest id, and leaves out nothing before it.
LEMMA BatchIs ==
  ASSUME StreamAssumption, TypeOK, Batch # {}
  PROVE  /\ Batch \subseteq outbox /\ Batch \subseteq 1 .. MaxEvents
         /\ \A i \in Batch : i > stream.cursor /\ i <= Max(Batch)
         /\ Max(Batch) \in Batch
         /\ \A i \in outbox : i > stream.cursor /\ i <= Max(Batch) => i \in Batch
<1> DEFINE A == After(stream.cursor)
           below(i) == {j \in A : j < i}
           end == Max(Batch)
<1>1. outbox \subseteq 1 .. MaxEvents /\ stream.cursor \in 0 .. MaxEvents /\ MaxEvents \in Nat /\ Limit \in Nat
  BY Bounds DEF TypeOK, Id
<1>2. /\ A \subseteq outbox /\ Batch \subseteq A /\ \A i \in A : i > stream.cursor
      /\ \A i \in outbox : i > stream.cursor => i \in A
  BY DEF After, Batch
<1>3. \A i \in A : i \in Batch <=> Cardinality(below(i)) < Limit
  BY DEF Batch
<1> HIDE DEF A
<1>4. Batch \in SUBSET (0 .. MaxEvents)
  BY <1>1, <1>2
<1>5. end \in Batch /\ \A i \in Batch : i <= end
  BY Zenon, <1>1, <1>4, MaxIs
<1> HIDE DEF end
<1>6. ASSUME NEW i \in A, i <= end PROVE i \in Batch
  <2>1. below(i) \subseteq below(end)
    <3> SUFFICES ASSUME NEW j \in A, j < i PROVE j < end
      OBVIOUS
    <3>1. i \in Nat /\ j \in Nat /\ end \in Nat
      BY <1>1, <1>2, <1>5
    <3> QED
      BY <1>6, <3>1
  <2>2. below(end) \subseteq 1 .. MaxEvents
    BY Zenon, <1>1, <1>2
  <2> HIDE DEF below
  <2>3. IsFiniteSet(below(end))
    <3>1. IsFiniteSet(1 .. MaxEvents)
      BY <1>1, FS_Interval
    <3> QED
      BY Zenon, <2>2, <3>1, FS_Subset
  <2>4. IsFiniteSet(below(i)) /\ Cardinality(below(i)) <= Cardinality(below(end))
    BY <2>1, <2>3, FS_Subset
  <2>5. Cardinality(below(i)) \in Nat /\ Cardinality(below(end)) \in Nat
    BY <2>3, <2>4, FS_CardinalityType
  <2>6. Cardinality(below(end)) < Limit
    BY <1>2, <1>3, <1>5 DEF below
  <2> QED
    BY <1>1, <1>3, <2>4, <2>5, <2>6 DEF below
<1> QED
  BY <1>1, <1>2, <1>5, <1>6 DEF end

\* The frames of a batch are in order, within it, and hold its visible events.
LEMMA FramesOfBatch ==
  ASSUME StreamAssumption, TypeOK, Batch # {}
  PROVE  LET g == BatchFrames IN
         /\ g \in Seq(Frame)
         /\ \A j, k \in 1 .. Len(g) : j < k => g[j].id < g[k].id
         /\ \A k \in 1 .. Len(g) : g[k].id \in Batch /\ g[k].kind # "ready"
         /\ \A i \in Batch \ hidden : \E k \in 1 .. Len(g) : g[k].kind = "event" /\ g[k].id = i
<1> DEFINE B == Batch
           V == B \ hidden
           shown == InOrder(V)
           n == Cardinality(V)
           end == Max(B)
           e == [k \in DOMAIN shown |-> [kind |-> "event", id |-> shown[k]]]
           c == [kind |-> "checkpoint", id |-> end]
           t == IF end \in hidden THEN <<c>> ELSE << >>
           g == e \o t
<1>1. BatchFrames = g
  BY DEF BatchFrames
<1>2. MaxEvents \in Nat /\ B \subseteq 1 .. MaxEvents /\ end \in B /\ \A i \in B : i <= end
  BY Bounds, BatchIs
<1> HIDE DEF B, end
<1>3. V \in SUBSET (0 .. MaxEvents) /\ IsFiniteSet(V) /\ n \in Nat
  <2>1. V \subseteq 1 .. MaxEvents
    BY Zenon, <1>2
  <2>2. IsFiniteSet(1 .. MaxEvents)
    BY <1>2, FS_Interval
  <2>3. IsFiniteSet(V)
    BY Zenon, <2>1, <2>2, FS_Subset
  <2> QED
    BY <1>2, <2>1, <2>3, FS_CardinalityType
<1>4. shown \in [1 .. n -> V] /\ Sorted(V, shown)
  BY Zenon, <1>2, <1>3, InOrderIs
<1>5. /\ \A j, k \in 1 .. n : j < k => shown[j] < shown[k]
      /\ \A i \in V : \E k \in 1 .. n : shown[k] = i
  BY Zenon, <1>4 DEF Sorted
<1> HIDE DEF n, shown
<1>6. /\ e = [k \in 1 .. n |-> [kind |-> "event", id |-> shown[k]]]
      /\ \A k \in 1 .. n : shown[k] \in V /\ shown[k] \in 0 .. MaxEvents
  BY <1>3, <1>4
<1>7. e \in Seq(Frame) /\ Len(e) = n /\ \A k \in 1 .. n : e[k] = [kind |-> "event", id |-> shown[k]]
  <2>1. \A k \in 1 .. n : [kind |-> "event", id |-> shown[k]] \in Frame
    BY <1>6 DEF Frame
  <2> QED
    BY <1>3, <1>6, <2>1
<1> HIDE DEF e
<1>8. \A k \in 1 .. n : e[k].kind = "event" /\ e[k].id = shown[k]
  BY <1>7
<1>9. CASE end \notin hidden
  <2>1. g = e
    BY <1>7, <1>9
  <2>2. \A k \in 1 .. n : g[k].kind = "event" /\ g[k].id = shown[k] /\ shown[k] \in B
    BY Zenon, <1>6, <1>8, <2>1
  <2>3. g \in Seq(Frame) /\ Len(g) = n
    BY <1>7, <2>1
  <2> HIDE DEF g
  <2> QED
    BY <1>1, <1>5, <2>2, <2>3 DEF B
<1>10. CASE end \in hidden
  <2>1. c \in Frame /\ c.id = end /\ c.kind = "checkpoint"
    BY <1>2 DEF Frame
  <2> HIDE DEF c
  <2>2. g = Append(e, c)
    BY <1>7, <1>10, <2>1
  <2>3. g \in Seq(Frame) /\ Len(g) = n + 1 /\ g[n + 1] = c /\ \A k \in 1 .. n : g[k] = e[k]
    BY <1>3, <1>7, <2>1, <2>2
  <2>4. \A k \in 1 .. n : g[k].kind = "event" /\ g[k].id = shown[k] /\ shown[k] \in V
    BY Zenon, <1>6, <1>8, <2>3
  <2>5. \A k \in 1 .. n : shown[k] < end
    <3> SUFFICES ASSUME NEW k \in 1 .. n PROVE shown[k] < end
      OBVIOUS
    <3>1. shown[k] \in B /\ shown[k] # end
      BY <1>6, <1>10
    <3>2. shown[k] \in 1 .. MaxEvents /\ end \in 1 .. MaxEvents /\ shown[k] <= end
      BY Zenon, <1>2, <3>1
    <3> QED
      BY <1>2, <3>1, <3>2
  <2> HIDE DEF g, V
  <2>6. ASSUME NEW j \in 1 .. n + 1, NEW k \in 1 .. n + 1, j < k PROVE g[j].id < g[k].id
    <3>1. j \in 1 .. n
      BY <1>3, <2>6
    <3>2. k \in 1 .. n \/ k = n + 1
      BY <1>3
    <3> QED
      BY <1>5, <2>1, <2>3, <2>4, <2>5, <2>6, <3>1, <3>2
  <2>7. ASSUME NEW k \in 1 .. n + 1 PROVE g[k].id \in B /\ g[k].kind # "ready"
    <3>1. k \in 1 .. n \/ k = n + 1
      BY <1>3
    <3> QED
      BY <1>2, <2>1, <2>3, <2>4, <3>1 DEF V
  <2>8. ASSUME NEW i \in V PROVE \E k \in 1 .. n + 1 : g[k].kind = "event" /\ g[k].id = i
    <3>1. PICK k \in 1 .. n : shown[k] = i
      BY <1>5, <2>8
    <3>2. k \in 1 .. n + 1
      BY <1>3
    <3> QED
      BY <2>4, <3>1, <3>2
  <2> QED
    BY <1>1, <2>3, <2>6, <2>7, <2>8 DEF B, V
<1> QED
  BY <1>9, <1>10

-----------------------------------------------------------------------------
(* The steps.                                                              *)

\* An empty outbox, no connection and a browser that waits.
LEMMA InitSync == ASSUME StreamAssumption, Init PROVE StreamInv
<1>1. MaxEvents \in Nat /\ MaxDisconnects \in Nat
  BY Bounds
<1>2. TypeOK
  BY <1>1 DEF Init, TypeOK, NoWriter, NoStream, NoCursor, Id
<1>3. WritersInv /\ FramesInv /\ SyncInv
  BY <1>1 DEF Init, WritersInv, FramesInv, SyncInv, NoWriter, NoStream, NoCursor
<1> QED
  BY <1>2, <1>3 DEF StreamInv

\* An id is newer than every id allocated before it; the row locks see to it
\* that none of those is still to be committed when it is.
LEMMA WriterStep ==
  ASSUME StreamAssumption, StreamInv, NEW w \in Writers,
         \/ \E hide \in BOOLEAN : InsertEventOutbox(w, hide)
         \/ LockWebhookDeliveryExpansionWorkspace(w) \/ Rollback(w) \/ Commit(w)
  PROVE  StreamInv'
<1>1. MaxEvents \in Nat
  BY Bounds
<1> USE DEF StreamInv
<1>2. stream' = stream /\ client' = client
  BY DEF InsertEventOutbox, LockWebhookDeliveryExpansionWorkspace, Rollback, Commit
<1>3. FramesInv'
  BY <1>2 DEF FramesInv
<1>4. /\ writer \in [Writers -> [pc : {"idle", "inserted", "locked"}, id : 0 .. MaxEvents]]
      /\ nextId \in 1 .. MaxEvents + 1 /\ outbox \subseteq 1 .. MaxEvents
      /\ stream.cursor \in 0 .. MaxEvents /\ client.last \in -1 .. MaxEvents
  BY DEF TypeOK, Id, NoCursor
<1>5. CASE \E hide \in BOOLEAN : InsertEventOutbox(w, hide)
  <2>1. PICK hide \in BOOLEAN : InsertEventOutbox(w, hide)
    BY <1>5
  <2>2. /\ nextId \in 1 .. MaxEvents /\ nextId' = nextId + 1 /\ outbox' = outbox
        /\ hidden \subseteq hidden' /\ hidden' \subseteq hidden \cup {nextId}
        /\ \A v \in Writers : writer[v].pc # "locked"
        /\ writer' = [writer EXCEPT ![w] = [pc |-> "inserted", id |-> nextId]]
    BY <2>1 DEF InsertEventOutbox, HoldsExclusive, Id
  <2>3. TypeOK'
    BY <1>1, <1>2, <1>4, <2>2 DEF TypeOK, Id
  <2>4. /\ writer'[w].pc = "inserted" /\ writer'[w].id = nextId
        /\ \A v \in Writers \ {w} : writer'[v] = writer[v]
    BY <1>4, <2>2
  <2>5. /\ \A i \in outbox' \cup hidden' : i < nextId'
        /\ stream'.cursor < nextId' /\ client'.last < nextId'
    BY <1>2, <1>4, <2>2 DEF WritersInv, TypeOK, Id
  <2>6. ASSUME NEW v \in Writers, writer'[v].pc # "idle"
        PROVE  /\ writer'[v].id \in 1 .. nextId' - 1
               /\ \A i \in outbox' : i < writer'[v].id
               /\ stream'.cursor < writer'[v].id /\ client'.last < writer'[v].id
    <3>1. CASE v = w
      BY <1>2, <1>4, <2>2, <2>4, <3>1 DEF WritersInv
    <3>2. CASE v # w
      <4>1. writer'[v] = writer[v]
        BY <2>4, <3>2
      <4>2. writer[v].id \in 1 .. nextId - 1
        BY <2>6, <4>1 DEF WritersInv
      <4>3. writer[v].id \in 1 .. nextId' - 1
        BY <1>4, <2>2, <4>2
      <4> QED
        BY <1>2, <2>2, <2>6, <4>1, <4>3 DEF WritersInv
    <3> QED
      BY <3>1, <3>2
  <2>7. \A v \in Writers : writer'[v].pc # "locked"
    BY <2>2, <2>4
  <2>8. WritersInv'
    BY <2>5, <2>6, <2>7 DEF WritersInv
  <2>9. SyncInv'
    BY <1>2, <2>2 DEF SyncInv
  <2> QED
    BY <1>3, <2>3, <2>8, <2>9
<1>6. CASE LockWebhookDeliveryExpansionWorkspace(w)
  <2>1. /\ nextId' = nextId /\ outbox' = outbox /\ hidden' = hidden /\ writer[w].pc = "inserted"
        /\ \A v \in Writers \ {w} : writer[v].pc = "idle"
        /\ writer' = [writer EXCEPT ![w].pc = "locked"]
    BY <1>4, <1>6 DEF LockWebhookDeliveryExpansionWorkspace, HoldsShared
  <2>2. /\ writer'[w].pc = "locked" /\ writer'[w].id = writer[w].id
        /\ \A v \in Writers \ {w} : writer'[v] = writer[v]
    BY <1>4, <2>1
  <2>3. TypeOK'
    BY SMTT(20), <1>2, <1>4, <2>1 DEF TypeOK
  <2>4. WritersInv'
    BY <1>2, <2>1, <2>2 DEF WritersInv
  <2>5. SyncInv'
    BY <1>2, <2>1 DEF SyncInv
  <2> QED
    BY <1>3, <2>3, <2>4, <2>5
<1>7. CASE Rollback(w)
  <2>1. /\ nextId' = nextId /\ outbox' = outbox /\ hidden' = hidden
        /\ writer' = [writer EXCEPT ![w] = NoWriter]
    BY <1>7 DEF Rollback
  <2>2. writer'[w].pc = "idle" /\ \A v \in Writers \ {w} : writer'[v] = writer[v]
    BY <1>4, <2>1 DEF NoWriter
  <2>3. TypeOK'
    BY <1>1, <1>2, <1>4, <2>1 DEF TypeOK, NoWriter
  <2>4. WritersInv'
    BY <1>2, <2>1, <2>2 DEF WritersInv
  <2>5. SyncInv'
    BY <1>2, <2>1 DEF SyncInv
  <2> QED
    BY <1>3, <2>3, <2>4, <2>5
<1>8. CASE Commit(w)
  <2>1. /\ nextId' = nextId /\ outbox' = outbox \cup {writer[w].id} /\ hidden' = hidden
        /\ writer[w].pc = "locked" /\ writer' = [writer EXCEPT ![w] = NoWriter]
    BY <1>8 DEF Commit
  <2>2. writer'[w].pc = "idle" /\ \A v \in Writers \ {w} : writer'[v] = writer[v]
    BY <1>4, <2>1 DEF NoWriter
  <2>3. \A v \in Writers : writer'[v].pc = "idle"
    BY <2>1, <2>2 DEF WritersInv
  <2>4. writer[w].id \in 1 .. nextId - 1 /\ stream.cursor < writer[w].id
    BY <2>1 DEF WritersInv
  <2>5. writer[w].id \in 1 .. MaxEvents
    BY <1>1, <1>4, <2>4
  <2>6. TypeOK'
    <3>1. outbox' \subseteq Id
      BY Zenon, <1>4, <2>1, <2>5 DEF Id
    <3>2. writer' \in [Writers -> [pc : {"idle", "inserted", "locked"}, id : 0 .. MaxEvents]]
      BY <1>1, <1>4, <2>1 DEF NoWriter
    <3> QED
      BY <1>2, <2>1, <3>1, <3>2 DEF TypeOK
  <2>7. writer[w].id < nextId
    BY <1>4, <2>4
  <2>8. WritersInv'
    BY <1>2, <2>1, <2>3, <2>7 DEF WritersInv
  <2>9. ASSUME NEW i \in outbox' \ hidden', i <= stream.cursor PROVE i \in outbox \ hidden
    BY <1>4, <2>1, <2>4, <2>5, <2>9
  <2>10. SyncInv'
    BY <1>2, <2>9 DEF SyncInv
  <2> QED
    BY <1>3, <2>6, <2>8, <2>10
<1> QED
  BY <1>5, <1>6, <1>7, <1>8

\* Retention takes events away from nobody: it only narrows what is committed.
LEMMA RetainStep ==
  ASSUME StreamInv, NEW i \in Id, RetainWebhookEvents(i)
  PROVE  StreamInv'
<1>1. outbox' \subseteq outbox /\ UNCHANGED <<writer, nextId, hidden, stream, client>>
  BY DEF RetainWebhookEvents
<1>2. TypeOK'
  BY <1>1 DEF StreamInv, TypeOK
<1>3. WritersInv' /\ FramesInv'
  BY <1>1 DEF StreamInv, WritersInv, FramesInv
<1>4. SyncInv'
  BY <1>1 DEF StreamInv, SyncInv
<1> QED
  BY <1>2, <1>3, <1>4 DEF StreamInv

\* The fields of the two ends, and what the id bounds say of them.
LEMMA Ends ==
  ASSUME StreamAssumption, StreamInv
  PROVE  /\ MaxEvents \in Nat /\ MaxDisconnects \in Nat /\ nextId \in 1 .. MaxEvents + 1
         /\ outbox \subseteq 1 .. MaxEvents
         /\ stream.open \in BOOLEAN /\ stream.cursor \in 0 .. MaxEvents /\ stream.frames \in Seq(Frame)
         /\ client.state \in {"waiting", "ready", "synced", "refused"}
         /\ client.last \in -1 .. MaxEvents /\ client.drops \in 0 .. MaxDisconnects
         /\ client.seen \subseteq Id /\ client.received \subseteq Id
BY Bounds DEF StreamInv, TypeOK, Id, NoCursor

\* Connecting starts at the client's cursor, or at the high-water mark when it
\* has none, with the ready frame as the only one.
LEMMA ConnectStep ==
  ASSUME StreamAssumption, StreamInv, HandleEventStream
  PROVE  StreamInv'
<1> DEFINE high == EventOutboxHighWater
<1>1. high \in 0 .. MaxEvents /\ high < nextId
      /\ \A w \in Writers : writer[w].pc # "idle" => high < writer[w].id
  <2> DEFINE T == outbox \cup {0}
  <2>1. T \in SUBSET (0 .. MaxEvents) /\ T # {} /\ MaxEvents \in Nat
    BY Ends
  <2>2. Max(T) \in T
    BY Zenon, <2>1, MaxIs
  <2>3. \A i \in T : i < nextId
    BY Ends DEF StreamInv, WritersInv
  <2>4. \A w \in Writers : writer[w].pc # "idle" => \A i \in T : i < writer[w].id
    BY Ends DEF StreamInv, WritersInv
  <2> HIDE DEF T
  <2>5. high = Max(T)
    BY DEF EventOutboxHighWater, T
  <2> QED
    BY Zenon, <2>1, <2>2, <2>3, <2>4, <2>5
<1> HIDE DEF high
<1>2. /\ UNCHANGED <<writer, nextId, outbox, hidden>> /\ ~stream.open
      /\ stream.frames = << >> /\ client.state = "waiting"
  BY DEF HandleEventStream, StreamInv, FramesInv
<1>3. CASE client.last > high
  <2>1. client' = [client EXCEPT !.state = "refused"] /\ stream' = stream
    BY <1>3 DEF HandleEventStream, high
  <2>2. TypeOK'
    BY Zenon, <1>2, <2>1 DEF StreamInv, TypeOK
  <2>3. client'.last = client.last /\ client'.state = "refused" /\ client'.received = client.received
    BY <2>1 DEF StreamInv, TypeOK
  <2>4. WritersInv' /\ SyncInv'
    BY <1>2, <2>1, <2>3 DEF StreamInv, WritersInv, SyncInv
  <2>5. FramesInv'
    BY <1>2, <2>1, <2>3 DEF StreamInv, FramesInv
  <2> QED
    BY <2>2, <2>4, <2>5 DEF StreamInv
<1>4. CASE ~(client.last > high)
  <2> DEFINE cursor == IF client.last = NoCursor THEN high ELSE client.last
             ready == [kind |-> "ready", id |-> cursor]
  <2>1. client' = client /\ stream' = [open |-> TRUE, cursor |-> cursor, frames |-> <<ready>>]
    BY <1>4 DEF HandleEventStream, high
  <2>2. /\ cursor \in 0 .. MaxEvents /\ client.last <= cursor /\ cursor < nextId
        /\ \A w \in Writers : writer[w].pc # "idle" => cursor < writer[w].id
    BY <1>1, Ends DEF StreamInv, WritersInv, NoCursor
  <2> HIDE DEF cursor
  <2>3. ready \in Frame /\ ready.id = cursor /\ ready.kind = "ready"
    BY <2>2 DEF Frame
  <2> HIDE DEF ready
  <2>4. stream'.open = TRUE /\ stream'.cursor = cursor /\ stream'.frames = <<ready>>
    BY <2>1
  <2>5. TypeOK'
    BY <1>2, <2>1, <2>2, <2>3 DEF StreamInv, TypeOK
  <2>6. WritersInv'
    BY <1>2, <2>1, <2>2, <2>4 DEF StreamInv, WritersInv
  <2>7. \A k \in DOMAIN stream'.frames : k = 1 /\ stream'.frames[k] = ready
    BY <2>4
  <2>8. cursor <= cursor
    BY <2>2
  <2>9. FramesInv'
    BY <1>2, <2>1, <2>2, <2>3, <2>4, <2>7, <2>8 DEF FramesInv
  <2>10. SyncInv'
    BY <1>2, <2>1 DEF StreamInv, SyncInv
  <2> QED
    BY <2>5, <2>6, <2>9, <2>10 DEF StreamInv
<1> QED
  BY <1>3, <1>4

\* A poll appends the next batch, all newer than the cursor, and moves the cursor
\* to its end.
LEMMA PollStep ==
  ASSUME StreamAssumption, StreamInv, Poll
  PROVE  StreamInv'
<1> DEFINE B == Batch
           end == Max(B)
           f == stream.frames
           g == BatchFrames
           h == stream'.frames
<1>1. /\ stream.open /\ B # {} /\ UNCHANGED <<writer, nextId, outbox, hidden, client>>
      /\ stream' = [stream EXCEPT !.cursor = end, !.frames = @ \o g]
  BY DEF Poll
<1>2. TypeOK
  BY DEF StreamInv
<1>3. stream'.open = TRUE /\ stream'.cursor = end /\ h = f \o g
  BY <1>1, <1>2 DEF TypeOK
<1>4. /\ B \subseteq outbox /\ B \subseteq 1 .. MaxEvents
      /\ \A i \in B : i > stream.cursor /\ i <= end
      /\ end \in B
      /\ \A i \in outbox : i > stream.cursor /\ i <= end => i \in B
  BY <1>1, <1>2, BatchIs
<1>5. /\ g \in Seq(Frame)
      /\ \A j, k \in 1 .. Len(g) : j < k => g[j].id < g[k].id
      /\ \A k \in 1 .. Len(g) : g[k].id \in B /\ g[k].kind # "ready"
      /\ \A i \in B \ hidden : \E k \in 1 .. Len(g) : g[k].kind = "event" /\ g[k].id = i
  BY <1>1, <1>2, FramesOfBatch
<1> HIDE DEF B, end, g
<1>6. /\ end \in 1 .. MaxEvents /\ stream.cursor \in 0 .. MaxEvents /\ stream.cursor < end
      /\ f \in Seq(Frame) /\ MaxEvents \in Nat /\ client.last \in -1 .. MaxEvents
  BY <1>4, Ends
<1>7. client.last <= stream.cursor
  BY <1>1 DEF StreamInv, FramesInv
<1>8. h \in Seq(Frame)
  BY <1>3, <1>5, <1>6
<1>9. TypeOK'
  <2>1. stream' \in [open : BOOLEAN, cursor : 0 .. MaxEvents, frames : Seq(Frame)]
    <3>1. f \o g \in Seq(Frame) /\ end \in 0 .. MaxEvents
      BY <1>3, <1>6, <1>8
    <3> QED
      BY Zenon, <1>1, <1>2, <3>1 DEF TypeOK
  <2> QED
    BY <1>1, <1>2, <2>1 DEF TypeOK
<1>10. WritersInv'
  <2>1. end \in outbox
    BY <1>4
  <2>2. end < nextId /\ \A w \in Writers : writer[w].pc # "idle" => end < writer[w].id
    BY <2>1 DEF StreamInv, WritersInv
  <2> QED
    BY <1>1, <1>3, <2>2 DEF StreamInv, WritersInv
<1>11. /\ DOMAIN h = 1 .. Len(f) + Len(g) /\ DOMAIN f = 1 .. Len(f) /\ Len(f) \in Nat /\ Len(g) \in Nat
       /\ \A k \in 1 .. Len(f) : h[k] = f[k]
       /\ \A k \in 1 .. Len(g) : h[Len(f) + k] = g[k]
  BY SMTT(20), <1>3, <1>5, <1>6
<1> DEFINE New(k) == k - Len(f) \in 1 .. Len(g) /\ h[k] = g[k - Len(f)]
<1>12. ASSUME NEW k \in DOMAIN h
       PROVE  (k \in 1 .. Len(f) /\ h[k] = f[k]) \/ New(k)
  <2>1. k \in 1 .. Len(f) \/ k - Len(f) \in 1 .. Len(g)
    BY <1>11
  <2>2. ASSUME k - Len(f) \in 1 .. Len(g) PROVE h[k] = g[k - Len(f)]
    <3>1. k = Len(f) + (k - Len(f))
      BY <1>11
    <3> QED
      BY <1>11, <2>2, <3>1
  <2> QED
    BY <1>11, <2>1, <2>2
<1>13. ASSUME NEW k \in DOMAIN h, New(k)
       PROVE  /\ h[k].id \in 1 .. MaxEvents /\ h[k].id > stream.cursor /\ h[k].id <= end
              /\ h[k].kind # "ready"
  <2>1. g[k - Len(f)].id \in B /\ g[k - Len(f)].kind # "ready"
    BY <1>5, <1>13
  <2> QED
    BY Zenon, <1>4, <1>13, <2>1
<1>14. ASSUME NEW k \in 1 .. Len(f)
       PROVE  /\ f[k].id \in 0 .. MaxEvents /\ f[k].id <= stream.cursor
              /\ IF f[k].kind = "ready" THEN k = 1 /\ f[k].id >= client.last /\ client.state = "waiting"
                                        ELSE f[k].id > client.last /\ f[k].id >= 1
  <2>1. f[k] \in Frame
    BY <1>6
  <2>2. f[k].id \in 0 .. MaxEvents
    BY <2>1 DEF Frame
  <2> QED
    BY <1>11, <2>2 DEF StreamInv, FramesInv
<1>15. ASSUME NEW j \in DOMAIN h, NEW k \in DOMAIN h, j < k PROVE h[j].id < h[k].id
  <2>1. CASE New(j) /\ New(k)
    <3>1. j - Len(f) < k - Len(f)
      BY <1>11, <1>15
    <3> QED
      BY <1>5, <2>1, <3>1
  <2>2. CASE j \in 1 .. Len(f) /\ h[j] = f[j] /\ New(k)
    BY <1>6, <1>13, <1>14, <2>2, SMTT(20)
  <2>3. CASE j \in 1 .. Len(f) /\ h[j] = f[j] /\ k \in 1 .. Len(f) /\ h[k] = f[k]
    BY <1>11, <1>15, <2>3 DEF StreamInv, FramesInv
  <2>4. CASE New(j) /\ k \in 1 .. Len(f)
    BY <1>11, <1>15, <2>4
  <2> QED
    BY <1>12, <2>1, <2>2, <2>3, <2>4
<1>16. ASSUME NEW k \in DOMAIN h
       PROVE  /\ h[k].id <= end
              /\ IF h[k].kind = "ready" THEN k = 1 /\ h[k].id >= client.last /\ client.state = "waiting"
                                        ELSE h[k].id > client.last /\ h[k].id >= 1
  <2>1. CASE k \in 1 .. Len(f) /\ h[k] = f[k]
    <3>1. h[k].id <= end
      BY <1>6, <1>14, <2>1
    <3> QED
      BY <1>14, <2>1, <3>1
  <2>2. CASE New(k)
    BY <1>6, <1>7, <1>13, <2>2
  <2> QED
    BY <1>12, <2>1, <2>2
<1>17. client.last <= end
  BY <1>6, <1>7
<1>18. FramesInv'
  BY <1>1, <1>3, <1>15, <1>16, <1>17 DEF FramesInv
<1>19. SyncInv'
  <2> SUFFICES ASSUME client.state = "synced", NEW i \in outbox \ hidden, i <= end
               PROVE  i \in client.seen \/ \E k \in DOMAIN h : h[k].kind = "event" /\ h[k].id = i
    BY <1>1, <1>3 DEF StreamInv, SyncInv
  <2>1. CASE i <= stream.cursor
    <3>1. i \in client.seen \/ \E k \in DOMAIN f : f[k].kind = "event" /\ f[k].id = i
      BY <2>1 DEF StreamInv, SyncInv
    <3>2. \A k \in DOMAIN f : k \in DOMAIN h /\ h[k] = f[k]
      BY <1>11
    <3> QED
      BY <3>1, <3>2
  <2>2. CASE ~(i <= stream.cursor)
    <3>1. i \in 1 .. MaxEvents
      BY Ends
    <3>2. i \in B
      BY <1>4, <1>6, <2>2, <3>1
    <3>3. PICK k \in 1 .. Len(g) : g[k].kind = "event" /\ g[k].id = i
      BY <1>5, <3>2
    <3>4. Len(f) + k \in DOMAIN h /\ h[Len(f) + k] = g[k]
      BY <1>11
    <3> QED
      BY <3>3, <3>4
  <2> QED
    BY <2>1, <2>2
<1> QED
  BY <1>9, <1>10, <1>18, <1>19 DEF StreamInv

\* The client takes the first frame: its cursor becomes the frame's id, and all
\* other frames are newer.
LEMMA ReceiveStep ==
  ASSUME StreamAssumption, StreamInv, Receive
  PROVE  StreamInv'
<1> DEFINE f == stream.frames
           x == f[1]
           h == Tail(f)
<1>1. /\ UNCHANGED <<writer, nextId, outbox, hidden>> /\ f # << >> /\ f \in Seq(Frame)
      /\ stream' = [stream EXCEPT !.frames = Tail(@)]
  BY Ends DEF Receive
<1>2. TypeOK
  BY DEF StreamInv
<1>3. stream'.open = stream.open /\ stream'.cursor = stream.cursor /\ stream'.frames = h
  BY <1>1, <1>2 DEF TypeOK
<1>4. Head(f) = x /\ x \in Frame /\ Len(f) \in Nat /\ Len(f) >= 1 /\ DOMAIN f = 1 .. Len(f)
  BY <1>1
<1>5. /\ h \in Seq(Frame) /\ DOMAIN h = 1 .. Len(f) - 1
      /\ \A k \in DOMAIN h : k + 1 \in DOMAIN f /\ h[k] = f[k + 1]
  BY <1>1, <1>4
<1>6. /\ x.id \in 0 .. MaxEvents /\ x.kind \in {"ready", "event", "checkpoint"} /\ 1 \in DOMAIN f
      /\ stream.cursor \in 0 .. MaxEvents /\ client.last \in -1 .. MaxEvents /\ MaxEvents \in Nat
  BY <1>4, Ends DEF Frame
<1> DEFINE state == IF x.kind = "ready" THEN "ready" ELSE client.state
           With(S) == IF x.kind = "event" THEN S \cup {x.id} ELSE S
           seen == With(client.seen)
           received == With(client.received)
<1>7. client' = [client EXCEPT !.last = x.id, !.state = state, !.seen = seen, !.received = received]
  BY <1>4 DEF Receive
<1> HIDE DEF h, x, state, seen, received
<1>8. /\ client'.last = x.id
      /\ client'.state = IF x.kind = "ready" THEN "ready" ELSE client.state
      /\ client'.seen = IF x.kind = "event" THEN client.seen \cup {x.id} ELSE client.seen
      /\ client'.received = IF x.kind = "event" THEN client.received \cup {x.id} ELSE client.received
  <2>1. client'.last = x.id /\ client'.state = state /\ client'.seen = seen /\ client'.received = received
    BY <1>2, <1>7 DEF TypeOK
  <2> QED
    BY <2>1 DEF state, seen, received
<1>9. /\ x.id <= stream.cursor /\ stream.open
      /\ IF x.kind = "ready" THEN x.id >= client.last /\ client.state = "waiting"
                             ELSE x.id > client.last /\ x.id >= 1
  BY <1>1, <1>6 DEF StreamInv, FramesInv, x
<1>10. x.kind = "event" => x.id \in Id
  BY <1>6, <1>9 DEF Id
<1>11. TypeOK'
  <2>1. client' \in [state : {"waiting", "ready", "synced", "refused"}, last : NoCursor .. MaxEvents,
                     seen : SUBSET Id, received : SUBSET Id, drops : 0 .. MaxDisconnects]
    <3>1. state \in {"waiting", "ready", "synced", "refused"} /\ x.id \in NoCursor .. MaxEvents
      BY <1>6, Ends DEF state, NoCursor
    <3>2. seen \in SUBSET Id /\ received \in SUBSET Id
      BY <1>10, Ends DEF seen, received
    <3> QED
      BY Zenon, <1>2, <1>7, <3>1, <3>2 DEF TypeOK
  <2>2. stream' \in [open : BOOLEAN, cursor : 0 .. MaxEvents, frames : Seq(Frame)]
    BY Zenon, <1>1, <1>2, <1>5 DEF TypeOK, h
  <2> QED
    BY <1>1, <1>2, <2>1, <2>2 DEF TypeOK
<1>12. ASSUME NEW k \in DOMAIN h
       PROVE  /\ h[k].id > x.id /\ h[k].id >= 1 /\ h[k].id <= stream.cursor /\ h[k].kind # "ready"
  <2>1. k \in Nat /\ 1 < k + 1 /\ k + 1 \in DOMAIN f /\ h[k] = f[k + 1] /\ f[k + 1] \in Frame
    BY <1>1, <1>4, <1>5
  <2>2. x.id < f[k + 1].id
    BY <1>6, <2>1 DEF StreamInv, FramesInv, x
  <2>3. f[k + 1].id <= stream.cursor /\ f[k + 1].kind # "ready"
    BY <2>1 DEF StreamInv, FramesInv
  <2>4. f[k + 1].id \in 0 .. MaxEvents
    BY <2>1 DEF Frame
  <2> QED
    BY <1>6, <2>1, <2>2, <2>3, <2>4
<1>13. WritersInv'
  <2>1. x.id < nextId
    BY <1>6, <1>9, Ends DEF StreamInv, WritersInv
  <2>2. ASSUME NEW w \in Writers, writer[w].pc # "idle" PROVE x.id < writer[w].id
    <3>1. writer[w].id \in 1 .. nextId - 1 /\ stream.cursor < writer[w].id
      BY <2>2 DEF StreamInv, WritersInv
    <3> QED
      BY <1>6, <1>9, <3>1, Ends
  <2> QED
    BY <1>1, <1>3, <1>8, <2>1, <2>2 DEF StreamInv, WritersInv
<1>14. FramesInv'
  <2>1. ASSUME NEW j \in DOMAIN h, NEW k \in DOMAIN h, j < k PROVE h[j].id < h[k].id
    <3>1. j + 1 \in DOMAIN f /\ k + 1 \in DOMAIN f /\ j + 1 < k + 1
      BY <1>4, <1>5, <2>1
    <3> QED
      BY <1>5, <3>1 DEF StreamInv, FramesInv
  <2> QED
    BY <1>3, <1>8, <1>9, <1>12, <2>1 DEF FramesInv
<1>15. SyncInv'
  <2>1. ASSUME client'.state = "synced", NEW i \in outbox \ hidden, i <= stream.cursor
        PROVE  i \in client'.seen \/ \E k \in DOMAIN h : h[k].kind = "event" /\ h[k].id = i
    <3>1. client.state = "synced" /\ client.seen \subseteq client'.seen
      BY <1>8, <2>1
    <3>2. CASE i \in client.seen
      BY <3>1, <3>2
    <3>3. CASE i \notin client.seen
      <4>1. PICK k \in DOMAIN f : f[k].kind = "event" /\ f[k].id = i
        BY <2>1, <3>1, <3>3 DEF StreamInv, SyncInv
      <4>2. CASE k = 1
        BY <1>8, <4>1, <4>2 DEF x
      <4>3. CASE k # 1
        <5>1. k - 1 \in DOMAIN h /\ (k - 1) + 1 = k
          BY <1>4, <1>5, <4>3
        <5> QED
          BY <1>5, <4>1, <5>1
      <4> QED
        BY <4>2, <4>3
    <3> QED
      BY <3>2, <3>3
  <2>2. ASSUME NEW i \in client'.received PROVE i <= client'.last
    <3>1. i = x.id \/ i \in client.received
      BY <1>8
    <3>2. CASE i = x.id
      BY <1>6, <1>8, <3>2
    <3>3. CASE i \in client.received
      <4>1. i <= client.last /\ i \in 1 .. MaxEvents
        BY <3>3, Ends DEF StreamInv, SyncInv, Id
      <4> QED
        BY <1>6, <1>8, <1>9, <4>1
    <3> QED
      BY <3>1, <3>2, <3>3
  <2> QED
    BY <1>1, <1>3, <2>1, <2>2 DEF SyncInv
<1> QED
  BY <1>11, <1>13, <1>14, <1>15 DEF StreamInv

\* A snapshot holds all that is committed, so all that the cursor has passed.
LEMMA SnapshotStep ==
  ASSUME StreamAssumption, StreamInv, ReconcileSnapshot
  PROVE  StreamInv'
<1>1. /\ UNCHANGED <<writer, nextId, outbox, hidden, stream>> /\ client.state = "ready"
      /\ client' = [client EXCEPT !.state = "synced", !.seen = @ \cup outbox]
  BY DEF ReconcileSnapshot
<1>2. TypeOK'
  BY Zenon, <1>1 DEF StreamInv, TypeOK
<1>3. /\ client'.last = client.last /\ client'.state = "synced" /\ client'.received = client.received
      /\ outbox \subseteq client'.seen
  BY <1>1 DEF StreamInv, TypeOK
<1>4. WritersInv'
  BY <1>1, <1>3 DEF StreamInv, WritersInv
<1>5. FramesInv'
  BY <1>1, <1>3 DEF StreamInv, FramesInv
<1>6. SyncInv'
  BY <1>1, <1>3 DEF StreamInv, SyncInv
<1> QED
  BY <1>2, <1>4, <1>5, <1>6 DEF StreamInv

\* A lost connection takes its frames with it and leaves the client's cursor.
LEMMA DisconnectStep ==
  ASSUME StreamAssumption, StreamInv, Disconnect
  PROVE  StreamInv'
<1>1. /\ UNCHANGED <<writer, nextId, outbox, hidden>> /\ stream' = NoStream /\ client.drops < MaxDisconnects
      /\ client' = [client EXCEPT !.state = "waiting", !.drops = @ + 1]
  BY DEF Disconnect
<1>2. /\ MaxEvents \in Nat /\ MaxDisconnects \in Nat /\ nextId \in 1 .. MaxEvents + 1
      /\ client.drops + 1 \in 0 .. MaxDisconnects
  BY <1>1, Ends
<1>3. TypeOK'
  <2>1. client' \in [state : {"waiting", "ready", "synced", "refused"}, last : NoCursor .. MaxEvents,
                     seen : SUBSET Id, received : SUBSET Id, drops : 0 .. MaxDisconnects]
    BY Zenon, <1>1, <1>2 DEF StreamInv, TypeOK
  <2>2. stream' \in [open : BOOLEAN, cursor : 0 .. MaxEvents, frames : Seq(Frame)]
    BY <1>1, <1>2 DEF NoStream
  <2> QED
    BY <1>1, <2>1, <2>2 DEF StreamInv, TypeOK
<1>4. /\ client'.last = client.last /\ client'.state = "waiting" /\ client'.received = client.received
      /\ stream'.open = FALSE /\ stream'.cursor = 0 /\ stream'.frames = << >>
  BY <1>1 DEF StreamInv, TypeOK, NoStream
<1>5. WritersInv'
  <2>1. \A w \in Writers : writer[w].pc # "idle" => 0 < writer[w].id
    BY <1>2 DEF StreamInv, WritersInv
  <2> QED
    BY <1>1, <1>2, <1>4, <2>1 DEF StreamInv, WritersInv
<1>6. FramesInv'
  BY <1>4 DEF FramesInv
<1>7. SyncInv'
  BY <1>1, <1>4 DEF StreamInv, SyncInv
<1> QED
  BY <1>3, <1>5, <1>6, <1>7 DEF StreamInv

-----------------------------------------------------------------------------
(* The theorem.                                                            *)

\* Every step of a writer, of retention, of the replica or of the browser keeps the
\* invariant.
LEMMA StreamStep ==
  ASSUME StreamAssumption, StreamInv, [Next]_vars
  PROVE  StreamInv'
<1>1. CASE \E w \in Writers : \/ \E hide \in BOOLEAN : InsertEventOutbox(w, hide)
                             \/ LockWebhookDeliveryExpansionWorkspace(w)
                             \/ Rollback(w) \/ Commit(w)
  BY <1>1, WriterStep
<1>2. CASE \E i \in Id : RetainWebhookEvents(i)
  BY <1>2, RetainStep
<1>3. CASE HandleEventStream
  BY <1>3, ConnectStep
<1>4. CASE Poll
  BY <1>4, PollStep
<1>5. CASE Receive
  BY <1>5, ReceiveStep
<1>6. CASE ReconcileSnapshot
  BY <1>6, SnapshotStep
<1>7. CASE Disconnect
  BY <1>7, DisconnectStep
<1>8. CASE UNCHANGED vars
  BY <1>8 DEF vars, StreamInv, TypeOK, WritersInv, FramesInv, SyncInv
<1> QED
  BY <1>1, <1>2, <1>3, <1>4, <1>5, <1>6, <1>7, <1>8 DEF Next

\* What the client has passed it has seen: an event the cursor covers is not in
\* a frame still to come.
LEMMA SyncFromInv ==
  ASSUME StreamAssumption, StreamInv
  PROVE  ClientInSync
<1>1. NoEventMissed
  <2> SUFFICES ASSUME client.state = "synced", NEW i \in outbox \ hidden, i <= client.last
               PROVE  i \in client.seen
    BY DEF NoEventMissed
  <2>1. stream.open /\ client.last <= stream.cursor
    BY DEF StreamInv, FramesInv
  <2>2. /\ i \in 1 .. MaxEvents /\ client.last \in -1 .. MaxEvents /\ stream.cursor \in 0 .. MaxEvents
        /\ stream.frames \in Seq(Frame) /\ MaxEvents \in Nat
    BY Ends
  <2>3. i <= stream.cursor
    BY <2>1, <2>2
  <2>4. ASSUME NEW k \in DOMAIN stream.frames, stream.frames[k].kind = "event", stream.frames[k].id = i
        PROVE  FALSE
    <3>1. i > client.last
      BY <2>4 DEF StreamInv, FramesInv
    <3> QED
      BY <2>2, <3>1
  <2> QED
    BY <2>3, <2>4 DEF StreamInv, SyncInv
<1>2. StreamInOrder
  <2>1. \A j, k \in DOMAIN stream.frames : j < k => stream.frames[j].id < stream.frames[k].id
    BY DEF StreamInv, FramesInv
  <2>2. ASSUME NEW k \in DOMAIN stream.frames, stream.frames[k].kind = "event", NEW i \in client.received
        PROVE  i < stream.frames[k].id
    <3>1. stream.frames[k].id > client.last /\ i <= client.last
      BY <2>2 DEF StreamInv, FramesInv, SyncInv
    <3>2. stream.frames[k] \in Frame /\ i \in 1 .. MaxEvents /\ client.last \in -1 .. MaxEvents
      BY Ends DEF Id
    <3>3. stream.frames[k].id \in 0 .. MaxEvents
      BY <3>2 DEF Frame
    <3> QED
      BY <3>1, <3>2, <3>3, Ends
  <2> QED
    BY <2>1, <2>2 DEF StreamInOrder
<1> QED
  BY <1>1, <1>2 DEF ClientInSync

\* A browser in sync has seen every committed event that its cursor has passed,
\* and what is on its way is in order and newer than all it received: for every
\* interleaving of event transactions, polls, deliveries and reconnections.
THEOREM ClientStaysInSync == ASSUME StreamAssumption PROVE Spec => []ClientInSync
<1>1. Init => StreamInv
  BY InitSync
<1>2. StreamInv /\ [Next]_vars => StreamInv'
  BY StreamStep
<1>3. StreamInv => ClientInSync
  BY SyncFromInv
<1> QED
  BY <1>1, <1>2, <1>3, PTL DEF Spec

-----------------------------------------------------------------------------
(* The webhooks of the outbox *)

CONSTANTS Events, Subscriptions, Dispatchers, BatchSize, MaxSubscriptions, MaxAttempts,
          LeaseTime, RetryTime, None

VARIABLES event, subscription, delivery, dispatcher, posted, accepted

W == INSTANCE WebhookDeliveries

RowType ==
  [status : {"none", "pending", "processing", "delivered", "failed"},
   attempts : 0 .. MaxAttempts, wait : 0 .. RetryTime,
   lease : 0 .. LeaseTime, lock : Dispatchers \cup {None}]

WorkType == [post : SUBSET W!Pairs, ok : SUBSET W!Pairs, failed : SUBSET W!Pairs]

\* The dispatchers that have yet to make a POST of this delivery.
Holders(x) == {d \in Dispatchers : x \in dispatcher[d].post}

\* The POSTs made of a delivery and those that claims still entitle to.
Entitled(x) == posted[x] + Cardinality(Holders(x))

\* A row has its parents, was accepted if it says so, has an attempt left while it
\* waits for one, and has counted an attempt for every POST made or yet to be made.
\* A pair whose event is still to come has no POST behind it.
PairOK(x) ==
  /\ delivery[x].status # "none" => /\ event[x[1]] \in {"recent", "old"}
                                    /\ subscription[x[2]] = "active"
                                    /\ Entitled(x) <= delivery[x].attempts
  /\ delivery[x].status = "delivered" => x \in accepted
  /\ delivery[x].status = "pending" => delivery[x].attempts < MaxAttempts
  /\ Entitled(x) <= MaxAttempts
  /\ event[x[1]] = "none" => posted[x] = 0 /\ Holders(x) = {}

\* What a dispatcher is about to mark delivered was accepted.
OutcomesTrue == \A d \in Dispatchers : dispatcher[d].ok \subseteq accepted

WebhookInv == W!TypeOK /\ OutcomesTrue /\ \A x \in W!Pairs : PairOK(x)

\* The bounds are numbers, and nobody is the absent dispatcher.
LEMMA WebhookBounds ==
  ASSUME W!WebhookAssumption
  PROVE  /\ MaxAttempts \in Nat /\ LeaseTime \in Nat /\ RetryTime \in Nat
         /\ MaxAttempts > 0 /\ IsFiniteSet(Dispatchers)
<1>1. W!IsFiniteSet(Dispatchers) => IsFiniteSet(Dispatchers)
  BY Zenon DEF IsFiniteSet, W!IsFiniteSet
<1> QED
  BY <1>1 DEF W!WebhookAssumption

\* The types by component.
LEMMA TypesOf ==
  W!TypeOK <=>
             /\ event \in [Events -> {"none", "recent", "old", "gone"}]
             /\ subscription \in [Subscriptions -> {"none", "active", "gone"}]
             /\ delivery \in [W!Pairs -> RowType]
             /\ dispatcher \in [Dispatchers -> WorkType]
             /\ posted \in [W!Pairs -> Nat]
             /\ accepted \subseteq W!Pairs
  BY Zenon DEF W!TypeOK, RowType, WorkType

\* A pair is an event and a subscription.
LEMMA PairIs ==
  ASSUME NEW x \in W!Pairs
  PROVE  x[1] \in Events /\ x[2] \in Subscriptions /\ x = <<x[1], x[2]>>
  BY DEF W!Pairs

\* Counting the holders of a delivery makes sense.
LEMMA HoldersCount ==
  ASSUME W!WebhookAssumption, W!TypeOK, NEW x \in W!Pairs
  PROVE  /\ IsFiniteSet(Holders(x)) /\ Cardinality(Holders(x)) \in Nat
         /\ posted[x] \in Nat /\ Entitled(x) \in Nat
<1>1. IsFiniteSet(Holders(x))
  BY WebhookBounds, FS_Subset DEF Holders
<1>2. Cardinality(Holders(x)) \in Nat
  BY <1>1, FS_CardinalityType
<1>3. posted[x] \in Nat
  BY TypesOf
<1> QED
  BY <1>1, <1>2, <1>3 DEF Entitled

-----------------------------------------------------------------------------
(* Steps that change rows and leave the dispatchers alone *)

\* A row follows a step that posts nothing: it goes, or it keeps its attempts and
\* its parents and opens no claim it cannot account for.
LEMMA RowsMove ==
  ASSUME W!WebhookAssumption, WebhookInv, UNCHANGED <<dispatcher, posted, accepted>>,
         W!TypeOK',
         NEW x \in W!Pairs,
         \/ delivery'[x].status = "none"
         \/ /\ delivery'[x].status = delivery[x].status
            /\ delivery'[x].attempts = delivery[x].attempts
            /\ event'[x[1]] \in {"recent", "old"}
            /\ subscription'[x[2]] = "active"
         \/ /\ delivery[x].status = "none" /\ event[x[1]] = "none"
            /\ delivery'[x].status = "pending" /\ delivery'[x].attempts = 0
            /\ event'[x[1]] = "recent" /\ subscription'[x[2]] = "active",
         event'[x[1]] = "none" => event[x[1]] = "none"
  PROVE  PairOK(x)'
<1>1. PairOK(x) /\ MaxAttempts \in Nat /\ MaxAttempts > 0
  BY WebhookBounds DEF WebhookInv
<1>2. Holders(x)' = Holders(x) /\ Entitled(x)' = Entitled(x) /\ posted'[x] = posted[x]
  BY DEF Holders, Entitled
<1>3. Holders(x) = {} /\ posted[x] = 0 => Entitled(x) = 0
  BY FS_EmptySet DEF Entitled
<1> QED
  BY <1>1, <1>2, <1>3 DEF PairOK

\* What a dispatcher is about to mark stays true while nothing it rests on changes.
LEMMA OutcomesStay ==
  ASSUME OutcomesTrue, UNCHANGED <<dispatcher, accepted>>
  PROVE  OutcomesTrue'
  BY DEF OutcomesTrue

\* Writing an event and expanding it to its subscriptions keeps the invariant.
LEMMA EnqueueInv ==
  ASSUME W!WebhookAssumption, WebhookInv, NEW e \in Events, W!EnqueueWebhookEvent(e)
  PROVE  WebhookInv'
<1>1. W!NewDelivery \in RowType /\ W!NewDelivery.status = "pending" /\ W!NewDelivery.attempts = 0
  BY WebhookBounds DEF W!NewDelivery, W!NoDelivery, RowType
<1>2. W!TypeOK'
  <2>1. delivery' \in [W!Pairs -> RowType]
    BY Zenon, <1>1, TypesOf DEF W!EnqueueWebhookEvent, WebhookInv
  <2>2. event' \in [Events -> {"none", "recent", "old", "gone"}]
    BY TypesOf DEF W!EnqueueWebhookEvent, WebhookInv
  <2> QED
    BY Zenon, <2>1, <2>2, TypesOf DEF W!EnqueueWebhookEvent, WebhookInv, W!TypeOK, RowType
<1>3. ASSUME NEW x \in W!Pairs PROVE PairOK(x)'
  <2>1. x[1] \in Events /\ x[2] \in Subscriptions /\ PairOK(x) /\ event[e] = "none"
    BY PairIs, <1>3 DEF WebhookInv, W!EnqueueWebhookEvent
  <2>2. event'[x[1]] = IF x[1] = e THEN "recent" ELSE event[x[1]]
    BY <2>1, TypesOf DEF W!EnqueueWebhookEvent, WebhookInv
  <2>3. delivery'[x] = IF x \in W!Expansion(e) THEN W!NewDelivery ELSE delivery[x]
    BY <1>3 DEF W!EnqueueWebhookEvent
  <2>4. x \in W!Expansion(e) => x[1] = e /\ subscription[x[2]] = "active"
    BY PairIs, <1>3 DEF W!Expansion, W!Subscribed
  <2>5. x[1] = e => delivery[x].status = "none"
    BY <2>1 DEF PairOK
  <2> QED
    BY <1>1, <1>2, <1>3, <2>1, <2>2, <2>3, <2>4, <2>5, RowsMove DEF W!EnqueueWebhookEvent, PairOK
<1> QED
  BY <1>2, <1>3, OutcomesStay DEF WebhookInv, W!EnqueueWebhookEvent

\* Deleting a subscription, which cascades to its deliveries, keeps the invariant.
LEMMA DeleteInv ==
  ASSUME W!WebhookAssumption, WebhookInv, NEW s \in Subscriptions, W!DeleteWebhookSubscription(s)
  PROVE  WebhookInv'
<1>1. W!NoDelivery \in RowType /\ W!NoDelivery.status = "none"
  BY WebhookBounds DEF W!NoDelivery, RowType
<1>2. W!TypeOK'
  <2>1. delivery' \in [W!Pairs -> RowType]
    BY Zenon, <1>1, TypesOf DEF W!DeleteWebhookSubscription, WebhookInv
  <2>2. subscription' \in [Subscriptions -> {"none", "active", "gone"}]
    BY SMTT(20), TypesOf DEF W!DeleteWebhookSubscription, WebhookInv
  <2> QED
    BY Zenon, <2>1, <2>2, TypesOf DEF W!DeleteWebhookSubscription, WebhookInv, W!TypeOK, RowType
<1>3. ASSUME NEW x \in W!Pairs PROVE PairOK(x)'
  <2>1. x[1] \in Events /\ x[2] \in Subscriptions /\ PairOK(x) /\ event' = event
    BY PairIs, <1>3 DEF WebhookInv, W!DeleteWebhookSubscription
  <2>2. x[2] # s => subscription'[x[2]] = subscription[x[2]]
    BY <2>1, TypesOf DEF W!DeleteWebhookSubscription, WebhookInv
  <2>3. delivery'[x] = IF x \in W!Removed(s) THEN W!NoDelivery ELSE delivery[x]
    BY <1>3 DEF W!DeleteWebhookSubscription
  <2>4. x[2] = s => x \in W!Removed(s)
    BY PairIs, <1>3 DEF W!Removed
  <2> QED
    BY <1>1, <1>2, <1>3, <2>1, <2>2, <2>3, <2>4, RowsMove DEF W!DeleteWebhookSubscription, PairOK
<1> QED
  BY <1>2, <1>3, OutcomesStay DEF WebhookInv, W!DeleteWebhookSubscription

\* Retention, which removes old events and cascades to their deliveries, keeps the invariant.
LEMMA RetainInv ==
  ASSUME W!WebhookAssumption, WebhookInv, W!RetainWebhookEvents
  PROVE  WebhookInv'
<1>1. W!NoDelivery \in RowType /\ W!NoDelivery.status = "none"
  BY WebhookBounds DEF W!NoDelivery, RowType
<1>2. W!TypeOK'
  <2>1. delivery' \in [W!Pairs -> RowType]
    BY Zenon, <1>1, TypesOf DEF W!RetainWebhookEvents, WebhookInv
  <2>2. event' \in [Events -> {"none", "recent", "old", "gone"}]
    BY SMTT(20), TypesOf DEF W!RetainWebhookEvents, WebhookInv
  <2> QED
    BY Zenon, <2>1, <2>2, TypesOf DEF W!RetainWebhookEvents, WebhookInv, W!TypeOK, RowType
<1>3. ASSUME NEW x \in W!Pairs PROVE PairOK(x)'
  <2>1. x[1] \in Events /\ x[2] \in Subscriptions /\ PairOK(x) /\ subscription' = subscription
    BY PairIs, <1>3 DEF WebhookInv, W!RetainWebhookEvents
  <2>2. event'[x[1]] = IF event[x[1]] = "old" THEN "gone" ELSE event[x[1]]
    BY <2>1 DEF W!RetainWebhookEvents
  <2>3. delivery'[x] = IF x \in W!Retired THEN W!NoDelivery ELSE delivery[x]
    BY <1>3 DEF W!RetainWebhookEvents
  <2>4. event[x[1]] = "old" => x \in W!Retired
    BY PairIs, <1>3 DEF W!Retired
  <2> QED
    BY <1>1, <1>2, <1>3, <2>1, <2>2, <2>3, <2>4, RowsMove DEF W!RetainWebhookEvents, PairOK
<1> QED
  BY <1>2, <1>3, OutcomesStay DEF WebhookInv, W!RetainWebhookEvents

\* Subscribing, ageing and time change no row's attempts or status.
LEMMA QuietInv ==
  ASSUME W!WebhookAssumption, WebhookInv,
         \/ \E s \in Subscriptions : W!CreateWebhookSubscription(s)
         \/ \E e \in Events : W!Age(e)
         \/ W!Tick
  PROVE  WebhookInv'
<1>1. CASE W!Tick
  <2>1. ASSUME NEW x \in W!Pairs
        PROVE  /\ delivery'[x] \in RowType /\ delivery'[x].status = delivery[x].status
               /\ delivery'[x].attempts = delivery[x].attempts
    <3>1. delivery[x] \in RowType /\ RetryTime \in Nat /\ LeaseTime \in Nat
      BY WebhookBounds, TypesOf, <2>1 DEF WebhookInv
    <3>2. delivery'[x] = [delivery[x] EXCEPT !.wait = W!Less(@), !.lease = W!Less(@)]
      BY Zenon, <1>1, <2>1 DEF W!Tick
    <3>3. W!Less(delivery[x].wait) \in 0 .. RetryTime /\ W!Less(delivery[x].lease) \in 0 .. LeaseTime
      BY <3>1 DEF RowType, W!Less
    <3> QED
      BY Zenon, <3>1, <3>2, <3>3 DEF RowType
  <2>2. delivery' \in [W!Pairs -> RowType]
    BY Zenon, <1>1, <2>1 DEF W!Tick
  <2>3. W!TypeOK'
    BY Zenon, <1>1, <2>2, TypesOf DEF W!Tick, WebhookInv, W!TypeOK, RowType
  <2>4. ASSUME NEW x \in W!Pairs PROVE PairOK(x)'
    <3>1. PairOK(x) /\ event' = event /\ subscription' = subscription
      BY Zenon, <1>1, <2>4 DEF WebhookInv, W!Tick
    <3> QED
      BY Zenon, <1>1, <2>1, <2>3, <2>4, <3>1, RowsMove DEF W!Tick, PairOK
  <2> QED
    BY Zenon, <1>1, <2>3, <2>4, OutcomesStay DEF WebhookInv, W!Tick
<1>2. ASSUME NEW s \in Subscriptions, W!CreateWebhookSubscription(s) PROVE WebhookInv'
  <2>1. subscription' \in [Subscriptions -> {"none", "active", "gone"}]
    BY <1>2, TypesOf DEF W!CreateWebhookSubscription, WebhookInv
  <2>2. W!TypeOK'
    BY Zenon, <1>2, <2>1 DEF W!CreateWebhookSubscription, WebhookInv, W!TypeOK
  <2>3. ASSUME NEW x \in W!Pairs PROVE PairOK(x)'
    <3>1. PairOK(x) /\ x[2] \in Subscriptions /\ event' = event /\ delivery' = delivery
      BY <1>2, <2>3, PairIs DEF WebhookInv, W!CreateWebhookSubscription
    <3>2. subscription[x[2]] = "active" => subscription'[x[2]] = "active"
      BY <1>2, <3>1, TypesOf DEF W!CreateWebhookSubscription, WebhookInv
    <3> QED
      BY <1>2, <2>2, <2>3, <3>1, <3>2, RowsMove DEF W!CreateWebhookSubscription, PairOK
  <2> QED
    BY <1>2, <2>2, <2>3, OutcomesStay DEF WebhookInv, W!CreateWebhookSubscription
<1>3. ASSUME NEW e \in Events, W!Age(e) PROVE WebhookInv'
  <2>1. event' \in [Events -> {"none", "recent", "old", "gone"}]
    BY <1>3, TypesOf DEF W!Age, WebhookInv
  <2>2. W!TypeOK'
    BY Zenon, <1>3, <2>1 DEF W!Age, WebhookInv, W!TypeOK
  <2>3. ASSUME NEW x \in W!Pairs PROVE PairOK(x)'
    <3>1. PairOK(x) /\ x[1] \in Events /\ subscription' = subscription /\ delivery' = delivery
      BY <1>3, <2>3, PairIs DEF WebhookInv, W!Age
    <3>2. event'[x[1]] = IF x[1] = e THEN "old" ELSE event[x[1]]
      BY <1>3, <3>1, TypesOf DEF W!Age, WebhookInv
    <3>3. event[e] = "recent"
      BY <1>3 DEF W!Age
    <3> QED
      BY <1>3, <2>2, <2>3, <3>1, <3>2, <3>3, RowsMove DEF W!Age, PairOK
  <2> QED
    BY <1>3, <2>2, <2>3, OutcomesStay DEF WebhookInv, W!Age
<1> QED
  BY <1>1, <1>2, <1>3

-----------------------------------------------------------------------------
(* Steps of a dispatcher *)

\* A dispatcher with no work holds nothing.
LEMMA Idle ==
  W!NoWork \in WorkType /\ W!NoWork.post = {} /\ W!NoWork.ok = {} /\ W!NoWork.failed = {}
  BY DEF W!NoWork, WorkType

\* A due delivery is open and has an attempt left.
LEMMA DueIs ==
  ASSUME W!WebhookAssumption, WebhookInv, NEW x \in W!Pairs, W!Due(x)
  PROVE  delivery[x].status \in {"pending", "processing"} /\ delivery[x].attempts < MaxAttempts
<1>1. PairOK(x) /\ delivery[x].attempts \in Nat /\ MaxAttempts \in Nat
  BY WebhookBounds, TypesOf DEF WebhookInv, RowType
<1> QED
  BY <1>1 DEF PairOK, W!Due, W!Expired, W!Spent

\* The row of a claimed delivery, and of one the claim did not take.
LEMMA ClaimRows ==
  ASSUME W!WebhookAssumption, WebhookInv, NEW d \in Dispatchers,
         NEW batch \in SUBSET {x \in W!Pairs : W!Due(x)}, W!ClaimWebhookDeliveries(d, batch),
         NEW x \in W!Pairs
  PROVE  /\ delivery'[x] \in RowType
         /\ x \in batch => /\ delivery'[x].status = "processing"
                           /\ delivery'[x].attempts = delivery[x].attempts + 1
                           /\ delivery[x].attempts < MaxAttempts
                           /\ delivery[x].status \in {"pending", "processing"}
         /\ x \notin batch => /\ delivery'[x].attempts = delivery[x].attempts
                              /\ \/ delivery'[x].status = delivery[x].status
                                 \/ /\ delivery[x].status = "processing"
                                    /\ delivery'[x].status = "failed"
<1>1. delivery[x] \in RowType /\ MaxAttempts \in Nat /\ LeaseTime \in Nat
  BY WebhookBounds, TypesOf DEF WebhookInv
<1>2. delivery'[x] =
         IF x \in batch
         THEN [delivery[x] EXCEPT !.status = "processing", !.attempts = @ + 1,
                                  !.lease = LeaseTime, !.lock = d]
         ELSE IF W!Expired(x) /\ W!Spent(x)
         THEN [delivery[x] EXCEPT !.status = "failed", !.lease = 0, !.lock = None]
         ELSE delivery[x]
  BY Zenon DEF W!ClaimWebhookDeliveries
<1>3. CASE x \in batch
  <2>1. delivery[x].attempts < MaxAttempts /\ delivery[x].status \in {"pending", "processing"}
    BY <1>3, DueIs
  <2>2. delivery'[x] = [delivery[x] EXCEPT !.status = "processing",
                                           !.attempts = delivery[x].attempts + 1,
                                           !.lease = LeaseTime, !.lock = d]
    BY <1>2, <1>3
  <2>3. delivery[x].attempts + 1 \in 0 .. MaxAttempts /\ LeaseTime \in 0 .. LeaseTime
    BY <1>1, <2>1 DEF RowType
  <2>4. delivery'[x] \in RowType
    BY Zenon, <1>1, <2>2, <2>3 DEF RowType
  <2>5. delivery'[x].status = "processing" /\ delivery'[x].attempts = delivery[x].attempts + 1
    BY <1>1, <2>2 DEF RowType
  <2> QED
    BY Zenon, <1>3, <2>1, <2>4, <2>5
<1>4. CASE x \notin batch /\ W!Expired(x) /\ W!Spent(x)
  BY Zenon, <1>1, <1>2, <1>4 DEF RowType, W!Expired
<1>5. CASE x \notin batch /\ ~(W!Expired(x) /\ W!Spent(x))
  BY <1>1, <1>2, <1>5
<1> QED
  BY <1>3, <1>4, <1>5

\* A claim counts an attempt for each delivery it takes, and its dispatcher had none.
LEMMA ClaimInv ==
  ASSUME W!WebhookAssumption, WebhookInv, NEW d \in Dispatchers, W!Claim(d)
  PROVE  WebhookInv'
<1>1. PICK batch \in SUBSET {x \in W!Pairs : W!Due(x)} : W!ClaimWebhookDeliveries(d, batch)
  BY DEF W!Claim
<1>2. /\ UNCHANGED <<event, subscription, posted, accepted>>
      /\ dispatcher[d] = W!NoWork /\ dispatcher \in [Dispatchers -> WorkType]
      /\ dispatcher' = [dispatcher EXCEPT ![d].post = batch]
      /\ DOMAIN delivery' = W!Pairs
      /\ delivery' = [x \in W!Pairs |-> delivery'[x]]
      /\ batch \in SUBSET W!Pairs
  BY Zenon, <1>1, TypesOf DEF W!ClaimWebhookDeliveries, WebhookInv
<1>3. \A c \in Dispatchers :
         /\ c # d => dispatcher'[c] = dispatcher[c]
         /\ c = d => dispatcher'[c].post = batch /\ dispatcher'[c].ok = {}
         /\ dispatcher'[c] \in WorkType
  BY <1>2, Idle DEF WorkType
<1>4. W!TypeOK'
  <2>1. delivery' \in [W!Pairs -> RowType]
    BY <1>1, <1>2, ClaimRows
  <2>2. dispatcher' \in [Dispatchers -> WorkType]
    BY <1>2, <1>3
  <2> QED
    BY Zenon, <1>2, <2>1, <2>2, TypesOf DEF WebhookInv, W!TypeOK, RowType, WorkType
<1>5. OutcomesTrue'
  BY <1>2, <1>3 DEF OutcomesTrue, WebhookInv
<1>6. ASSUME NEW x \in W!Pairs PROVE PairOK(x)'
  <2>1. /\ PairOK(x) /\ IsFiniteSet(Holders(x)) /\ Cardinality(Holders(x)) \in Nat
        /\ posted[x] \in Nat /\ MaxAttempts \in Nat /\ delivery[x].attempts \in Nat
    BY <1>6, WebhookBounds, HoldersCount, TypesOf DEF WebhookInv, RowType
  <2>2. d \notin Holders(x)
    BY <1>2, Idle DEF Holders
  <2>3. CASE x \in batch
    <3>1. Holders(x)' = Holders(x) \cup {d}
      BY <1>2, <1>3, <2>3 DEF Holders
    <3>2. Cardinality(Holders(x)') = Cardinality(Holders(x)) + 1
      BY Zenon, <2>1, <2>2, <3>1, FS_AddElement
    <3>3. Entitled(x)' = Entitled(x) + 1 /\ Entitled(x) \in Nat
      BY <1>2, <2>1, <3>2 DEF Entitled
    <3>4. /\ delivery'[x].status = "processing" /\ delivery[x].status # "none"
          /\ delivery'[x].attempts = delivery[x].attempts + 1
          /\ delivery[x].attempts < MaxAttempts
      BY <1>1, <1>6, <2>3, ClaimRows
    <3> QED
      BY <1>2, <2>1, <3>3, <3>4 DEF PairOK
  <2>4. CASE x \notin batch
    <3>1. Holders(x)' = Holders(x)
      BY <1>2, <1>3, <2>2, <2>4 DEF Holders
    <3>2. Entitled(x)' = Entitled(x)
      BY <1>2, <3>1 DEF Entitled
    <3>3. /\ delivery'[x].attempts = delivery[x].attempts
          /\ \/ delivery'[x].status = delivery[x].status
             \/ delivery[x].status = "processing" /\ delivery'[x].status = "failed"
      BY <1>1, <1>6, <2>4, ClaimRows
    <3> QED
      BY <1>2, <2>1, <3>1, <3>2, <3>3 DEF PairOK
  <2> QED
    BY <2>3, <2>4
<1> QED
  BY <1>4, <1>5, <1>6 DEF WebhookInv

\* A POST turns an entitlement into a POST made.
LEMMA DeliverInv ==
  ASSUME W!WebhookAssumption, WebhookInv, NEW d \in Dispatchers, NEW y \in W!Pairs, W!DeliverWebhook(d, y)
  PROVE  WebhookInv'
<1>1. /\ UNCHANGED <<event, subscription, delivery>>
      /\ y \in dispatcher[d].post /\ dispatcher \in [Dispatchers -> WorkType]
      /\ posted \in [W!Pairs -> Nat] /\ posted' = [posted EXCEPT ![y] = @ + 1]
      /\ accepted \subseteq W!Pairs /\ (accepted' = accepted \/ accepted' = accepted \cup {y})
  BY TypesOf DEF W!DeliverWebhook, WebhookInv
<1>2. \A c \in Dispatchers :
         /\ c # d => dispatcher'[c] = dispatcher[c]
         /\ c = d => dispatcher'[c].post = dispatcher[c].post \ {y}
         /\ dispatcher'[c].ok \subseteq accepted'
         /\ dispatcher'[c] \in WorkType
  <2>1. \A c \in Dispatchers : dispatcher[c].ok \subseteq accepted
    BY DEF WebhookInv, OutcomesTrue
  <2>2. CASE /\ accepted' = accepted \cup {y}
             /\ dispatcher' = [dispatcher EXCEPT ![d].post = @ \ {y}, ![d].ok = @ \cup {y}]
    BY Zenon, <1>1, <2>1, <2>2 DEF WorkType
  <2>3. CASE dispatcher' = [dispatcher EXCEPT ![d].post = @ \ {y}, ![d].failed = @ \cup {y}]
    BY Zenon, <1>1, <2>1, <2>3 DEF WorkType
  <2> QED
    BY SMTT(20), <2>2, <2>3 DEF W!DeliverWebhook
<1>3. W!TypeOK'
  <2>1. dispatcher' \in [Dispatchers -> WorkType]
    <3>1. dispatcher' = [c \in Dispatchers |-> dispatcher'[c]]
      BY <1>1 DEF W!DeliverWebhook
    <3> QED
      BY <1>2, <3>1
  <2>2. posted' \in [W!Pairs -> Nat] /\ accepted' \subseteq W!Pairs
    BY <1>1
  <2> QED
    BY Zenon, <1>1, <2>1, <2>2, TypesOf DEF WebhookInv, W!TypeOK, WorkType
<1>4. OutcomesTrue'
  BY SMTT(20), <1>2 DEF OutcomesTrue
<1>5. ASSUME NEW x \in W!Pairs PROVE PairOK(x)'
  <2>1. /\ PairOK(x) /\ IsFiniteSet(Holders(x)) /\ Cardinality(Holders(x)) \in Nat
        /\ posted[x] \in Nat
    BY <1>5, HoldersCount DEF WebhookInv
  <2>2. x # y => Holders(x)' = Holders(x) /\ posted'[x] = posted[x]
    BY <1>1, <1>2, <1>5 DEF Holders
  <2>3. x = y => d \in Holders(x) /\ Holders(x)' = Holders(x) \ {d} /\ posted'[x] = posted[x] + 1
    BY SMTT(20), <1>1, <1>2, <1>5 DEF Holders
  <2>4. x = y => Cardinality(Holders(x)') = Cardinality(Holders(x)) - 1
    BY <2>1, <2>3, FS_RemoveElement
  <2>5. Entitled(x)' = Entitled(x)
    BY SMTT(20), <2>1, <2>2, <2>3, <2>4 DEF Entitled
  <2>6. x = y => event[x[1]] # "none"
    BY <2>1, <2>3 DEF PairOK
  <2> QED
    BY <1>1, <2>1, <2>2, <2>5, <2>6 DEF PairOK
<1> QED
  BY <1>3, <1>4, <1>5 DEF WebhookInv

\* A row that gives up its claim is a row, with the attempts it had.
Released(r, status, wait) ==
  [status |-> status, attempts |-> r.attempts, wait |-> wait, lease |-> 0, lock |-> None]

\* A row given back under a lease has the status asked for and the attempts it had.
LEMMA RowReleased ==
  ASSUME W!WebhookAssumption, NEW r \in RowType, NEW wait \in 0 .. RetryTime,
         NEW status \in {"pending", "delivered", "failed"}
  PROVE  /\ Released(r, status, wait) \in RowType
         /\ Released(r, status, wait).status = status
         /\ Released(r, status, wait).attempts = r.attempts
<1>1. 0 \in 0 .. LeaseTime /\ r.attempts \in 0 .. MaxAttempts
  BY WebhookBounds DEF RowType
<1> QED
  BY <1>1 DEF RowType, Released

\* The row of a delivery whose outcome is marked: the mark is void unless the claim
\* still stands.
LEMMA MarkRows ==
  ASSUME W!WebhookAssumption, WebhookInv, NEW d \in Dispatchers, NEW y \in W!Pairs,
         W!MarkWebhookDeliveryDelivered(d, y) \/ W!MarkWebhookDeliveryFailed(d, y),
         NEW x \in W!Pairs
  PROVE  /\ delivery'[x] \in RowType
         /\ delivery'[x].attempts = delivery[x].attempts
         /\ \/ delivery'[x].status = delivery[x].status
            \/ /\ delivery[x].status = "processing"
               /\ delivery'[x].status = "delivered" => x \in accepted
               /\ delivery'[x].status = "pending" => delivery[x].attempts < MaxAttempts
               /\ delivery'[x].status # "none"
<1>1. delivery \in [W!Pairs -> RowType]
  BY TypesOf DEF WebhookInv
<1>2. delivery[x] \in RowType /\ MaxAttempts \in Nat /\ RetryTime \in Nat /\ LeaseTime \in Nat
  BY WebhookBounds, <1>1
<1>3. CASE x # y \/ ~W!Owns(d, y)
  <2>1. delivery'[x] = delivery[x]
    BY <1>1, <1>3 DEF W!MarkWebhookDeliveryDelivered, W!MarkWebhookDeliveryFailed
  <2> QED
    BY <1>2, <2>1
<1>4. CASE x = y /\ W!Owns(d, y) /\ W!MarkWebhookDeliveryDelivered(d, y)
  <2>1. x \in accepted /\ delivery[x].status = "processing"
    BY <1>4 DEF WebhookInv, OutcomesTrue, W!MarkWebhookDeliveryDelivered, W!Owns
  <2>2. delivery'[x] = [delivery[x] EXCEPT !.status = "delivered", !.lease = 0, !.lock = None]
    BY <1>1, <1>4 DEF W!MarkWebhookDeliveryDelivered
  <2>3. /\ delivery[x].wait \in 0 .. RetryTime
        /\ delivery'[x] = Released(delivery[x], "delivered", delivery[x].wait)
    BY Zenon, <1>2, <2>2 DEF RowType, Released
  <2>4. /\ delivery'[x] \in RowType /\ delivery'[x].status = "delivered"
        /\ delivery'[x].attempts = delivery[x].attempts
    <3> DEFINE wait == delivery[x].wait
               row == Released(delivery[x], "delivered", wait)
    <3>1. delivery[x] \in RowType /\ wait \in 0 .. RetryTime
      BY Zenon, <1>2, <2>3
    <3>2. "delivered" \in {"pending", "delivered", "failed"}
      OBVIOUS
    <3>3. row \in RowType /\ row.status = "delivered" /\ row.attempts = delivery[x].attempts
      <4> HIDE DEF wait
      <4> QED
        BY Zenon, <3>1, <3>2, RowReleased
    <3> QED
      BY Zenon, <2>3, <3>3
  <2> QED
    BY <2>1, <2>4
<1>5. CASE x = y /\ W!Owns(d, y) /\ W!MarkWebhookDeliveryFailed(d, y)
  <2>1. delivery[x].status = "processing"
    BY <1>5 DEF W!Owns
  <2>2. delivery'[x] = [delivery[x] EXCEPT !.status = IF W!Spent(x) THEN "failed" ELSE "pending",
                                           !.wait = IF W!Spent(x) THEN 0 ELSE RetryTime,
                                           !.lease = 0, !.lock = None]
    BY <1>1, <1>5 DEF W!MarkWebhookDeliveryFailed
  <2>3. \/ W!Spent(x) /\ delivery'[x] = Released(delivery[x], "failed", 0)
        \/ ~W!Spent(x) /\ delivery'[x] = Released(delivery[x], "pending", RetryTime)
    BY Zenon, <1>2, <2>2 DEF RowType, Released
  <2>4. 0 \in 0 .. RetryTime /\ RetryTime \in 0 .. RetryTime
    BY <1>2
  <2>5. /\ delivery'[x] \in RowType /\ delivery'[x].attempts = delivery[x].attempts
        /\ delivery'[x].status = IF W!Spent(x) THEN "failed" ELSE "pending"
    <3>1. "failed" \in {"pending", "delivered", "failed"} /\ "pending" \in {"pending", "delivered", "failed"}
      OBVIOUS
    <3>2. CASE W!Spent(x)
      <4> DEFINE row == Released(delivery[x], "failed", 0)
      <4>1. row \in RowType /\ row.status = "failed" /\ row.attempts = delivery[x].attempts
        BY Zenon, <1>2, <2>4, <3>1, RowReleased
      <4> QED
        BY Zenon, <2>3, <3>2, <4>1
    <3>3. CASE ~W!Spent(x)
      <4> DEFINE row == Released(delivery[x], "pending", RetryTime)
      <4>1. row \in RowType /\ row.status = "pending" /\ row.attempts = delivery[x].attempts
        BY Zenon, <1>2, <2>4, <3>1, RowReleased
      <4> QED
        BY Zenon, <2>3, <3>3, <4>1
    <3> QED
      BY Zenon, <3>2, <3>3
  <2>6. ~W!Spent(x) => delivery[x].attempts < MaxAttempts
    BY <1>2 DEF RowType, W!Spent
  <2> QED
    BY <2>1, <2>5, <2>6
<1> QED
  BY Zenon, <1>3, <1>4, <1>5

\* Work is put aside: a mark is written or a dispatcher stops.  Nobody becomes
\* entitled to a POST.
LEMMA WorkShrinks ==
  ASSUME W!WebhookAssumption, WebhookInv, UNCHANGED <<event, subscription, posted, accepted>>,
         delivery' \in [W!Pairs -> RowType],
         \A x \in W!Pairs :
            /\ delivery'[x].attempts = delivery[x].attempts
            /\ \/ delivery'[x].status = delivery[x].status
               \/ /\ delivery[x].status = "processing"
                  /\ delivery'[x].status = "delivered" => x \in accepted
                  /\ delivery'[x].status = "pending" => delivery[x].attempts < MaxAttempts
                  /\ delivery'[x].status # "none",
         dispatcher' \in [Dispatchers -> WorkType],
         \A c \in Dispatchers : /\ dispatcher'[c].post \subseteq dispatcher[c].post
                                /\ dispatcher'[c].ok \subseteq dispatcher[c].ok
  PROVE  WebhookInv'
<1>1. W!TypeOK'
  BY Zenon, TypesOf DEF WebhookInv, W!TypeOK, RowType, WorkType
<1>2. OutcomesTrue'
  BY Zenon DEF WebhookInv, OutcomesTrue
<1>3. ASSUME NEW x \in W!Pairs PROVE PairOK(x)'
  <2>1. /\ PairOK(x) /\ IsFiniteSet(Holders(x)) /\ Cardinality(Holders(x)) \in Nat
        /\ posted[x] \in Nat /\ delivery[x].attempts \in Nat /\ MaxAttempts \in Nat
    BY <1>3, WebhookBounds, HoldersCount, TypesOf DEF WebhookInv, RowType
  <2>2. Holders(x)' \subseteq Holders(x)
    BY SMTT(20) DEF Holders
  <2>3. /\ Cardinality(Holders(x)') \in Nat
        /\ Cardinality(Holders(x)') <= Cardinality(Holders(x))
    BY <2>1, <2>2, FS_Subset, FS_CardinalityType
  <2>4. Entitled(x)' <= Entitled(x) /\ Entitled(x) \in Nat /\ Entitled(x)' \in Nat
    BY SMTT(20), <2>1, <2>3 DEF Entitled
  <2>5. Holders(x) = {} => Holders(x)' = {}
    BY <2>2
  <2> QED
    BY SMTT(20), <1>3, <2>1, <2>4, <2>5 DEF PairOK
<1> QED
  BY <1>1, <1>2, <1>3 DEF WebhookInv

\* Marking a delivery delivered or failed, or finding the lease lost, keeps the invariant.
LEMMA MarkInv ==
  ASSUME W!WebhookAssumption, WebhookInv, NEW d \in Dispatchers, NEW y \in W!Pairs,
         W!MarkWebhookDeliveryDelivered(d, y) \/ W!MarkWebhookDeliveryFailed(d, y)
  PROVE  WebhookInv'
<1>1. UNCHANGED <<event, subscription, posted, accepted>>
  BY DEF W!MarkWebhookDeliveryDelivered, W!MarkWebhookDeliveryFailed
<1>2. delivery' \in [W!Pairs -> RowType]
  <2>1. delivery' = [x \in W!Pairs |-> delivery'[x]]
    BY TypesOf DEF WebhookInv, W!MarkWebhookDeliveryDelivered, W!MarkWebhookDeliveryFailed
  <2> QED
    BY <2>1, MarkRows
<1>3. dispatcher \in [Dispatchers -> WorkType]
  BY TypesOf DEF WebhookInv
<1>4. dispatcher' \in [Dispatchers -> WorkType]
  BY <1>3 DEF W!MarkWebhookDeliveryDelivered, W!MarkWebhookDeliveryFailed, WorkType
<1>5. \A c \in Dispatchers : /\ dispatcher'[c].post \subseteq dispatcher[c].post
                             /\ dispatcher'[c].ok \subseteq dispatcher[c].ok
  BY <1>3 DEF W!MarkWebhookDeliveryDelivered, W!MarkWebhookDeliveryFailed, WorkType
<1> QED
  BY <1>1, <1>2, <1>4, <1>5, MarkRows, WorkShrinks

\* A dispatcher that dies forgets what it held and keeps the invariant.
LEMMA CrashInv ==
  ASSUME W!WebhookAssumption, WebhookInv, NEW d \in Dispatchers, W!Crash(d)
  PROVE  WebhookInv'
<1>1. UNCHANGED <<event, subscription, delivery, posted, accepted>>
  BY DEF W!Crash
<1>2. delivery \in [W!Pairs -> RowType] /\ dispatcher \in [Dispatchers -> WorkType]
  BY TypesOf DEF WebhookInv
<1>3. dispatcher' \in [Dispatchers -> WorkType]
  BY <1>2, Idle DEF W!Crash
<1>4. \A c \in Dispatchers : /\ dispatcher'[c].post \subseteq dispatcher[c].post
                             /\ dispatcher'[c].ok \subseteq dispatcher[c].ok
  BY <1>2, Idle DEF W!Crash
<1> QED
  BY <1>1, <1>2, <1>3, <1>4, WorkShrinks

-----------------------------------------------------------------------------
(* The theorems *)

\* The invariant holds before the first event.
LEMMA WebhookInit ==
  ASSUME W!WebhookAssumption, W!Init
  PROVE  WebhookInv
<1>1. W!TypeOK
  <2>1. W!NoDelivery \in RowType
    BY WebhookBounds DEF W!NoDelivery, RowType
  <2> QED
    BY <2>1, Idle, TypesOf DEF W!Init
<1>2. OutcomesTrue
  BY Idle DEF W!Init, OutcomesTrue
<1>3. ASSUME NEW x \in W!Pairs PROVE PairOK(x)
  <2>1. delivery[x].status = "none" /\ posted[x] = 0 /\ x[1] \in Events
    BY <1>3, PairIs DEF W!Init, W!NoDelivery
  <2>2. Holders(x) = {}
    BY Idle DEF W!Init, Holders
  <2>3. Entitled(x) = 0 /\ MaxAttempts \in Nat
    BY <2>1, <2>2, WebhookBounds, FS_EmptySet DEF Entitled
  <2> QED
    BY <2>1, <2>2, <2>3 DEF PairOK
<1> QED
  BY <1>1, <1>2, <1>3 DEF WebhookInv

\* Every step keeps the invariant.
LEMMA WebhookStep ==
  ASSUME W!WebhookAssumption, WebhookInv, [W!Next]_(W!vars)
  PROVE  WebhookInv'
<1>1. CASE UNCHANGED W!vars
  <2>1. delivery \in [W!Pairs -> RowType] /\ dispatcher \in [Dispatchers -> WorkType]
    BY TypesOf DEF WebhookInv
  <2>2. UNCHANGED <<event, subscription, delivery, dispatcher, posted, accepted>>
    BY <1>1 DEF W!vars
  <2> QED
    BY <2>1, <2>2, WorkShrinks
<1>2. ASSUME NEW e \in Events, W!EnqueueWebhookEvent(e) \/ W!Age(e) PROVE WebhookInv'
  BY <1>2, EnqueueInv, QuietInv
<1>3. ASSUME NEW s \in Subscriptions, W!CreateWebhookSubscription(s) \/ W!DeleteWebhookSubscription(s)
      PROVE  WebhookInv'
  BY <1>3, DeleteInv, QuietInv
<1>4. ASSUME NEW d \in Dispatchers, W!Claim(d) \/ W!Deliver(d) \/ W!Crash(d) PROVE WebhookInv'
  BY <1>4, ClaimInv, DeliverInv, MarkInv, CrashInv DEF W!Deliver
<1>5. CASE W!RetainWebhookEvents \/ W!Tick
  BY <1>5, RetainInv, QuietInv
<1> QED
  BY SMTT(20), <1>1, <1>2, <1>3, <1>4, <1>5 DEF W!Next

\* The inductive invariant holds throughout, and with it the types: no delivery is
\* claimed more than MaxAttempts times.
THEOREM WebhookInvariant ==
  ASSUME W!WebhookAssumption
  PROVE  W!Spec => []WebhookInv
<1>1. W!Init => WebhookInv
  BY WebhookInit
<1>2. WebhookInv /\ [W!Next]_(W!vars) => WebhookInv'
  BY WebhookStep
<1> QED
  BY <1>1, <1>2, PTL DEF W!Spec

\* No delivery outlives its event or its subscription, whichever of deletion,
\* retention and expansion comes first (DeleteWebhookSubscription: "a concurrent
\* delete cannot leave a delivery without its subscription").
THEOREM DeliveriesKeepParents ==
  ASSUME W!WebhookAssumption
  PROVE  W!Spec => []W!DeliveriesHaveParents
<1>1. ASSUME WebhookInv PROVE W!DeliveriesHaveParents
  <2> SUFFICES ASSUME NEW e \in Events, NEW s \in Subscriptions, delivery[<<e, s>>].status # "none"
               PROVE  e \in W!Outbox /\ s \in W!Subscribed
    BY DEF W!DeliveriesHaveParents
  <2>1. <<e, s>> \in W!Pairs
    BY DEF W!Pairs
  <2>2. PairOK(<<e, s>>)
    BY <1>1, <2>1 DEF WebhookInv
  <2> QED
    BY <2>2 DEF PairOK, W!Outbox, W!Subscribed
<1> QED
  BY <1>1, WebhookInvariant, PTL

\* A delivery is marked delivered only when its receiver took the event, and a
\* receiver is sent an event at most max_attempts times, over all crashes, expired
\* leases and late marks (ClaimWebhookDeliveries, the two marks).
THEOREM PostsStayMatched ==
  ASSUME W!WebhookAssumption
  PROVE  W!Spec => []W!PostsMatchMarks
<1>1. ASSUME WebhookInv PROVE W!PostsMatchMarks
  <2> SUFFICES ASSUME NEW x \in W!Pairs
               PROVE  (delivery[x].status = "delivered" => x \in accepted) /\ posted[x] <= MaxAttempts
    BY DEF W!PostsMatchMarks
  <2>1. PairOK(x) /\ W!TypeOK
    BY <1>1 DEF WebhookInv
  <2>2. Cardinality(Holders(x)) \in Nat /\ posted[x] \in Nat /\ MaxAttempts \in Nat
    BY <2>1, HoldersCount, WebhookBounds
  <2> QED
    BY <2>1, <2>2 DEF PairOK, Entitled
<1> QED
  BY <1>1, WebhookInvariant, PTL

\* A delivery that ended stays as it ended, or goes with its parents.
EndStays(x) ==
  delivery[x].status \in {"delivered", "failed"} => delivery'[x].status \in {delivery[x].status, "none"}

\* No step changes how a delivery ended, unless it removes the delivery.
LEMMA StepEnds ==
  ASSUME W!WebhookAssumption, WebhookInv, W!Next, NEW x \in W!Pairs
  PROVE  EndStays(x)
<1>1. /\ PairOK(x) /\ x[1] \in Events /\ delivery \in [W!Pairs -> RowType]
      /\ W!NoDelivery.status = "none"
  BY PairIs, TypesOf DEF WebhookInv, W!NoDelivery
<1>2. ASSUME NEW e \in Events, W!EnqueueWebhookEvent(e) \/ W!Age(e) PROVE EndStays(x)
  <2>1. x \in W!Expansion(e) => x[1] = e
    BY PairIs DEF W!Expansion
  <2>2. W!EnqueueWebhookEvent(e) /\ x[1] = e => delivery[x].status = "none"
    BY SMTT(20), <1>1 DEF W!EnqueueWebhookEvent, PairOK
  <2> QED
    BY SMTT(20), <1>2, <2>1, <2>2 DEF W!EnqueueWebhookEvent, W!Age, EndStays
<1>3. ASSUME NEW s \in Subscriptions, W!CreateWebhookSubscription(s) \/ W!DeleteWebhookSubscription(s)
      PROVE  EndStays(x)
  BY SMTT(20), <1>1, <1>3 DEF W!CreateWebhookSubscription, W!DeleteWebhookSubscription, EndStays
<1>4. ASSUME NEW d \in Dispatchers, W!Claim(d) PROVE EndStays(x)
  <2>1. PICK batch \in SUBSET {y \in W!Pairs : W!Due(y)} : W!ClaimWebhookDeliveries(d, batch)
    BY <1>4 DEF W!Claim
  <2> QED
    BY <2>1, ClaimRows DEF EndStays
<1>5. ASSUME NEW d \in Dispatchers, W!Deliver(d) PROVE EndStays(x)
  <2>1. PICK y \in W!Pairs : \/ W!DeliverWebhook(d, y)
                             \/ W!MarkWebhookDeliveryDelivered(d, y) \/ W!MarkWebhookDeliveryFailed(d, y)
    BY <1>5 DEF W!Deliver
  <2>2. CASE W!DeliverWebhook(d, y)
    BY <2>2 DEF W!DeliverWebhook, EndStays
  <2> QED
    BY <2>1, <2>2, MarkRows DEF EndStays
<1>6. ASSUME NEW d \in Dispatchers, W!Crash(d) PROVE EndStays(x)
  BY <1>6 DEF W!Crash, EndStays
<1>7. CASE W!RetainWebhookEvents
  BY <1>1, <1>7 DEF W!RetainWebhookEvents, EndStays
<1>8. CASE W!Tick
  <2>1. delivery'[x] = [delivery[x] EXCEPT !.wait = W!Less(@), !.lease = W!Less(@)]
    BY Zenon, <1>8 DEF W!Tick
  <2> QED
    BY <1>1, <2>1 DEF RowType, EndStays
<1> QED
  BY SMTT(20), <1>2, <1>3, <1>4, <1>5, <1>6, <1>7, <1>8 DEF W!Next

\* A delivery that ended stays as it ended until it is removed: no dispatcher that
\* lost its lease reopens it, and no event expands to it again.
THEOREM EndsStay ==
  ASSUME W!WebhookAssumption
  PROVE  W!Spec => W!EndedDeliveriesStay
<1>1. WebhookInv /\ [W!Next]_(W!vars) =>
        [\A x \in W!Pairs : delivery[x].status \in {"delivered", "failed"} =>
            delivery'[x].status \in {delivery[x].status, "none"}]_(W!vars)
  BY StepEnds DEF EndStays
<1> QED
  BY <1>1, WebhookInvariant, PTL DEF W!Spec, W!EndedDeliveriesStay

=============================================================================
