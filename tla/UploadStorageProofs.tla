------------------------- MODULE UploadStorageProofs -------------------------
(***************************************************************************)
(* Why the storage counters equal a recount of the rows, stay within the   *)
(* limits, and no blob is orphaned or taken from a committed image: for    *)
(* any number of requests, dispatchers, sizes and limits.                  *)
(***************************************************************************)
EXTENDS UploadStorage, FiniteSetTheorems, WellFoundedInduction, TLAPS

-----------------------------------------------------------------------------
(* Sums over finite sets.                                                  *)

\* A nonempty set of naturals has a least element.
LEMMA LeastNatural ==
  ASSUME NEW T \in SUBSET Nat, T # {}
  PROVE  \E x \in T : \A y \in T : x <= y
<1> DEFINE Less == {p \in Nat \X Nat : p[1] < p[2]}
<1>1. IsWellFoundedOn(Less, Nat)
  BY NatLessThanWellFounded, Zenon DEF OpToRel
<1> HIDE DEF Less
<1>2. PICK x \in T : \A y \in T : ~(<<y, x>> \in Less)
  BY Zenon, <1>1, WFMin
<1>3. ASSUME NEW y \in T PROVE x <= y
  <2>1. x \in Nat /\ y \in Nat
    OBVIOUS
  <2>2. y < x => <<y, x>> \in Less
    BY <2>1 DEF Less
  <2> QED
    BY <1>2, <2>1, <2>2
<1> QED
  BY <1>3

\* A set with 0 and the successor of each of its naturals holds all of them.
LEMMA Induct ==
  ASSUME NEW S, 0 \in S, \A n \in Nat : n \in S => n + 1 \in S
  PROVE  Nat \subseteq S
<1> SUFFICES ASSUME Nat \ S # {} PROVE FALSE
  OBVIOUS
<1>1. PICK x \in Nat \ S : \A y \in Nat \ S : x <= y
  BY Zenon, LeastNatural
<1>2. x # 0 /\ x - 1 \in Nat
  BY <1>1
<1>3. x - 1 \in S
  BY <1>1, <1>2
<1> QED
  BY <1>1, <1>2, <1>3

\* The fold behind SumFunctionOnSet takes away the picked element of what is left.
Pick(s) == CHOOSE x \in s : TRUE
Body(f, g, s) == IF s = {} THEN 0 ELSE f[Pick(s)] + g[s \ {Pick(s)}]
Folded(f, g, S) ==
    /\ SumFunctionOnSet(f, S) = g[S] /\ g[{}] = 0
    /\ \A s \in SUBSET S : s # {} => g[s] = f[Pick(s)] + g[s \ {Pick(s)}]
Sums(f, g, S) == g = [s \in SUBSET S |-> Body(f, g, s)]

\* The sum is the library's fold, spelled out.
LEMMA SumUnfolds ==
  ASSUME NEW f, NEW S
  PROVE  SumFunctionOnSet(f, S) = (CHOOSE g : Sums(f, g, S))[S]
BY Zenon DEF SumFunctionOnSet, FoldFunctionOnSet, MapThenFoldSet, Sums, Body, Pick

Inductive(S, T) == \A s \in SUBSET S : (s # {} => s \ {Pick(s)} \in T) => s \in T

\* What holds of a set once it holds of it without its picked element holds of
\* every subset of a finite set.
LEMMA SubsetInduct ==
  ASSUME NEW S, IsFiniteSet(S), NEW T, Inductive(S, T)
  PROVE  SUBSET S \subseteq T
<1> DEFINE Good == {n \in Nat : \A s \in SUBSET S : Cardinality(s) = n => s \in T}
<1>1. ASSUME NEW s \in SUBSET S PROVE IsFiniteSet(s) /\ Cardinality(s) \in Nat
  BY FS_Subset, FS_CardinalityType
<1>2. 0 \in Good
  BY <1>1, FS_EmptySet DEF Inductive
<1>3. ASSUME NEW n \in Nat, n \in Good PROVE n + 1 \in Good
  <2> SUFFICES ASSUME NEW s \in SUBSET S, Cardinality(s) = n + 1 PROVE s \in T
    OBVIOUS
  <2>1. s # {}
    BY FS_EmptySet
  <2>2. Pick(s) \in s
    BY <2>1 DEF Pick
  <2>3. IsFiniteSet(s) /\ s \ {Pick(s)} \in SUBSET S
    BY <1>1
  <2>4. Cardinality(s \ {Pick(s)}) = n
    <3>1. Cardinality(s \ {Pick(s)}) = Cardinality(s) - 1
      BY <2>2, <2>3, FS_RemoveElement
    <3> QED
      BY <3>1
  <2> QED
    BY <1>3, <2>3, <2>4 DEF Inductive
<1>4. Nat \subseteq Good
  <2> HIDE DEF Good
  <2> QED
    BY <1>2, <1>3, Induct
<1> QED
  BY <1>1, <1>4

\* The picked element, and what is left, of a nonempty subset.
LEMMA Picked ==
  ASSUME NEW S, NEW s \in SUBSET S, s # {}
  PROVE  Pick(s) \in s /\ Pick(s) \in S /\ s \ {Pick(s)} \in SUBSET S
BY DEF Pick

\* The recursion of the fold has a solution.
LEMMA SumsExist ==
  ASSUME NEW S, IsFiniteSet(S), NEW f \in [S -> Int]
  PROVE  \E g \in [SUBSET S -> Int] : Sums(f, g, S)
<1> DEFINE Upto(g, n) == \A s \in SUBSET S : Cardinality(s) <= n => g[s] = Body(f, g, s)
           Good == {n \in Nat : \E g \in [SUBSET S -> Int] : Upto(g, n)}
<1>1. ASSUME NEW s \in SUBSET S PROVE IsFiniteSet(s) /\ Cardinality(s) \in Nat
  BY FS_Subset, FS_CardinalityType
<1>2. 0 \in Good
  <2> DEFINE g == [s \in SUBSET S |-> 0]
  <2>1. \A s \in SUBSET S : Cardinality(s) <= 0 => s = {}
    BY <1>1, FS_EmptySet
  <2>2. g \in [SUBSET S -> Int] /\ \A s \in SUBSET S : g[s] = 0
    OBVIOUS
  <2> HIDE DEF g
  <2>3. Upto(g, 0)
    BY <2>1, <2>2 DEF Body
  <2> QED
    BY <2>2, <2>3
<1>3. ASSUME NEW n \in Nat, n \in Good PROVE n + 1 \in Good
  <2>1. PICK g \in [SUBSET S -> Int] : Upto(g, n)
    BY Zenon, <1>3
  <2> DEFINE h == [s \in SUBSET S |-> IF Cardinality(s) = n + 1 THEN Body(f, g, s) ELSE g[s]]
  <2>2. ASSUME NEW s \in SUBSET S PROVE Body(f, g, s) \in Int
    BY Picked DEF Body
  <2>3. h \in [SUBSET S -> Int]
    BY <2>2
  <2>4. \A s \in SUBSET S : h[s] = IF Cardinality(s) = n + 1 THEN Body(f, g, s) ELSE g[s]
    OBVIOUS
  <2> HIDE DEF h
  <2>5. ASSUME NEW s \in SUBSET S, Cardinality(s) <= n + 1 PROVE h[s] = Body(f, h, s)
    <3>1. CASE s = {}
      <4>1. Cardinality(s) = 0
        BY <3>1, FS_EmptySet
      <4>2. h[s] = g[s] /\ g[s] = Body(f, g, s)
        BY <2>1, <2>4, <4>1
      <4> QED
        BY <3>1, <4>2 DEF Body
    <3>2. CASE s # {}
      <4> DEFINE u == s \ {Pick(s)}
      <4>1. Pick(s) \in s /\ u \in SUBSET S
        BY <3>2, Picked
      <4>2. Cardinality(u) = Cardinality(s) - 1 /\ Cardinality(s) \in Nat /\ Cardinality(u) \in Nat
        BY <1>1, <4>1, FS_RemoveElement
      <4>3. h[u] = g[u]
        BY <2>4, <2>5, <4>1, <4>2
      <4>4. Body(f, h, s) = Body(f, g, s)
        BY <3>2, <4>3 DEF Body
      <4>5. h[s] = Body(f, g, s)
        BY <2>1, <2>4, <2>5, <4>2
      <4> QED
        BY <4>4, <4>5
    <3> QED
      BY <3>1, <3>2
  <2> QED
    BY <2>3, <2>5
<1>4. Cardinality(S) \in Good
  <2>1. Nat \subseteq Good
    <3> HIDE DEF Good
    <3> QED
      BY <1>2, <1>3, Induct
  <2> QED
    BY Zenon, <2>1, FS_CardinalityType
<1>5. PICK g \in [SUBSET S -> Int] : Upto(g, Cardinality(S))
  BY Zenon, <1>4
<1>6. \A s \in SUBSET S : Cardinality(s) <= Cardinality(S)
  BY FS_Subset
<1>7. \A s \in SUBSET S : g[s] = Body(f, g, s)
  BY <1>5, <1>6
<1> QED
  BY <1>5, <1>7 DEF Sums

\* The sum is computed by a function on the subsets that follows the recursion.
LEMMA SumIs ==
  ASSUME NEW S, IsFiniteSet(S), NEW f \in [S -> Int]
  PROVE  \E g \in [SUBSET S -> Int] : Folded(f, g, S)
<1> DEFINE h == CHOOSE g : Sums(f, g, S)
<1>1. PICK g \in [SUBSET S -> Int] : Sums(f, g, S)
  BY Zenon, SumsExist
<1>2. Sums(f, h, S)
  BY <1>1
<1> HIDE DEF h
<1>3. \A s \in SUBSET S : g[s] = Body(f, g, s) /\ h[s] = Body(f, h, s)
  BY <1>1, <1>2 DEF Sums
<1> DEFINE T == {s \in SUBSET S : h[s] = g[s]}
<1>4. Inductive(S, T)
  BY <1>3, Picked DEF Body, Inductive
<1>5. SUBSET S \subseteq T
  <2> HIDE DEF T
  <2> QED
    BY <1>4, SubsetInduct, Zenon
<1>6. h[S] = g[S]
  BY <1>5
<1>7. SumFunctionOnSet(f, S) = h[S]
  BY SumUnfolds DEF h
<1>8. g[{}] = 0 /\ \A s \in SUBSET S : s # {} => g[s] = f[Pick(s)] + g[s \ {Pick(s)}]
  BY Zenon, <1>3 DEF Body
<1> QED
  BY <1>6, <1>7, <1>8 DEF Folded

\* Sums are additive.
LEMMA SumPlus ==
  ASSUME NEW S, IsFiniteSet(S), NEW f \in [S -> Int], NEW g \in [S -> Int], NEW h \in [S -> Int],
         \A x \in S : h[x] = f[x] + g[x]
  PROVE  SumFunctionOnSet(h, S) = SumFunctionOnSet(f, S) + SumFunctionOnSet(g, S)
<1>1. PICK F \in [SUBSET S -> Int] : Folded(f, F, S)
  BY SumIs, Zenon
<1>2. PICK G \in [SUBSET S -> Int] : Folded(g, G, S)
  BY SumIs, Zenon
<1>3. PICK H \in [SUBSET S -> Int] : Folded(h, H, S)
  BY SumIs, Zenon
<1> DEFINE T == {s \in SUBSET S : H[s] = F[s] + G[s]}
<1>4. Inductive(S, T)
  <2> SUFFICES ASSUME NEW s \in SUBSET S, s # {} => s \ {Pick(s)} \in T PROVE s \in T
    BY Zenon DEF Inductive
  <2>1. CASE s = {}
    BY <1>1, <1>2, <1>3, <2>1 DEF Folded
  <2>2. CASE s # {}
    <3> DEFINE u == s \ {Pick(s)}
    <3>1. Pick(s) \in S /\ u \in SUBSET S
      BY <2>2, Picked
    <3>2. H[u] = F[u] + G[u] /\ F[u] \in Int /\ G[u] \in Int
      BY <2>2, <3>1
    <3>3. h[Pick(s)] = f[Pick(s)] + g[Pick(s)] /\ f[Pick(s)] \in Int /\ g[Pick(s)] \in Int
      BY <3>1
    <3>4. F[s] = f[Pick(s)] + F[u] /\ G[s] = g[Pick(s)] + G[u] /\ H[s] = h[Pick(s)] + H[u]
      BY Zenon, <1>1, <1>2, <1>3, <2>2 DEF Folded
    <3> QED
      BY <3>2, <3>3, <3>4
  <2> QED
    BY <2>1, <2>2
<1>5. SUBSET S \subseteq T
  <2> HIDE DEF T
  <2> QED
    BY <1>4, SubsetInduct, Zenon
<1>6. H[S] = F[S] + G[S]
  BY <1>5
<1> QED
  BY <1>1, <1>2, <1>3, <1>6 DEF Folded

\* The sum of a function that is 0 but at one point.
LEMMA SumAtPoint ==
  ASSUME NEW S, IsFiniteSet(S), NEW f \in [S -> Int], NEW r \in S,
         \A x \in S : x # r => f[x] = 0
  PROVE  SumFunctionOnSet(f, S) = f[r]
<1>1. PICK F \in [SUBSET S -> Int] : Folded(f, F, S)
  BY SumIs, Zenon
<1> DEFINE T == {s \in SUBSET S : F[s] = IF r \in s THEN f[r] ELSE 0}
<1>2. Inductive(S, T)
  <2> SUFFICES ASSUME NEW s \in SUBSET S, s # {} => s \ {Pick(s)} \in T PROVE s \in T
    BY DEF Inductive
  <2>1. CASE s = {}
    BY <1>1, <2>1 DEF Folded
  <2>2. CASE s # {}
    <3> DEFINE u == s \ {Pick(s)}
    <3>1. Pick(s) \in S /\ Pick(s) \in s /\ u \in SUBSET S
      BY <2>2, Picked
    <3>2. F[u] = IF r \in u THEN f[r] ELSE 0
      BY <2>2
    <3>3. F[s] = f[Pick(s)] + F[u]
      BY <1>1, <2>2 DEF Folded
    <3>4. f[r] \in Int /\ (Pick(s) # r => f[Pick(s)] = 0)
      BY <3>1
    <3>5. r \in u <=> r \in s /\ Pick(s) # r
      OBVIOUS
    <3> HIDE DEF u
    <3>6. F[s] = IF r \in s THEN f[r] ELSE 0
      BY <3>1, <3>2, <3>3, <3>4, <3>5
    <3> QED
      BY <3>6
  <2> QED
    BY <2>1, <2>2
<1>3. SUBSET S \subseteq T
  <2> HIDE DEF T
  <2> QED
    BY <1>2, SubsetInduct, Zenon
<1>4. F[S] = f[r]
  BY <1>3
<1> QED
  BY <1>1, <1>4 DEF Folded

\* The sum of naturals is one.
LEMMA SumNat ==
  ASSUME NEW S, IsFiniteSet(S), NEW f \in [S -> Nat]
  PROVE  SumFunctionOnSet(f, S) \in Nat
<1> f \in [S -> Int]
  OBVIOUS
<1>1. PICK F \in [SUBSET S -> Int] : Folded(f, F, S)
  BY SumIs, Zenon
<1> DEFINE T == {s \in SUBSET S : F[s] \in Nat}
<1>2. Inductive(S, T)
  <2> SUFFICES ASSUME NEW s \in SUBSET S, s # {} => s \ {Pick(s)} \in T PROVE s \in T
    BY DEF Inductive
  <2>1. CASE s = {}
    BY <1>1, <2>1 DEF Folded
  <2>2. CASE s # {}
    <3>1. F[s] = f[Pick(s)] + F[s \ {Pick(s)}]
      BY <1>1, <2>2 DEF Folded
    <3>2. f[Pick(s)] \in Nat /\ F[s \ {Pick(s)}] \in Nat
      BY <2>2, Picked
    <3> QED
      BY <3>1, <3>2
  <2> QED
    BY <2>1, <2>2
<1>3. SUBSET S \subseteq T
  <2> HIDE DEF T
  <2> QED
    BY <1>2, SubsetInduct, Zenon
<1> QED
  BY <1>1, <1>3 DEF Folded

\* The sum of integers is one.
LEMMA SumInt ==
  ASSUME NEW S, IsFiniteSet(S), NEW f \in [S -> Int]
  PROVE  SumFunction(f) = SumFunctionOnSet(f, S) /\ SumFunction(f) \in Int
<1>1. PICK F \in [SUBSET S -> Int] : Folded(f, F, S)
  BY SumIs, Zenon
<1>2. SumFunctionOnSet(f, S) \in Int
  BY <1>1 DEF Folded
<1>3. DOMAIN f = S
  OBVIOUS
<1>4. SumFunction(f) = SumFunctionOnSet(f, S)
  BY <1>3 DEF SumFunction
<1> QED
  BY <1>2, <1>4

\* Sums of naturals.
LEMMA SumNatural ==
  ASSUME NEW S, IsFiniteSet(S), NEW f \in [S -> Nat]
  PROVE  SumFunction(f) \in Nat
<1>1. f \in [S -> Int]
  OBVIOUS
<1> QED
  BY <1>1, SumInt, SumNat

\* Sums of a sum, taken point by point.
LEMMA SumAdds ==
  ASSUME NEW S, IsFiniteSet(S), NEW f \in [S -> Int], NEW g \in [S -> Int], NEW h \in [S -> Int],
         \A x \in S : h[x] = f[x] + g[x]
  PROVE  SumFunction(h) = SumFunction(f) + SumFunction(g)
BY SumInt, SumPlus

\* The sum of zeros.
LEMMA SumZeros ==
  ASSUME NEW S, IsFiniteSet(S), NEW f \in [S -> Int], \A x \in S : f[x] = 0
  PROVE  SumFunction(f) = 0
<1>1. \A x \in S : f[x] = f[x] + f[x]
  OBVIOUS
<1>2. SumFunction(f) = SumFunction(f) + SumFunction(f)
  BY <1>1, SumAdds
<1> QED
  BY <1>2, SumInt

\* A change at one point changes the sum by as much.
LEMMA SumChanges ==
  ASSUME NEW S, IsFiniteSet(S), NEW f \in [S -> Int], NEW h \in [S -> Int], NEW r \in S,
         \A x \in S : x # r => h[x] = f[x]
  PROVE  SumFunction(h) = SumFunction(f) + (h[r] - f[r])
<1> DEFINE g == [x \in S |-> h[x] - f[x]]
<1>1. g \in [S -> Int] /\ \A x \in S : g[x] = h[x] - f[x]
  OBVIOUS
<1>2. \A x \in S : x # r => g[x] = 0
  BY <1>1
<1>3. \A x \in S : h[x] = f[x] + g[x]
  BY <1>1
<1> HIDE DEF g
<1>4. SumFunction(g) = g[r]
  BY <1>1, <1>2, SumAtPoint, SumInt
<1>5. SumFunction(h) = SumFunction(f) + SumFunction(g)
  BY <1>1, <1>3, SumAdds
<1> QED
  BY <1>1, <1>4, <1>5

\* Greater values have a greater sum.
LEMMA SumGrows ==
  ASSUME NEW S, IsFiniteSet(S), NEW f \in [S -> Int], NEW h \in [S -> Int],
         \A x \in S : f[x] <= h[x]
  PROVE  SumFunction(f) <= SumFunction(h)
<1> DEFINE g == [x \in S |-> h[x] - f[x]]
<1>1. g \in [S -> Nat] /\ g \in [S -> Int] /\ \A x \in S : g[x] = h[x] - f[x]
  OBVIOUS
<1>2. \A x \in S : h[x] = f[x] + g[x]
  BY <1>1
<1> HIDE DEF g
<1>3. SumFunction(h) = SumFunction(f) + SumFunction(g)
  BY <1>1, <1>2, SumAdds
<1>4. SumFunction(g) \in Nat /\ SumFunction(f) \in Int
  BY <1>1, SumNatural, SumInt
<1> QED
  BY <1>3, <1>4

\* A set that differs from another at one point.
LEMMA CountChanges ==
  ASSUME NEW S, IsFiniteSet(S), NEW A \in SUBSET S, NEW B \in SUBSET S, NEW r \in S,
         A \ {r} = B \ {r}
  PROVE  /\ Cardinality(A) \in Nat /\ Cardinality(B) \in Nat
         /\ Cardinality(B) = Cardinality(A) + ((IF r \in B THEN 1 ELSE 0) - (IF r \in A THEN 1 ELSE 0))
<1>1. IsFiniteSet(A) /\ IsFiniteSet(B) /\ IsFiniteSet(A \ {r})
  BY FS_Subset
<1>2. Cardinality(A) \in Nat /\ Cardinality(B) \in Nat /\ Cardinality(A \ {r}) \in Nat
  BY <1>1, FS_CardinalityType
<1>3. ASSUME NEW C \in SUBSET S, C \ {r} = A \ {r}, IsFiniteSet(C)
      PROVE  Cardinality(C) = Cardinality(A \ {r}) + (IF r \in C THEN 1 ELSE 0)
  <2>1. CASE r \notin C
    <3>1. C = A \ {r}
      BY <1>3, <2>1
    <3> QED
      BY <1>2, <2>1, <3>1
  <2>2. CASE r \in C
    <3>1. C = (A \ {r}) \cup {r} /\ r \notin A \ {r}
      BY <1>3, <2>2
    <3>2. Cardinality(C) = Cardinality(A \ {r}) + 1
      BY Zenon, <1>1, <3>1, FS_AddElement
    <3> QED
      BY <2>2, <3>2
  <2> QED
    BY <2>1, <2>2
<1>4. /\ Cardinality(A) = Cardinality(A \ {r}) + (IF r \in A THEN 1 ELSE 0)
      /\ Cardinality(B) = Cardinality(A \ {r}) + (IF r \in B THEN 1 ELSE 0)
  BY <1>1, <1>3
<1> QED
  BY <1>2, <1>4

-----------------------------------------------------------------------------
(* The inductive invariant.                                                *)

ReservationType ==
    [held : BOOLEAN, bytes : Sizes \cup {0}, images : 0 .. 1, bound : BOOLEAN, ttl : 0 .. ReservationTTL]
ImageType == [exists : BOOLEAN, text : Sizes \cup {0}]
WorkerType ==
    [pc : {"idle", "begin", "delete", "complete", "keep", "retry"}, key : Requests \cup {NoOne},
     left : 0 .. OperationTime]
Steps == {"idle", "reserved", "staged", "stored", "sized", "enqueue", "lost", "release", "done"}

\* TypeOK without the counters, whose types follow from what they count.
RowsTyped ==
    /\ pc \in [Requests -> Steps] /\ size \in [Requests -> Sizes \cup {0}]
    /\ reservation \in [Requests -> ReservationType] /\ cleanup \in [Requests -> RowType]
    /\ image \in [Requests -> ImageType] /\ blob \in [Requests -> BOOLEAN]
    /\ worker \in [Dispatchers -> WorkerType]

\* What a request has left behind at each of its steps: nothing before it is
\* staged, no reference before it commits, and its blob while it may commit.
RequestInv(r) ==
    /\ size[r] = 0 => ~Queued(r) /\ ~image[r].exists /\ ~blob[r]
    /\ pc[r] \in {"idle", "reserved"} => size[r] = 0
    /\ ~reservation[r].held => reservation[r].bytes = 0 /\ reservation[r].images = 0
    /\ pc[r] = "idle" => ~reservation[r].held
    /\ pc[r] \in {"reserved", "staged", "stored", "sized"} =>
         (reservation[r].held => reservation[r].images = 1) /\ ~image[r].exists
    /\ pc[r] \in {"stored", "sized"} /\ Queued(r) /\ ~cleanup[r].fenced => blob[r]
    /\ ~image[r].exists => image[r].text = 0
    /\ image[r].exists => blob[r] /\ ~cleanup[r].fenced
    /\ blob[r] => Queued(r) \/ image[r].exists

\* An upload behind a fence, or whose row a dispatcher has removed with its blob,
\* can no longer be referenced.
Doomed(r) == size[r] # 0 /\ ~image[r].exists /\ (cleanup[r].fenced \/ ~Queued(r))

ClaimedBy(r, d) == cleanup[r].status = "processing" /\ cleanup[r].owner = d

WorkerInv(d) ==
    LET r == worker[d].key IN
    /\ worker[d].pc # "idle" => r \in Requests
    /\ worker[d].pc \in {"delete", "complete"} => Doomed(r)
    /\ worker[d].pc = "complete" => ~blob[r]
    /\ worker[d].pc = "keep" /\ ClaimedBy(r, d) => image[r].exists

\* What the counters count, request by request.
Counted == [r \in Requests |-> IF Queued(r) \/ image[r].exists THEN size[r] ELSE 0]
Texts == [r \in Requests |-> image[r].text]
HeldBytes == [r \in Requests |-> reservation[r].bytes]
HeldImages == [r \in Requests |-> reservation[r].images]
Existing == {r \in Requests : image[r].exists}

Ledger ==
    /\ quota \in [upload : Int, text : Int, images : Int, heldBytes : Int, heldImages : Int]
    /\ quota.upload = SumFunction(Counted) /\ quota.text = SumFunction(Texts)
    /\ quota.images = Cardinality(Existing)
    /\ quota.heldBytes = SumFunction(HeldBytes) /\ quota.heldImages = SumFunction(HeldImages)

StorageInv ==
    /\ RowsTyped /\ Ledger /\ Fits(quota)
    /\ \A r \in Requests : RequestInv(r)
    /\ \A d \in Dispatchers : WorkerInv(d)

-----------------------------------------------------------------------------
(* What the steps have in common.                                          *)

\* The bounds are naturals and sizes are not zero.
LEMMA Bounds ==
  ASSUME StorageAssumption
  PROVE  /\ IsFiniteSet(Requests) /\ NoOne \notin Dispatchers
         /\ MaxBytes \in Nat /\ MaxImages \in Nat /\ Sizes \subseteq Nat /\ 0 \notin Sizes
         /\ MaxAttempts \in Nat /\ MaxAttempts >= 1 /\ ReservationTTL \in Nat /\ RetryTime \in Nat
         /\ OperationTime \in Nat /\ LeaseTime \in Nat
         /\ RetryTime \in 0 .. Later(ReservationTTL, Later(LeaseTime, RetryTime))
         /\ ReservationTTL \in 0 .. Later(ReservationTTL, Later(LeaseTime, RetryTime))
         /\ LeaseTime \in 0 .. Later(ReservationTTL, Later(LeaseTime, RetryTime))
BY DEF StorageAssumption, Later

\* What is counted is a natural number for each request.
LEMMA CountedTypes ==
  ASSUME StorageAssumption, RowsTyped
  PROVE  /\ Counted \in [Requests -> Nat] /\ Texts \in [Requests -> Nat]
         /\ HeldBytes \in [Requests -> Nat] /\ HeldImages \in [Requests -> Nat]
         /\ Existing \in SUBSET Requests
<1>1. Sizes \cup {0} \subseteq Nat
  BY Bounds
<1>2. Counted \in [Requests -> Nat]
  BY <1>1 DEF RowsTyped, Counted
<1>3. Texts \in [Requests -> Nat]
  BY <1>1 DEF RowsTyped, Texts, ImageType
<1>4. HeldBytes \in [Requests -> Nat] /\ HeldImages \in [Requests -> Nat]
  BY <1>1 DEF RowsTyped, HeldBytes, HeldImages, ReservationType
<1> QED
  BY <1>2, <1>3, <1>4 DEF Existing

\* So are the counters.
LEMMA LedgerTypes ==
  ASSUME StorageAssumption, RowsTyped, Ledger
  PROVE  quota \in [upload : Nat, text : Nat, images : Nat, heldBytes : Nat, heldImages : Nat]
<1>1. IsFiniteSet(Requests)
  BY Bounds
<1>2. quota.upload \in Nat /\ quota.text \in Nat /\ quota.heldBytes \in Nat /\ quota.heldImages \in Nat
  BY <1>1, CountedTypes, SumNatural DEF Ledger
<1>3. quota.images \in Nat
  <2>1. IsFiniteSet(Existing)
    BY <1>1, CountedTypes, FS_Subset
  <2> QED
    BY <2>1, FS_CardinalityType DEF Ledger
<1> QED
  BY <1>2, <1>3 DEF Ledger

\* A step on one request's rows keeps the counters exact when it moves them by
\* what it changes in those rows.
LEMMA Booked ==
  ASSUME StorageAssumption, RowsTyped, RowsTyped', Ledger, NEW r \in Requests,
         \A x \in Requests \ {r} : /\ size'[x] = size[x] /\ image'[x] = image[x]
                                   /\ reservation'[x] = reservation[x] /\ cleanup'[x] = cleanup[x],
         quota' \in [upload : Int, text : Int, images : Int, heldBytes : Int, heldImages : Int],
         quota'.upload = quota.upload + (Counted'[r] - Counted[r]),
         quota'.text = quota.text + (image'[r].text - image[r].text),
         quota'.images = quota.images + ((IF image'[r].exists THEN 1 ELSE 0) - (IF image[r].exists THEN 1 ELSE 0)),
         quota'.heldBytes = quota.heldBytes + (reservation'[r].bytes - reservation[r].bytes),
         quota'.heldImages = quota.heldImages + (reservation'[r].images - reservation[r].images)
  PROVE  Ledger'
<1>1. IsFiniteSet(Requests) /\ Sizes \cup {0} \subseteq Nat
  BY Bounds
<1>2. /\ Counted \in [Requests -> Int] /\ Texts \in [Requests -> Int]
      /\ HeldBytes \in [Requests -> Int] /\ HeldImages \in [Requests -> Int]
      /\ Existing \in SUBSET Requests
  <2>1. /\ Counted \in [Requests -> Nat] /\ Texts \in [Requests -> Nat]
        /\ HeldBytes \in [Requests -> Nat] /\ HeldImages \in [Requests -> Nat]
        /\ Existing \in SUBSET Requests
    BY CountedTypes
  <2> QED
    BY <2>1
<1>3. Counted' \in [Requests -> Int]
  BY <1>1 DEF RowsTyped, Counted
<1>4. Texts' \in [Requests -> Int]
  BY <1>1 DEF RowsTyped, Texts, ImageType
<1>5. HeldBytes' \in [Requests -> Int] /\ HeldImages' \in [Requests -> Int]
  BY <1>1 DEF RowsTyped, HeldBytes, HeldImages, ReservationType
<1>6. quota'.upload = SumFunction(Counted')
  <2>1. \A x \in Requests : x # r => Counted'[x] = Counted[x]
    BY DEF Counted, Queued
  <2>2. SumFunction(Counted') = SumFunction(Counted) + (Counted'[r] - Counted[r])
    BY <1>1, <1>2, <1>3, <2>1, SumChanges
  <2> QED
    BY <2>2 DEF Ledger
<1>7. quota'.text = SumFunction(Texts')
  <2>1. \A x \in Requests : x # r => Texts'[x] = Texts[x]
    BY DEF Texts
  <2>2. SumFunction(Texts') = SumFunction(Texts) + (Texts'[r] - Texts[r])
    BY <1>1, <1>2, <1>4, <2>1, SumChanges
  <2>3. Texts'[r] = image'[r].text /\ Texts[r] = image[r].text
    BY DEF Texts
  <2> QED
    BY <2>2, <2>3 DEF Ledger
<1>8. quota'.heldBytes = SumFunction(HeldBytes')
  <2>1. \A x \in Requests : x # r => HeldBytes'[x] = HeldBytes[x]
    BY DEF HeldBytes
  <2>2. SumFunction(HeldBytes') = SumFunction(HeldBytes) + (HeldBytes'[r] - HeldBytes[r])
    BY <1>1, <1>2, <1>5, <2>1, SumChanges
  <2>3. HeldBytes'[r] = reservation'[r].bytes /\ HeldBytes[r] = reservation[r].bytes
    BY DEF HeldBytes
  <2> QED
    BY <2>2, <2>3 DEF Ledger
<1>9. quota'.heldImages = SumFunction(HeldImages')
  <2>1. \A x \in Requests : x # r => HeldImages'[x] = HeldImages[x]
    BY DEF HeldImages
  <2>2. SumFunction(HeldImages') = SumFunction(HeldImages) + (HeldImages'[r] - HeldImages[r])
    BY <1>1, <1>2, <1>5, <2>1, SumChanges
  <2>3. HeldImages'[r] = reservation'[r].images /\ HeldImages[r] = reservation[r].images
    BY DEF HeldImages
  <2> QED
    BY <2>2, <2>3 DEF Ledger
<1>10. quota'.images = Cardinality(Existing')
  <2>1. Existing' \in SUBSET Requests /\ Existing \ {r} = Existing' \ {r}
    BY DEF Existing
  <2>2. (r \in Existing' <=> image'[r].exists) /\ (r \in Existing <=> image[r].exists)
    BY DEF Existing
  <2>3. Cardinality(Existing') = Cardinality(Existing)
           + ((IF r \in Existing' THEN 1 ELSE 0) - (IF r \in Existing THEN 1 ELSE 0))
    BY <1>1, <1>2, <2>1, CountChanges
  <2> QED
    BY <2>2, <2>3 DEF Ledger
<1> QED
  BY <1>6, <1>7, <1>8, <1>9, <1>10 DEF Ledger

\* A step that leaves the counted columns alone may leave the counters alone.
LEMMA NothingBooked ==
  ASSUME Ledger, UNCHANGED <<size, image, quota>>,
         \A x \in Requests : /\ Queued(x)' <=> Queued(x)
                             /\ reservation'[x].bytes = reservation[x].bytes
                             /\ reservation'[x].images = reservation[x].images
  PROVE  Ledger'
<1>1. Counted' = Counted /\ Texts' = Texts /\ Existing' = Existing
  BY DEF Counted, Texts, Existing
<1>2. HeldBytes' = HeldBytes /\ HeldImages' = HeldImages
  BY DEF HeldBytes, HeldImages
<1> QED
  BY <1>1, <1>2 DEF Ledger

Unmoved(d) == worker'[d].pc = worker[d].pc /\ worker'[d].key = worker[d].key

\* What a step may do to the upload of a dispatcher that does not take part.
GoesOn(r, d) ==
    /\ Doomed(r) => Doomed(r)' /\ (blob'[r] => blob[r])
    /\ ClaimedBy(r, d)' => ClaimedBy(r, d) /\ (image[r].exists => image'[r].exists)

\* A dispatcher that takes no part in a step keeps what it relies on.
LEMMA WorkerKept ==
  ASSUME StorageInv, NEW d \in Dispatchers, Unmoved(d), \A r \in Requests : GoesOn(r, d)
  PROVE  WorkerInv(d)'
<1> DEFINE r == worker[d].key
<1>1. worker'[d].key = r /\ worker'[d].pc = worker[d].pc
  BY DEF Unmoved
<1>2. WorkerInv(d)
  BY DEF StorageInv
<1>3. CASE worker[d].pc = "idle"
  BY <1>1, <1>3 DEF WorkerInv
<1>4. CASE worker[d].pc # "idle"
  <2>1. r \in Requests
    BY <1>2, <1>4 DEF WorkerInv
  <2>2. GoesOn(r, d)
    BY <2>1
  <2>3. /\ worker[d].pc \in {"delete", "complete"} => Doomed(r)
        /\ worker[d].pc = "complete" => ~blob[r]
        /\ worker[d].pc = "keep" /\ ClaimedBy(r, d) => image[r].exists
    BY <1>2 DEF WorkerInv
  <2>4. /\ worker[d].pc \in {"delete", "complete"} => Doomed(r)'
        /\ worker[d].pc = "complete" => ~blob'[r]
        /\ worker[d].pc = "keep" /\ ClaimedBy(r, d)' => image'[r].exists
    BY <2>2, <2>3 DEF GoesOn
  <2> QED
    BY <1>1, <2>1, <2>4 DEF WorkerInv, Doomed, ClaimedBy, Queued
<1> QED
  BY <1>3, <1>4

\* The rows of every request but r are untouched.
Others(r) ==
    \A x \in Requests \ {r} :
        /\ pc'[x] = pc[x] /\ size'[x] = size[x] /\ reservation'[x] = reservation[x]
        /\ cleanup'[x] = cleanup[x] /\ image'[x] = image[x] /\ blob'[x] = blob[x]

\* A step on the rows of one request has to be looked at there, and with the
\* dispatchers that take part in it.
LEMMA LocalStep ==
  ASSUME StorageInv, NEW r \in Requests, Others(r), RowsTyped', Ledger', Fits(quota)', RequestInv(r)',
         \A d \in Dispatchers : WorkerInv(d)' \/ (Unmoved(d) /\ GoesOn(r, d))
  PROVE  StorageInv'
<1>1. ASSUME NEW x \in Requests \ {r} PROVE RequestInv(x)'
  <2>1. RequestInv(x)
    BY DEF StorageInv
  <2> QED
    BY <2>1 DEF RequestInv, Queued, Others
<1>2. ASSUME NEW d \in Dispatchers PROVE WorkerInv(d)'
  <2>1. CASE Unmoved(d) /\ GoesOn(r, d)
    <3>1. ASSUME NEW x \in Requests \ {r} PROVE GoesOn(x, d)
      BY DEF Others, GoesOn, Doomed, ClaimedBy, Queued
    <3> QED
      BY <2>1, <3>1, WorkerKept
  <2> QED
    BY <2>1
<1> QED
  BY <1>1, <1>2 DEF StorageInv

\* The columns of a request's rows and the counters, with their types.
LEMMA RowOf ==
  ASSUME StorageAssumption, StorageInv, NEW r \in Requests
  PROVE  /\ RowsTyped /\ Ledger /\ Fits(quota) /\ RequestInv(r)
         /\ size[r] \in Nat /\ blob[r] \in BOOLEAN
         /\ reservation[r].held \in BOOLEAN /\ reservation[r].bytes \in Nat
         /\ reservation[r].images \in 0 .. 1 /\ reservation[r].ttl \in 0 .. ReservationTTL
         /\ cleanup[r].status \in {"none", "pending", "processing"} /\ cleanup[r].fenced \in BOOLEAN
         /\ cleanup[r].lease \in 0 .. LeaseTime
         /\ image[r].exists \in BOOLEAN /\ image[r].text \in Nat
         /\ quota.upload \in Nat /\ quota.text \in Nat /\ quota.images \in Nat
         /\ quota.heldBytes \in Nat /\ quota.heldImages \in Nat
<1>1. RowsTyped /\ Ledger /\ Fits(quota) /\ RequestInv(r)
  BY DEF StorageInv
<1>2. Sizes \cup {0} \subseteq Nat
  BY Bounds
<1>3. size[r] \in Nat /\ blob[r] \in BOOLEAN
  BY <1>1, <1>2 DEF RowsTyped
<1>4. reservation[r] \in ReservationType /\ cleanup[r] \in RowType /\ image[r] \in ImageType
  BY <1>1 DEF RowsTyped
<1>5. /\ reservation[r].held \in BOOLEAN /\ reservation[r].bytes \in Nat
      /\ reservation[r].images \in 0 .. 1 /\ reservation[r].ttl \in 0 .. ReservationTTL
  BY <1>2, <1>4 DEF ReservationType
<1>6. /\ cleanup[r].status \in {"none", "pending", "processing"} /\ cleanup[r].fenced \in BOOLEAN
      /\ cleanup[r].lease \in 0 .. LeaseTime
  BY <1>4 DEF RowType
<1>7. image[r].exists \in BOOLEAN /\ image[r].text \in Nat
  BY <1>2, <1>4 DEF ImageType
<1>8. quota \in [upload : Nat, text : Nat, images : Nat, heldBytes : Nat, heldImages : Nat]
  BY <1>1, LedgerTypes
<1> QED
  BY <1>1, <1>3, <1>5, <1>6, <1>7, <1>8

-----------------------------------------------------------------------------
(* The steps of a request.                                                 *)

\* Steps that change only where the request is, and perhaps the blob: it is written
\* only while an unfenced row owns it, and removed only while nothing refers to it.
LEMMA BlobStep ==
  ASSUME StorageAssumption, StorageInv, NEW r \in Requests,
         NEW step \in Steps \ {"idle", "reserved"}, NEW b \in BOOLEAN,
         UNCHANGED <<size, reservation, cleanup, image, quota, worker>>,
         pc' = [pc EXCEPT ![r] = step], blob' = [blob EXCEPT ![r] = b],
         step \in {"staged", "stored", "sized"} => b /\ pc[r] \in {"staged", "stored"},
         b => blob[r] \/ (Queued(r) /\ ~cleanup[r].fenced),
         b = blob[r] \/ ~image[r].exists
  PROVE  StorageInv'
<1>1. /\ RowsTyped /\ Ledger /\ Fits(quota) /\ RequestInv(r)
      /\ cleanup[r].fenced \in BOOLEAN /\ image[r].exists \in BOOLEAN /\ blob[r] \in BOOLEAN
  BY RowOf
<1>2. pc'[r] = step /\ blob'[r] = b /\ Others(r)
  BY <1>1 DEF RowsTyped, Others
<1>3. RowsTyped'
  BY <1>1 DEF RowsTyped
<1>4. Ledger' /\ Fits(quota)'
  BY <1>1, NothingBooked DEF Queued, Fits
<1>5. RequestInv(r)'
  BY <1>1, <1>2 DEF RequestInv, Queued
<1>6. ASSUME NEW d \in Dispatchers PROVE Unmoved(d) /\ GoesOn(r, d)
  BY <1>1, <1>2 DEF Unmoved, GoesOn, Doomed, ClaimedBy, Queued, RequestInv
<1> QED
  BY <1>2, <1>3, <1>4, <1>5, <1>6, LocalStep

\* The steps of a request that only move on, or write or remove its own blob.
LEMMA BlobSteps ==
  ASSUME StorageAssumption, StorageInv, NEW r \in Requests,
         \/ PutBlob(r) \/ WriteFails(r) \/ ProcessingFails(r) \/ ResizeFails(r)
         \/ CommitFails(r) \/ GiveUp(r) \/ Die(r)
  PROVE  StorageInv'
<1>1. /\ RowsTyped /\ RequestInv(r) /\ blob[r] \in BOOLEAN /\ image[r].exists \in BOOLEAN
      /\ blob \in [Requests -> BOOLEAN]
  BY RowOf DEF RowsTyped
<1>2. blob = [blob EXCEPT ![r] = blob[r]]
  BY <1>1
<1>3. {"staged", "stored", "sized", "enqueue", "lost", "release", "done"} \subseteq Steps \ {"idle", "reserved"}
  BY DEF Steps
<1>4. CASE PutBlob(r)
  BY Zenon, <1>1, <1>3, <1>4, BlobStep DEF PutBlob, Goto, WriteInTime, RequestInv
<1>5. CASE WriteFails(r)
  <2>1. PICK b \in BOOLEAN : blob' = [blob EXCEPT ![r] = b]
    BY Zenon, <1>5 DEF WriteFails
  <2> QED
    BY Zenon, <1>1, <1>3, <1>5, <2>1, BlobStep DEF WriteFails, Goto, WriteInTime, RequestInv
<1>6. CASE ProcessingFails(r)
  <2>1. PICK b \in BOOLEAN : blob' = [blob EXCEPT ![r] = b] /\ (b => blob[r])
    BY Zenon, <1>1, <1>2, <1>6 DEF ProcessingFails
  <2> QED
    BY Zenon, <1>1, <1>3, <1>6, <2>1, BlobStep DEF ProcessingFails, Goto, RequestInv
<1>7. CASE ResizeFails(r) \/ CommitFails(r) \/ GiveUp(r) \/ Die(r)
  <2>1. PICK step \in {"enqueue", "lost", "release", "done"} : pc' = [pc EXCEPT ![r] = step]
    BY <1>7 DEF ResizeFails, CommitFails, GiveUp, Die, Goto
  <2>2. blob' = [blob EXCEPT ![r] = blob[r]] /\ UNCHANGED <<size, reservation, cleanup, image, quota, worker>>
    BY <1>2, <1>7 DEF ResizeFails, CommitFails, GiveUp, Die
  <2> QED
    BY Zenon, <1>1, <1>3, <2>1, <2>2, BlobStep
<1> QED
  BY <1>4, <1>5, <1>6, <1>7

\* A reservation is counted when it is made, and is made only where it fits.
LEMMA ReserveStep ==
  ASSUME StorageAssumption, StorageInv, NEW r \in Requests, NEW n \in Sizes, Reserve(r, n)
  PROVE  StorageInv'
<1>1. /\ RowsTyped /\ Ledger /\ RequestInv(r) /\ n \in Nat /\ size[r] \in Nat /\ image[r].text \in Nat
      /\ quota.upload \in Nat /\ quota.text \in Nat /\ quota.images \in Nat
      /\ quota.heldBytes \in Nat /\ quota.heldImages \in Nat /\ ReservationTTL \in Nat
  BY RowOf, Bounds
<1> DEFINE new == [held |-> TRUE, bytes |-> n, images |-> 1, bound |-> FALSE, ttl |-> ReservationTTL]
<1>2. /\ pc[r] = "idle" /\ pc' = [pc EXCEPT ![r] = "reserved"] /\ UNCHANGED <<size, cleanup, image, blob, worker>>
      /\ reservation' = [reservation EXCEPT ![r] = new]
      /\ quota' = [quota EXCEPT !.heldBytes = @ + n, !.heldImages = @ + 1]
      /\ Fits(quota)'
  BY DEF Reserve, Goto, Fits
<1>3. new \in ReservationType /\ new.held /\ new.bytes = n /\ new.images = 1
  BY <1>1 DEF ReservationType
<1> HIDE DEF new
<1>4. pc'[r] = "reserved" /\ reservation'[r] = new /\ Others(r)
  BY <1>1, <1>2 DEF RowsTyped, Others
<1>5. RowsTyped'
  BY <1>1, <1>2, <1>3 DEF RowsTyped, Steps
<1>6. reservation[r].bytes = 0 /\ reservation[r].images = 0
  BY <1>1, <1>2 DEF RequestInv
<1>7. /\ quota' \in [upload : Int, text : Int, images : Int, heldBytes : Int, heldImages : Int]
      /\ quota'.upload = quota.upload /\ quota'.text = quota.text /\ quota'.images = quota.images
      /\ quota'.heldBytes = quota.heldBytes + n /\ quota'.heldImages = quota.heldImages + 1
  <2> DEFINE bytes == quota.heldBytes + n
             images == quota.heldImages + 1
  <2>1. bytes \in Int /\ images \in Int /\ quota' = [quota EXCEPT !.heldBytes = bytes, !.heldImages = images]
    BY <1>1, <1>2
  <2> HIDE DEF bytes, images
  <2>2. /\ quota' \in [upload : Int, text : Int, images : Int, heldBytes : Int, heldImages : Int]
        /\ quota'.upload = quota.upload /\ quota'.text = quota.text /\ quota'.images = quota.images
        /\ quota'.heldBytes = bytes /\ quota'.heldImages = images
    BY Zenon, <1>1, <2>1 DEF Ledger
  <2> QED
    BY <2>2 DEF bytes, images
<1>8. Counted'[r] = Counted[r] /\ Counted[r] \in Nat
  BY <1>1, <1>2 DEF Counted, Queued
<1>9. Ledger'
  BY <1>1, <1>2, <1>3, <1>4, <1>5, <1>6, <1>7, <1>8, Booked DEF Others
<1>10. RequestInv(r)'
  BY <1>1, <1>2, <1>3, <1>4 DEF RequestInv, Queued
<1>11. ASSUME NEW d \in Dispatchers PROVE Unmoved(d) /\ GoesOn(r, d)
  BY <1>2 DEF Unmoved, GoesOn, Doomed, ClaimedBy, Queued
<1> QED
  BY <1>2, <1>4, <1>5, <1>9, <1>10, <1>11, LocalStep

\* A cleanup row as it is written, and none.
LEMMA NoRowTyped ==
  ASSUME StorageAssumption
  PROVE  NoRow \in RowType /\ NoRow.status = "none" /\ NoRow.fenced = FALSE
<1> DEFINE Due == 0 .. Later(ReservationTTL, Later(LeaseTime, RetryTime))
           Lease == 0 .. LeaseTime
           Attempts == 0 .. MaxAttempts
<1>1. 0 \in Due /\ 0 \in Lease /\ 0 \in Attempts
  BY Bounds DEF Later
<1>2. RowType = [status : {"none", "pending", "processing"}, due : Due, lease : Lease, attempts : Attempts,
                 owner : Dispatchers \cup {NoOne}, fenced : BOOLEAN]
  BY DEF RowType
<1> HIDE DEF Due, Lease, Attempts
<1> QED
  BY <1>1, <1>2 DEF NoRow

\* An upsert leaves a pending row with the fence it found.
LEMMA Upserted ==
  ASSUME StorageAssumption, StorageInv, NEW r \in Requests, NEW due \in 0 .. ReservationTTL, Upsert(r, due)
  PROVE  /\ cleanup' \in [Requests -> RowType]
         /\ cleanup'[r].status = "pending" /\ cleanup'[r].fenced = cleanup[r].fenced
         /\ \A x \in Requests \ {r} : cleanup'[x] = cleanup[x]
<1> DEFINE late == Later(due, cleanup[r].lease)
           row == [NoRow EXCEPT !.status = "pending", !.due = late, !.fenced = cleanup[r].fenced]
<1>1. cleanup[r].lease \in 0 .. LeaseTime /\ cleanup[r].fenced \in BOOLEAN /\ cleanup \in [Requests -> RowType]
  BY RowOf DEF RowsTyped
<1>2. late \in 0 .. Later(ReservationTTL, Later(LeaseTime, RetryTime))
  BY <1>1, Bounds DEF Later
<1> HIDE DEF late
<1>3. row \in RowType /\ row.status = "pending" /\ row.fenced = cleanup[r].fenced
  <2> DEFINE Due == 0 .. Later(ReservationTTL, Later(LeaseTime, RetryTime))
  <2>1. RowType = [status : {"none", "pending", "processing"}, due : Due, lease : 0 .. LeaseTime,
                   attempts : 0 .. MaxAttempts, owner : Dispatchers \cup {NoOne}, fenced : BOOLEAN]
    BY DEF RowType
  <2>2. NoRow \in RowType
    BY NoRowTyped
  <2> HIDE DEF Due
  <2>3. row \in RowType
    BY Zenon, <1>1, <1>2, <2>1, <2>2 DEF Due
  <2> QED
    BY <2>3 DEF NoRow
<1>4. cleanup' = [cleanup EXCEPT ![r] = row]
  BY DEF Upsert, late
<1> HIDE DEF row
<1> QED
  BY <1>1, <1>3, <1>4

\* Staging turns reserved into used bytes.
LEMMA StageStep ==
  ASSUME StorageAssumption, StorageInv, NEW r \in Requests, NEW n \in Sizes, Stage(r, n)
  PROVE  StorageInv'
<1>1. /\ RowsTyped /\ Ledger /\ Fits(quota) /\ RequestInv(r) /\ size[r] \in Nat /\ blob[r] \in BOOLEAN
      /\ reservation[r].held \in BOOLEAN /\ reservation[r].bytes \in Nat /\ reservation[r].images \in 0 .. 1
      /\ reservation[r].ttl \in 0 .. ReservationTTL
      /\ cleanup[r].status \in {"none", "pending", "processing"} /\ cleanup[r].fenced \in BOOLEAN
      /\ image[r].exists \in BOOLEAN /\ image[r].text \in Nat
      /\ quota.upload \in Nat /\ quota.text \in Nat /\ quota.images \in Nat
      /\ quota.heldBytes \in Nat /\ quota.heldImages \in Nat
  BY RowOf
<1>2. n \in Nat /\ n # 0
  BY Bounds
<1>3. /\ pc[r] = "reserved" /\ reservation[r].held /\ Upsert(r, reservation[r].ttl)
      /\ pc' = [pc EXCEPT ![r] = "staged"] /\ size' = [size EXCEPT ![r] = n]
      /\ reservation' = [reservation EXCEPT ![r].bytes = 0, ![r].bound = TRUE]
      /\ quota' = [quota EXCEPT !.upload = @ + n, !.heldBytes = @ - reservation[r].bytes]
      /\ UNCHANGED <<image, blob, worker>> /\ Fits(quota)'
  BY DEF Stage, Goto, Live, Fits
<1>4. /\ cleanup' \in [Requests -> RowType] /\ cleanup'[r].status = "pending"
      /\ \A x \in Requests \ {r} : cleanup'[x] = cleanup[x]
  BY <1>1, <1>3, Upserted
<1>5. pc'[r] = "staged" /\ size'[r] = n /\ Others(r)
  BY <1>1, <1>3, <1>4 DEF RowsTyped, Others
<1>6. /\ reservation' \in [Requests -> ReservationType] /\ reservation'[r].held = reservation[r].held
      /\ reservation'[r].bytes = 0 /\ reservation'[r].images = reservation[r].images
  BY Zenon, <1>1, <1>3 DEF RowsTyped, ReservationType
<1>7. RowsTyped'
  BY <1>1, <1>3, <1>4, <1>6 DEF RowsTyped, Steps
<1>8. /\ quota' \in [upload : Int, text : Int, images : Int, heldBytes : Int, heldImages : Int]
      /\ quota'.text = quota.text /\ quota'.images = quota.images /\ quota'.heldImages = quota.heldImages
      /\ quota'.upload = quota.upload + n /\ quota'.heldBytes = quota.heldBytes - reservation[r].bytes
  <2> DEFINE u == quota.upload + n
             b == quota.heldBytes - reservation[r].bytes
  <2>1. u \in Int /\ b \in Int
    BY <1>1, <1>2
  <2>2. quota' = [quota EXCEPT !.upload = u, !.heldBytes = b]
    BY <1>3
  <2> HIDE DEF u, b
  <2>3. /\ quota' \in [upload : Int, text : Int, images : Int, heldBytes : Int, heldImages : Int]
        /\ quota'.text = quota.text /\ quota'.images = quota.images /\ quota'.heldImages = quota.heldImages
        /\ quota'.upload = u /\ quota'.heldBytes = b
    BY Zenon, <1>1, <2>1, <2>2 DEF Ledger
  <2> QED
    BY <2>3 DEF u, b
<1>9. Counted'[r] = n /\ Counted[r] = 0
  <2>1. ~Queued(r) /\ ~image[r].exists /\ Queued(r)'
    BY <1>1, <1>3, <1>4 DEF RequestInv, Queued
  <2> QED
    BY <1>5, <2>1 DEF Counted
<1>10. Ledger'
  BY <1>1, <1>2, <1>3, <1>5, <1>6, <1>7, <1>8, <1>9, Booked DEF Others
<1>11. RequestInv(r)'
  BY <1>1, <1>2, <1>3, <1>4, <1>5, <1>6 DEF RequestInv, Queued
<1>12. ASSUME NEW d \in Dispatchers PROVE Unmoved(d) /\ GoesOn(r, d)
  BY <1>1, <1>3, <1>4 DEF Unmoved, GoesOn, Doomed, ClaimedBy, RequestInv
<1> QED
  BY <1>3, <1>5, <1>7, <1>10, <1>11, <1>12, LocalStep

\* A resize moves deadlines, and nothing that is counted.
LEMMA ResizeStep ==
  ASSUME StorageAssumption, StorageInv, NEW r \in Requests, Resize(r)
  PROVE  StorageInv'
<1>1. /\ RowsTyped /\ Ledger /\ Fits(quota) /\ RequestInv(r) /\ size[r] \in Nat /\ blob[r] \in BOOLEAN
      /\ reservation[r].held \in BOOLEAN /\ reservation[r].bytes \in Nat /\ reservation[r].images \in 0 .. 1
      /\ reservation[r].ttl \in 0 .. ReservationTTL
      /\ cleanup[r].status \in {"none", "pending", "processing"} /\ cleanup[r].fenced \in BOOLEAN
      /\ image[r].exists \in BOOLEAN /\ image[r].text \in Nat
      /\ quota.upload \in Nat /\ quota.text \in Nat /\ quota.images \in Nat
      /\ quota.heldBytes \in Nat /\ quota.heldImages \in Nat
  BY RowOf
<1> DEFINE late == Later(cleanup[r].due, ReservationTTL)
<1>2. /\ pc[r] = "stored" /\ reservation[r].held /\ Queued(r) /\ ~cleanup[r].fenced
      /\ cleanup' = [cleanup EXCEPT ![r].due = late]
      /\ reservation' = [reservation EXCEPT ![r].ttl = ReservationTTL]
      /\ pc' = [pc EXCEPT ![r] = "sized"] /\ UNCHANGED <<size, image, blob, quota, worker>>
  BY DEF Resize, Goto
<1>3. late \in 0 .. Later(ReservationTTL, Later(LeaseTime, RetryTime))
  <2>1. cleanup[r] \in RowType
    BY <1>1 DEF RowsTyped
  <2>2. cleanup[r].due \in 0 .. Later(ReservationTTL, Later(LeaseTime, RetryTime))
    BY <2>1 DEF RowType
  <2> QED
    BY <2>2, Bounds DEF Later
<1> HIDE DEF late
<1>4. /\ cleanup' \in [Requests -> RowType] /\ cleanup'[r].status = cleanup[r].status
      /\ cleanup'[r].fenced = cleanup[r].fenced /\ cleanup'[r].owner = cleanup[r].owner
  BY Zenon, <1>1, <1>2, <1>3 DEF RowsTyped, RowType
<1>5. /\ reservation' \in [Requests -> ReservationType] /\ reservation'[r].held = reservation[r].held
      /\ reservation'[r].bytes = reservation[r].bytes /\ reservation'[r].images = reservation[r].images
  <2>1. ReservationTTL \in 0 .. ReservationTTL
    BY Bounds
  <2> QED
    BY Zenon, <1>1, <1>2, <2>1 DEF RowsTyped, ReservationType
<1>6. pc'[r] = "sized" /\ Others(r)
  BY <1>1, <1>2 DEF RowsTyped, Others
<1>7. RowsTyped'
  BY <1>1, <1>2, <1>4, <1>5 DEF RowsTyped, Steps
<1>8. Ledger' /\ Fits(quota)'
  <2>1. ASSUME NEW x \in Requests
        PROVE  /\ Queued(x)' <=> Queued(x)
               /\ reservation'[x].bytes = reservation[x].bytes
               /\ reservation'[x].images = reservation[x].images
    BY <1>4, <1>5, <1>6 DEF Others, Queued
  <2> QED
    BY <1>1, <1>2, <2>1, NothingBooked DEF Fits
<1>9. RequestInv(r)'
  BY <1>1, <1>2, <1>4, <1>5, <1>6 DEF RequestInv, Queued
<1>10. ASSUME NEW d \in Dispatchers PROVE Unmoved(d) /\ GoesOn(r, d)
  BY <1>2, <1>4 DEF Unmoved, GoesOn, Doomed, ClaimedBy, Queued
<1> QED
  BY <1>6, <1>7, <1>8, <1>9, <1>10, LocalStep

\* A reference is created only while the upload's unfenced row still owns the blob.
LEMMA CommitStep ==
  ASSUME StorageAssumption, StorageInv, NEW r \in Requests, NEW n \in Sizes, CommitSingleFileIngest(r, n)
  PROVE  StorageInv'
<1>1. /\ RowsTyped /\ Ledger /\ Fits(quota) /\ RequestInv(r) /\ size[r] \in Nat /\ blob[r] \in BOOLEAN
      /\ reservation[r].held \in BOOLEAN /\ reservation[r].bytes \in Nat /\ reservation[r].images \in 0 .. 1
      /\ reservation[r].ttl \in 0 .. ReservationTTL
      /\ cleanup[r].status \in {"none", "pending", "processing"} /\ cleanup[r].fenced \in BOOLEAN
      /\ image[r].exists \in BOOLEAN /\ image[r].text \in Nat
      /\ quota.upload \in Nat /\ quota.text \in Nat /\ quota.images \in Nat
      /\ quota.heldBytes \in Nat /\ quota.heldImages \in Nat
  BY RowOf
<1> DEFINE row == [exists |-> TRUE, text |-> n]
<1>2. /\ n \in Nat /\ row \in ImageType /\ row.exists = TRUE /\ row.text = n
      /\ NoReservation \in ReservationType /\ NoReservation.held = FALSE
      /\ NoReservation.bytes = 0 /\ NoReservation.images = 0
  BY Bounds DEF ImageType, NoReservation, ReservationType
<1>3. /\ pc[r] \in {"stored", "sized"} /\ Queued(r) /\ ~cleanup[r].fenced
      /\ image' = [image EXCEPT ![r] = row] /\ cleanup' = [cleanup EXCEPT ![r] = NoRow]
      /\ reservation' = [reservation EXCEPT ![r] = NoReservation]
      /\ quota' = [Unheld(r) EXCEPT !.text = @ + n, !.images = @ + 1]
      /\ UNCHANGED <<size, blob, worker>> /\ Fits(quota)'
  BY DEF CommitSingleFileIngest, Referenceable, Fits
<1>4. PICK step \in {"release", "enqueue"} : pc' = [pc EXCEPT ![r] = step]
  BY Zenon DEF CommitSingleFileIngest, Answered, Goto
<1> HIDE DEF row
<1>5. /\ pc'[r] = step /\ image'[r] = row /\ cleanup'[r] = NoRow /\ reservation'[r] = NoReservation
      /\ Others(r)
  BY <1>1, <1>3, <1>4 DEF RowsTyped, Others
<1>6. RowsTyped'
  BY <1>1, <1>2, <1>3, <1>4, NoRowTyped DEF RowsTyped, Steps
<1>7. /\ quota' \in [upload : Int, text : Int, images : Int, heldBytes : Int, heldImages : Int]
      /\ quota'.upload = quota.upload
      /\ quota'.text = quota.text + n /\ quota'.images = quota.images + 1
      /\ quota'.heldBytes = quota.heldBytes - reservation[r].bytes
      /\ quota'.heldImages = quota.heldImages - reservation[r].images
  <2> DEFINE t == quota.text + n
             i == quota.images + 1
             b == quota.heldBytes - reservation[r].bytes
             h == quota.heldImages - reservation[r].images
  <2>1. t \in Int /\ i \in Int /\ b \in Int /\ h \in Int
    BY <1>1, <1>2
  <2>2. quota' = [quota EXCEPT !.text = t, !.images = i, !.heldBytes = b, !.heldImages = h]
    BY Zenon, <1>1, <1>3 DEF Unheld, Ledger
  <2> HIDE DEF t, i, b, h
  <2>3. /\ quota' \in [upload : Int, text : Int, images : Int, heldBytes : Int, heldImages : Int]
        /\ quota'.upload = quota.upload
        /\ quota'.text = t /\ quota'.images = i /\ quota'.heldBytes = b /\ quota'.heldImages = h
    BY Zenon, <1>1, <2>1, <2>2 DEF Ledger
  <2> QED
    BY <2>3 DEF t, i, b, h
<1>8. ~image[r].exists /\ image[r].text = 0 /\ size[r] # 0 /\ blob[r]
  BY <1>1, <1>3 DEF RequestInv
<1>9. Counted'[r] = size[r] /\ Counted[r] = size[r]
  BY <1>2, <1>3, <1>5 DEF Counted
<1>10. Ledger'
  BY <1>1, <1>2, <1>5, <1>6, <1>7, <1>8, <1>9, Booked DEF Others
<1>11. RequestInv(r)'
  BY Zenon, <1>2, <1>3, <1>5, <1>8, NoRowTyped DEF RequestInv, Queued
<1>12. ASSUME NEW d \in Dispatchers PROVE Unmoved(d) /\ GoesOn(r, d)
  BY <1>3, <1>5, NoRowTyped DEF Unmoved, GoesOn, Doomed, ClaimedBy
<1> QED
  BY <1>3, <1>5, <1>6, <1>10, <1>11, <1>12, LocalStep

\* The image's place goes from reserved to used; the row stays, the blob with it.
LEMMA EnsureStep ==
  ASSUME StorageAssumption, StorageInv, NEW r \in Requests, EnsureUploadBatchImage(r)
  PROVE  StorageInv'
<1>1. /\ RowsTyped /\ Ledger /\ Fits(quota) /\ RequestInv(r) /\ size[r] \in Nat /\ blob[r] \in BOOLEAN
      /\ reservation[r].held \in BOOLEAN /\ reservation[r].bytes \in Nat /\ reservation[r].images \in 0 .. 1
      /\ reservation[r].ttl \in 0 .. ReservationTTL
      /\ cleanup[r].status \in {"none", "pending", "processing"} /\ cleanup[r].fenced \in BOOLEAN
      /\ image[r].exists \in BOOLEAN /\ image[r].text \in Nat
      /\ quota.upload \in Nat /\ quota.text \in Nat /\ quota.images \in Nat
      /\ quota.heldBytes \in Nat /\ quota.heldImages \in Nat
  BY RowOf
<1> DEFINE row == [exists |-> TRUE, text |-> 0]
<1>2. row \in ImageType /\ row.exists = TRUE /\ row.text = 0
  BY DEF ImageType
<1>3. /\ pc[r] = "sized" /\ reservation[r].held /\ Queued(r) /\ ~cleanup[r].fenced
      /\ image' = [image EXCEPT ![r] = row] /\ reservation' = [reservation EXCEPT ![r].images = 0]
      /\ quota' = [quota EXCEPT !.images = @ + 1, !.heldImages = @ - 1]
      /\ UNCHANGED <<size, cleanup, blob, worker>>
  BY DEF EnsureUploadBatchImage, Referenceable, Live
<1>4. PICK step \in {"release", "enqueue"} : pc' = [pc EXCEPT ![r] = step]
  BY Zenon DEF EnsureUploadBatchImage, Answered, Goto
<1> HIDE DEF row
<1>5. pc'[r] = step /\ image'[r] = row /\ Others(r)
  BY <1>1, <1>3, <1>4 DEF RowsTyped, Others
<1>6. /\ reservation' \in [Requests -> ReservationType] /\ reservation'[r].held = reservation[r].held
      /\ reservation'[r].bytes = reservation[r].bytes /\ reservation'[r].images = 0
  <2>1. 0 \in 0 .. 1
    OBVIOUS
  <2> QED
    BY Zenon, <1>1, <1>3, <2>1 DEF RowsTyped, ReservationType
<1>7. RowsTyped'
  BY <1>1, <1>2, <1>3, <1>4, <1>6 DEF RowsTyped, Steps
<1>8. /\ quota' \in [upload : Int, text : Int, images : Int, heldBytes : Int, heldImages : Int]
      /\ quota'.upload = quota.upload /\ quota'.text = quota.text /\ quota'.heldBytes = quota.heldBytes
      /\ quota'.images = quota.images + 1 /\ quota'.heldImages = quota.heldImages - 1
  <2> DEFINE i == quota.images + 1
             h == quota.heldImages - 1
  <2>1. i \in Int /\ h \in Int
    BY <1>1
  <2>2. quota' = [quota EXCEPT !.images = i, !.heldImages = h]
    BY <1>3
  <2> HIDE DEF i, h
  <2>3. /\ quota' \in [upload : Int, text : Int, images : Int, heldBytes : Int, heldImages : Int]
        /\ quota'.upload = quota.upload /\ quota'.text = quota.text /\ quota'.heldBytes = quota.heldBytes
        /\ quota'.images = i /\ quota'.heldImages = h
    BY Zenon, <1>1, <2>1, <2>2 DEF Ledger
  <2> QED
    BY <2>3 DEF i, h
<1>9. ~image[r].exists /\ image[r].text = 0 /\ size[r] # 0 /\ blob[r] /\ reservation[r].images = 1
  BY <1>1, <1>3 DEF RequestInv
<1>10. Counted'[r] = size[r] /\ Counted[r] = size[r]
  BY SMTT(20), <1>2, <1>3, <1>5 DEF Counted
<1>11. Ledger'
  BY <1>1, <1>2, <1>5, <1>6, <1>7, <1>8, <1>9, <1>10, Booked DEF Others
<1>12. Fits(quota)'
  BY <1>1, <1>8, Bounds DEF Fits
<1>13. RequestInv(r)'
  BY <1>2, <1>3, <1>5, <1>6, <1>9 DEF RequestInv, Queued
<1>14. ASSUME NEW d \in Dispatchers PROVE Unmoved(d) /\ GoesOn(r, d)
  BY <1>3, <1>9 DEF Unmoved, GoesOn, Doomed, ClaimedBy
<1> QED
  BY <1>5, <1>7, <1>11, <1>12, <1>13, <1>14, LocalStep

\* Compensation puts the row back in the queue: the bytes were counted and still are.
LEMMA EnqueueStep ==
  ASSUME StorageAssumption, StorageInv, NEW r \in Requests, EnqueueUploadCleanup(r)
  PROVE  StorageInv'
<1>1. /\ RowsTyped /\ Ledger /\ Fits(quota) /\ RequestInv(r) /\ size[r] \in Nat /\ blob[r] \in BOOLEAN
      /\ reservation[r].held \in BOOLEAN /\ reservation[r].bytes \in Nat /\ reservation[r].images \in 0 .. 1
      /\ reservation[r].ttl \in 0 .. ReservationTTL
      /\ cleanup[r].status \in {"none", "pending", "processing"} /\ cleanup[r].fenced \in BOOLEAN
      /\ image[r].exists \in BOOLEAN /\ image[r].text \in Nat
      /\ quota.upload \in Nat /\ quota.text \in Nat /\ quota.images \in Nat
      /\ quota.heldBytes \in Nat /\ quota.heldImages \in Nat
  BY RowOf
<1>2. PICK step \in {"release", "done"} : pc' = [pc EXCEPT ![r] = step]
  BY Zenon DEF EnqueueUploadCleanup, Goto
<1>3. (Queued(r) \/ image[r].exists) /\ UNCHANGED <<size, reservation, image, blob, quota, worker>>
  BY DEF EnqueueUploadCleanup, InTime
<1>4. CASE cleanup' = cleanup
  <2>1. blob' = [blob EXCEPT ![r] = blob[r]] /\ step \in Steps \ {"idle", "reserved"}
    BY <1>1, <1>3 DEF RowsTyped, Steps
  <2> QED
    BY Zenon, <1>1, <1>2, <1>3, <1>4, <2>1, BlobStep
<1>5. CASE Upsert(r, 0)
  <2>1. /\ cleanup' \in [Requests -> RowType] /\ cleanup'[r].status = "pending"
        /\ cleanup'[r].fenced = cleanup[r].fenced /\ \A x \in Requests \ {r} : cleanup'[x] = cleanup[x]
    BY <1>5, Upserted, Bounds
  <2>2. pc'[r] = step /\ Others(r)
    BY <1>1, <1>2, <1>3, <2>1 DEF RowsTyped, Others
  <2>3. RowsTyped'
    BY Zenon, <1>1, <1>2, <1>3, <2>1 DEF RowsTyped, Steps
  <2>4. Counted'[r] = size[r] /\ Counted[r] = size[r]
    BY <1>3, <2>1 DEF Counted, Queued
  <2>5. Ledger' /\ Fits(quota)'
    <3>1. quota \in [upload : Int, text : Int, images : Int, heldBytes : Int, heldImages : Int]
      BY <1>1 DEF Ledger
    <3> QED
      BY <1>1, <1>3, <2>2, <2>3, <2>4, <3>1, Booked DEF Others, Fits
  <2>6. RequestInv(r)'
    BY <1>1, <1>3, <2>1, <2>2 DEF RequestInv, Queued
  <2>7. ASSUME NEW d \in Dispatchers PROVE Unmoved(d) /\ GoesOn(r, d)
    BY SMTT(20), <1>1, <1>3, <2>1 DEF Unmoved, GoesOn, Doomed, ClaimedBy, Queued
  <2> QED
    BY <2>2, <2>3, <2>5, <2>6, <2>7, LocalStep
<1> QED
  BY <1>4, <1>5 DEF EnqueueUploadCleanup

\* A release retires the row only where an image counts the bytes instead.
LEMMA ReleaseStep ==
  ASSUME StorageAssumption, StorageInv, NEW r \in Requests, Release(r)
  PROVE  StorageInv'
<1>1. /\ RowsTyped /\ Ledger /\ Fits(quota) /\ RequestInv(r) /\ size[r] \in Nat /\ blob[r] \in BOOLEAN
      /\ reservation[r].held \in BOOLEAN /\ reservation[r].bytes \in Nat /\ reservation[r].images \in 0 .. 1
      /\ reservation[r].ttl \in 0 .. ReservationTTL
      /\ cleanup[r].status \in {"none", "pending", "processing"} /\ cleanup[r].fenced \in BOOLEAN
      /\ image[r].exists \in BOOLEAN /\ image[r].text \in Nat
      /\ quota.upload \in Nat /\ quota.text \in Nat /\ quota.images \in Nat
      /\ quota.heldBytes \in Nat /\ quota.heldImages \in Nat
  BY RowOf
<1>2. /\ NoReservation \in ReservationType /\ NoReservation.held = FALSE
      /\ NoReservation.bytes = 0 /\ NoReservation.images = 0
  BY Bounds DEF NoReservation, ReservationType
<1>3. /\ pc' = [pc EXCEPT ![r] = "done"] /\ reservation' = [reservation EXCEPT ![r] = NoReservation]
      /\ quota' = Unheld(r) /\ UNCHANGED <<size, image, blob, worker>>
      /\ cleanup' = cleanup \/ (cleanup' = [cleanup EXCEPT ![r] = NoRow] /\ image[r].exists)
  BY DEF Release, Goto
<1>4. /\ pc'[r] = "done" /\ reservation'[r] = NoReservation /\ Others(r)
      /\ cleanup'[r] = cleanup[r] \/ (cleanup'[r] = NoRow /\ image[r].exists)
  BY <1>1, <1>3 DEF RowsTyped, Others
<1>5. RowsTyped'
  BY <1>1, <1>2, <1>3, NoRowTyped DEF RowsTyped, Steps
<1>6. /\ quota' \in [upload : Int, text : Int, images : Int, heldBytes : Int, heldImages : Int]
      /\ quota'.upload = quota.upload /\ quota'.text = quota.text /\ quota'.images = quota.images
      /\ quota'.heldBytes = quota.heldBytes - reservation[r].bytes
      /\ quota'.heldImages = quota.heldImages - reservation[r].images
  <2> DEFINE b == quota.heldBytes - reservation[r].bytes
             h == quota.heldImages - reservation[r].images
  <2>1. b \in Int /\ h \in Int
    BY <1>1
  <2>2. quota' = [quota EXCEPT !.heldBytes = b, !.heldImages = h]
    BY <1>3 DEF Unheld
  <2> HIDE DEF b, h
  <2>3. /\ quota' \in [upload : Int, text : Int, images : Int, heldBytes : Int, heldImages : Int]
        /\ quota'.upload = quota.upload /\ quota'.text = quota.text /\ quota'.images = quota.images
        /\ quota'.heldBytes = b /\ quota'.heldImages = h
    BY Zenon, <1>1, <2>1, <2>2 DEF Ledger
  <2> QED
    BY <2>3 DEF b, h
<1>7. Counted'[r] = Counted[r] /\ Counted[r] \in Nat
  <2>1. (Queued(r) \/ image[r].exists) <=> (Queued(r) \/ image[r].exists)'
    BY SMTT(20), <1>3, <1>4 DEF Queued
  <2> QED
    BY <1>1, <1>3, <2>1 DEF Counted
<1>8. Ledger'
  <2>1. /\ reservation'[r].bytes = 0 /\ reservation'[r].images = 0 /\ image'[r] = image[r]
        /\ \A x \in Requests \ {r} : /\ size'[x] = size[x] /\ image'[x] = image[x]
                                     /\ reservation'[x] = reservation[x] /\ cleanup'[x] = cleanup[x]
    BY <1>2, <1>3, <1>4 DEF Others
  <2> QED
    BY <1>1, <1>5, <1>6, <1>7, <2>1, Booked
<1>9. Fits(quota)'
  BY <1>1, <1>6, Bounds DEF Fits
<1>10. RequestInv(r)'
  BY Zenon, <1>1, <1>2, <1>3, <1>4, NoRowTyped DEF RequestInv, Queued
<1>11. ASSUME NEW d \in Dispatchers PROVE Unmoved(d) /\ GoesOn(r, d)
  BY <1>3, <1>4, NoRowTyped DEF Unmoved, GoesOn, Doomed, ClaimedBy, Queued
<1> QED
  BY <1>4, <1>5, <1>8, <1>9, <1>10, <1>11, LocalStep

-----------------------------------------------------------------------------
(* Committed images.                                                       *)

\* A deleted image leaves its bytes to the row that the same transaction queues.
LEMMA DeleteStep ==
  ASSUME StorageAssumption, StorageInv, NEW r \in Requests, DeleteImage(r)
  PROVE  StorageInv'
<1>1. /\ RowsTyped /\ Ledger /\ Fits(quota) /\ RequestInv(r) /\ size[r] \in Nat /\ blob[r] \in BOOLEAN
      /\ reservation[r].held \in BOOLEAN /\ reservation[r].bytes \in Nat /\ reservation[r].images \in 0 .. 1
      /\ reservation[r].ttl \in 0 .. ReservationTTL
      /\ cleanup[r].status \in {"none", "pending", "processing"} /\ cleanup[r].fenced \in BOOLEAN
      /\ image[r].exists \in BOOLEAN /\ image[r].text \in Nat
      /\ quota.upload \in Nat /\ quota.text \in Nat /\ quota.images \in Nat
      /\ quota.heldBytes \in Nat /\ quota.heldImages \in Nat
  BY RowOf
<1>2. NoImage \in ImageType /\ NoImage.exists = FALSE /\ NoImage.text = 0
  BY DEF NoImage, ImageType
<1>3. /\ image[r].exists /\ Upsert(r, 0) /\ image' = [image EXCEPT ![r] = NoImage]
      /\ quota' = [quota EXCEPT !.text = @ - image[r].text, !.images = @ - 1]
      /\ UNCHANGED <<pc, size, reservation, blob, worker>>
  BY DEF DeleteImage
<1>4. /\ cleanup' \in [Requests -> RowType] /\ cleanup'[r].status = "pending"
      /\ cleanup'[r].fenced = cleanup[r].fenced /\ \A x \in Requests \ {r} : cleanup'[x] = cleanup[x]
  BY <1>3, Upserted, Bounds
<1>5. image'[r] = NoImage /\ Others(r)
  BY <1>1, <1>3, <1>4 DEF RowsTyped, Others
<1>6. RowsTyped'
  BY Zenon, <1>1, <1>2, <1>3, <1>4 DEF RowsTyped
<1>7. /\ quota' \in [upload : Int, text : Int, images : Int, heldBytes : Int, heldImages : Int]
      /\ quota'.upload = quota.upload /\ quota'.heldBytes = quota.heldBytes /\ quota'.heldImages = quota.heldImages
      /\ quota'.text = quota.text - image[r].text /\ quota'.images = quota.images - 1
  <2> DEFINE t == quota.text - image[r].text
             i == quota.images - 1
  <2>1. t \in Int /\ i \in Int
    BY <1>1
  <2>2. quota' = [quota EXCEPT !.text = t, !.images = i]
    BY <1>3
  <2> HIDE DEF t, i
  <2>3. /\ quota' \in [upload : Int, text : Int, images : Int, heldBytes : Int, heldImages : Int]
        /\ quota'.upload = quota.upload /\ quota'.heldBytes = quota.heldBytes /\ quota'.heldImages = quota.heldImages
        /\ quota'.text = t /\ quota'.images = i
    BY Zenon, <1>1, <2>1, <2>2 DEF Ledger
  <2> QED
    BY <2>3 DEF t, i
<1>8. Counted'[r] = size[r] /\ Counted[r] = size[r]
  BY <1>3, <1>4 DEF Counted, Queued
<1>9. Ledger'
  BY <1>1, <1>2, <1>3, <1>5, <1>6, <1>7, <1>8, Booked DEF Others
<1>10. Fits(quota)'
  BY <1>1, <1>7, Bounds DEF Fits
<1>11. RequestInv(r)'
  BY <1>1, <1>2, <1>3, <1>4, <1>5 DEF RequestInv, Queued
<1>12. ASSUME NEW d \in Dispatchers PROVE Unmoved(d) /\ GoesOn(r, d)
  BY <1>3, <1>4 DEF Unmoved, GoesOn, Doomed, ClaimedBy
<1> QED
  BY <1>5, <1>6, <1>9, <1>10, <1>11, <1>12, LocalStep

\* Text that grows is checked against the limits, text that shrinks fits anyway.
LEMMA SaveStep ==
  ASSUME StorageAssumption, StorageInv, NEW r \in Requests, NEW n \in Sizes, SaveText(r, n)
  PROVE  StorageInv'
<1>1. /\ RowsTyped /\ Ledger /\ Fits(quota) /\ RequestInv(r) /\ size[r] \in Nat /\ blob[r] \in BOOLEAN
      /\ reservation[r].held \in BOOLEAN /\ reservation[r].bytes \in Nat /\ reservation[r].images \in 0 .. 1
      /\ reservation[r].ttl \in 0 .. ReservationTTL
      /\ cleanup[r].status \in {"none", "pending", "processing"} /\ cleanup[r].fenced \in BOOLEAN
      /\ image[r].exists \in BOOLEAN /\ image[r].text \in Nat
      /\ quota.upload \in Nat /\ quota.text \in Nat /\ quota.images \in Nat
      /\ quota.heldBytes \in Nat /\ quota.heldImages \in Nat
  BY RowOf
<1>2. n \in Nat
  BY Bounds
<1>3. /\ image[r].exists /\ image' = [image EXCEPT ![r].text = n]
      /\ quota' = [quota EXCEPT !.text = @ - image[r].text + n] /\ (n > image[r].text => Fits(quota)')
      /\ UNCHANGED <<pc, size, reservation, cleanup, blob, worker>>
  BY DEF SaveText, Fits
<1>4. image' \in [Requests -> ImageType] /\ image'[r].exists = image[r].exists /\ image'[r].text = n
  BY Zenon, <1>1, <1>3 DEF RowsTyped, ImageType
<1>5. Others(r)
  BY <1>1, <1>3 DEF RowsTyped, Others
<1>6. RowsTyped'
  BY <1>1, <1>3, <1>4 DEF RowsTyped
<1>7. /\ quota' \in [upload : Int, text : Int, images : Int, heldBytes : Int, heldImages : Int]
      /\ quota'.upload = quota.upload /\ quota'.images = quota.images
      /\ quota'.heldBytes = quota.heldBytes /\ quota'.heldImages = quota.heldImages
      /\ quota'.text = quota.text - image[r].text + n
  <2> DEFINE t == quota.text - image[r].text + n
  <2>1. t \in Int
    BY <1>1, <1>2
  <2>2. quota' = [quota EXCEPT !.text = t]
    BY <1>3
  <2> HIDE DEF t
  <2>3. /\ quota' \in [upload : Int, text : Int, images : Int, heldBytes : Int, heldImages : Int]
        /\ quota'.upload = quota.upload /\ quota'.images = quota.images
        /\ quota'.heldBytes = quota.heldBytes /\ quota'.heldImages = quota.heldImages
        /\ quota'.text = t
    BY <1>1, <2>1, <2>2 DEF Ledger
  <2> QED
    BY <2>3 DEF t
<1>8. Counted'[r] = Counted[r] /\ Counted[r] \in Nat
  BY <1>1, <1>3, <1>4 DEF Counted, Queued
<1>9. Ledger'
  BY <1>1, <1>2, <1>3, <1>4, <1>5, <1>6, <1>7, <1>8, Booked DEF Others
<1>10. Fits(quota)'
  BY <1>1, <1>2, <1>3, <1>7, Bounds DEF Fits
<1>11. RequestInv(r)'
  BY <1>1, <1>3, <1>4 DEF RequestInv, Queued
<1>12. ASSUME NEW d \in Dispatchers PROVE Unmoved(d) /\ GoesOn(r, d)
  BY <1>3, <1>4 DEF Unmoved, GoesOn, Doomed, ClaimedBy, Queued
<1> QED
  BY <1>5, <1>6, <1>9, <1>10, <1>11, <1>12, LocalStep

\* The sweep frees what the expired reservations held, all of them at once.
LEMMA SweepStep ==
  ASSUME StorageAssumption, StorageInv, Sweep
  PROVE  StorageInv'
<1> DEFINE bytes == [r \in Requests |-> IF Expired(r) THEN reservation[r].bytes ELSE 0]
           images == [r \in Requests |-> IF Expired(r) THEN reservation[r].images ELSE 0]
<1>1. /\ RowsTyped /\ Ledger /\ Fits(quota) /\ IsFiniteSet(Requests)
      /\ quota.upload \in Nat /\ quota.text \in Nat /\ quota.images \in Nat
      /\ quota.heldBytes \in Nat /\ quota.heldImages \in Nat
  <2>1. RowsTyped /\ Ledger /\ Fits(quota)
    BY DEF StorageInv
  <2>2. quota \in [upload : Nat, text : Nat, images : Nat, heldBytes : Nat, heldImages : Nat]
    BY <2>1, LedgerTypes
  <2> QED
    BY <2>1, <2>2, Bounds
<1>2. /\ NoReservation \in ReservationType /\ NoReservation.held = FALSE
      /\ NoReservation.bytes = 0 /\ NoReservation.images = 0
  BY Bounds DEF NoReservation, ReservationType
<1>3. /\ quota' = [quota EXCEPT !.heldBytes = @ - SumFunction(bytes), !.heldImages = @ - SumFunction(images)]
      /\ reservation' = [r \in Requests |-> IF Expired(r) THEN NoReservation ELSE reservation[r]]
      /\ UNCHANGED <<pc, size, cleanup, image, blob, worker>>
  BY DEF Sweep
<1>4. RowsTyped'
  BY <1>1, <1>2, <1>3 DEF RowsTyped
<1>5. /\ HeldBytes \in [Requests -> Nat] /\ HeldImages \in [Requests -> Nat]
      /\ HeldBytes' \in [Requests -> Nat] /\ HeldImages' \in [Requests -> Nat]
  <2>1. Sizes \cup {0} \subseteq Nat
    BY Bounds
  <2> QED
    BY <1>1, <1>4, <2>1 DEF RowsTyped, HeldBytes, HeldImages, ReservationType
<1>6. /\ bytes \in [Requests -> Nat] /\ images \in [Requests -> Nat]
      /\ \A r \in Requests : HeldBytes[r] = HeldBytes'[r] + bytes[r]
      /\ \A r \in Requests : HeldImages[r] = HeldImages'[r] + images[r]
  <2>1. ASSUME NEW r \in Requests
        PROVE  /\ bytes[r] \in Nat /\ images[r] \in Nat
               /\ HeldBytes[r] = HeldBytes'[r] + bytes[r] /\ HeldImages[r] = HeldImages'[r] + images[r]
    <3>1. /\ HeldBytes[r] = reservation[r].bytes /\ HeldBytes'[r] = reservation'[r].bytes
          /\ HeldImages[r] = reservation[r].images /\ HeldImages'[r] = reservation'[r].images
      BY DEF HeldBytes, HeldImages
    <3>2. HeldBytes[r] \in Nat /\ HeldImages[r] \in Nat
      BY <1>5
    <3>3. reservation'[r] = IF Expired(r) THEN NoReservation ELSE reservation[r]
      BY <1>3
    <3> QED
      BY <1>2, <3>1, <3>2, <3>3
  <2> QED
    BY <2>1
<1> HIDE DEF bytes, images
<1>7. /\ SumFunction(HeldBytes) = SumFunction(HeldBytes') + SumFunction(bytes)
      /\ SumFunction(HeldImages) = SumFunction(HeldImages') + SumFunction(images)
  <2>1. /\ HeldBytes \in [Requests -> Int] /\ HeldBytes' \in [Requests -> Int] /\ bytes \in [Requests -> Int]
        /\ HeldImages \in [Requests -> Int] /\ HeldImages' \in [Requests -> Int] /\ images \in [Requests -> Int]
    BY <1>5, <1>6
  <2> QED
    BY <1>1, <1>6, <2>1, SumAdds
<1>8. /\ SumFunction(bytes) \in Nat /\ SumFunction(images) \in Nat
      /\ SumFunction(HeldBytes') \in Nat /\ SumFunction(HeldImages') \in Nat
  BY <1>1, <1>5, <1>6, SumNatural
<1>9. Ledger' /\ Fits(quota)'
  <2> DEFINE b == quota.heldBytes - SumFunction(bytes)
             h == quota.heldImages - SumFunction(images)
  <2>1. b \in Int /\ h \in Int /\ quota' = [quota EXCEPT !.heldBytes = b, !.heldImages = h]
    BY <1>1, <1>3, <1>8
  <2>2. b = SumFunction(HeldBytes') /\ h = SumFunction(HeldImages')
    BY <1>1, <1>7, <1>8 DEF Ledger
  <2>3. b <= quota.heldBytes /\ h <= quota.heldImages
    BY <1>1, <1>8
  <2> HIDE DEF b, h
  <2>4. /\ quota' \in [upload : Int, text : Int, images : Int, heldBytes : Int, heldImages : Int]
        /\ quota'.upload = quota.upload /\ quota'.text = quota.text /\ quota'.images = quota.images
        /\ quota'.heldBytes = b /\ quota'.heldImages = h
    BY Zenon, <1>1, <2>1 DEF Ledger
  <2>5. Counted' = Counted /\ Texts' = Texts /\ Existing' = Existing
    BY <1>3 DEF Counted, Texts, Existing, Queued
  <2>6. Ledger'
    BY <1>1, <2>2, <2>4, <2>5 DEF Ledger
  <2> QED
    BY <1>1, <2>1, <2>3, <2>4, <2>6, Bounds DEF Fits
<1>10. ASSUME NEW r \in Requests PROVE RequestInv(r)'
  <2>1. RequestInv(r)
    BY DEF StorageInv
  <2>2. reservation'[r] = NoReservation \/ reservation'[r] = reservation[r]
    BY <1>3
  <2> QED
    BY <1>2, <1>3, <2>1, <2>2 DEF RequestInv, Queued
<1>11. ASSUME NEW d \in Dispatchers PROVE WorkerInv(d)'
  <2>1. Unmoved(d) /\ \A r \in Requests : GoesOn(r, d)
    BY <1>3 DEF Unmoved, GoesOn, Doomed, ClaimedBy, Queued
  <2> QED
    BY <2>1, WorkerKept
<1> QED
  BY <1>4, <1>9, <1>10, <1>11 DEF StorageInv

-----------------------------------------------------------------------------
(* The clock and the dispatchers.                                          *)

\* Steps that only move clocks, claims and dispatchers: rows stay or stay away,
\* fences stay, and no dispatcher but one that is looked at gains a claim.
LEMMA QueueStep ==
  ASSUME StorageAssumption, StorageInv, RowsTyped', UNCHANGED <<pc, size, image, blob, quota>>,
         \A r \in Requests : /\ Queued(r)' <=> Queued(r)
                             /\ cleanup'[r].fenced = cleanup[r].fenced
                             /\ reservation'[r].held = reservation[r].held
                             /\ reservation'[r].bytes = reservation[r].bytes
                             /\ reservation'[r].images = reservation[r].images,
         \A d \in Dispatchers : \/ WorkerInv(d)'
                                \/ Unmoved(d) /\ \A r \in Requests : ClaimedBy(r, d)' => ClaimedBy(r, d)
  PROVE  StorageInv'
<1>1. Ledger' /\ Fits(quota)'
  BY SMTT(20), NothingBooked DEF StorageInv, Fits
<1>2. ASSUME NEW r \in Requests PROVE RequestInv(r)'
  <2>1. RequestInv(r)
    BY DEF StorageInv
  <2> QED
    BY <2>1 DEF RequestInv
<1>3. ASSUME NEW d \in Dispatchers PROVE WorkerInv(d)'
  <2>1. CASE Unmoved(d) /\ \A r \in Requests : ClaimedBy(r, d)' => ClaimedBy(r, d)
    <3>1. ASSUME NEW r \in Requests PROVE GoesOn(r, d)
      BY <2>1 DEF GoesOn, Doomed
    <3> QED
      BY <2>1, <3>1, WorkerKept
  <2> QED
    BY <2>1
<1> QED
  BY <1>1, <1>2, <1>3 DEF StorageInv

\* A clock that has not run out shows a time of its type a tick later.
LEMMA EarlierTyped ==
  ASSUME NEW n \in Nat, NEW t \in 0 .. n
  PROVE  Earlier(t) \in 0 .. n
BY DEF Earlier

\* A tick moves clocks.
LEMMA TickStep ==
  ASSUME StorageAssumption, StorageInv, Tick
  PROVE  StorageInv'
<1> DEFINE last == Later(ReservationTTL, Later(LeaseTime, RetryTime))
<1>1. /\ reservation' = [r \in Requests |-> [reservation[r] EXCEPT !.ttl = Earlier(@)]]
      /\ cleanup' = [r \in Requests |-> [cleanup[r] EXCEPT !.due = Earlier(@), !.lease = Earlier(@)]]
      /\ worker' = [d \in Dispatchers |-> [worker[d] EXCEPT !.left = Earlier(@)]]
      /\ UNCHANGED <<pc, size, image, blob, quota>>
  BY Zenon DEF Tick
<1>2. RowsTyped /\ last \in Nat /\ ReservationTTL \in Nat /\ LeaseTime \in Nat /\ OperationTime \in Nat
  BY Bounds DEF StorageInv, Later
<1>3. ASSUME NEW r \in Requests
      PROVE  /\ reservation'[r] \in ReservationType /\ reservation'[r].held = reservation[r].held
             /\ reservation'[r].bytes = reservation[r].bytes /\ reservation'[r].images = reservation[r].images
  <2>1. reservation[r] \in ReservationType
    BY <1>2 DEF RowsTyped
  <2>2. Earlier(reservation[r].ttl) \in 0 .. ReservationTTL
    BY <1>2, <2>1, EarlierTyped DEF ReservationType
  <2>3. reservation'[r] = [reservation[r] EXCEPT !.ttl = Earlier(reservation[r].ttl)]
    BY Zenon, <1>1
  <2> QED
    BY <2>1, <2>2, <2>3 DEF ReservationType
<1>4. ASSUME NEW r \in Requests
      PROVE  /\ cleanup'[r] \in RowType /\ cleanup'[r].status = cleanup[r].status
             /\ cleanup'[r].fenced = cleanup[r].fenced /\ cleanup'[r].owner = cleanup[r].owner
  <2>1. cleanup[r] \in RowType
    BY <1>2 DEF RowsTyped
  <2>2. cleanup[r].due \in 0 .. last /\ cleanup[r].lease \in 0 .. LeaseTime
    BY <2>1 DEF RowType
  <2>3. Earlier(cleanup[r].due) \in 0 .. last /\ Earlier(cleanup[r].lease) \in 0 .. LeaseTime
    BY <1>2, <2>2, EarlierTyped
  <2>4. cleanup'[r] = [cleanup[r] EXCEPT !.due = Earlier(cleanup[r].due), !.lease = Earlier(cleanup[r].lease)]
    BY Zenon, <1>1
  <2> QED
    BY Zenon, <2>1, <2>3, <2>4 DEF RowType
<1>5. ASSUME NEW d \in Dispatchers
      PROVE  worker'[d] \in WorkerType /\ worker'[d].pc = worker[d].pc /\ worker'[d].key = worker[d].key
  <2>1. worker[d] \in WorkerType
    BY <1>2 DEF RowsTyped
  <2>2. Earlier(worker[d].left) \in 0 .. OperationTime
    BY <1>2, <2>1, EarlierTyped DEF WorkerType
  <2>3. worker'[d] = [worker[d] EXCEPT !.left = Earlier(worker[d].left)]
    BY Zenon, <1>1
  <2> QED
    BY <2>1, <2>2, <2>3 DEF WorkerType
<1>6. RowsTyped'
  <2>1. reservation' \in [Requests -> ReservationType]
    BY Zenon, <1>1, <1>3
  <2>2. cleanup' \in [Requests -> RowType]
    BY Zenon, <1>1, <1>4
  <2>3. worker' \in [Dispatchers -> WorkerType]
    BY Zenon, <1>1, <1>5
  <2> QED
    BY Zenon, <1>1, <1>2, <2>1, <2>2, <2>3 DEF RowsTyped
<1>7. \A r \in Requests : /\ Queued(r)' <=> Queued(r)
                          /\ cleanup'[r].fenced = cleanup[r].fenced
                          /\ reservation'[r].held = reservation[r].held
                          /\ reservation'[r].bytes = reservation[r].bytes
                          /\ reservation'[r].images = reservation[r].images
  BY <1>3, <1>4 DEF Queued
<1>8. \A d \in Dispatchers : Unmoved(d) /\ \A r \in Requests : ClaimedBy(r, d)' => ClaimedBy(r, d)
  BY <1>4, <1>5 DEF Unmoved, ClaimedBy
<1> QED
  BY Zenon, <1>1, <1>6, <1>7, <1>8, QueueStep

\* Recovering an exhausted row keeps it, its fence, and at most its claim.
LEMMA Recovered ==
  ASSUME StorageAssumption, NEW row \in RowType
  PROVE  /\ Recover(row) \in RowType /\ (Recover(row).status = "none" <=> row.status = "none")
         /\ Recover(row).fenced = row.fenced
         /\ Recover(row).status = "processing" => row.status = "processing" /\ Recover(row).owner = row.owner
<1> DEFINE Due == 0 .. Later(ReservationTTL, Later(LeaseTime, RetryTime))
           back == [row EXCEPT !.status = "pending", !.due = RetryTime, !.owner = NoOne]
<1>1. RetryTime \in Due
  BY Bounds
<1>2. RowType = [status : {"none", "pending", "processing"}, due : Due, lease : 0 .. LeaseTime,
                 attempts : 0 .. MaxAttempts, owner : Dispatchers \cup {NoOne}, fenced : BOOLEAN]
  BY DEF RowType
<1> HIDE DEF Due
<1>3. back \in RowType /\ back.status = "pending" /\ back.fenced = row.fenced
  BY Zenon, <1>1, <1>2
<1>4. Recover(row) = row \/ (Recover(row) = back /\ row.status = "processing")
  BY DEF Recover
<1> HIDE DEF back
<1> QED
  BY <1>3, <1>4

\* A claim gives a row to a dispatcher that does nothing yet, or only recovers
\* exhausted rows.
LEMMA ClaimStep ==
  ASSUME StorageAssumption, StorageInv, NEW d \in Dispatchers, ClaimResourceCleanup(d)
  PROVE  StorageInv'
<1> DEFINE rows == [r \in Requests |-> Recover(cleanup[r])]
<1>1. RowsTyped /\ cleanup \in [Requests -> RowType] /\ worker \in [Dispatchers -> WorkerType]
  BY DEF StorageInv, RowsTyped
<1>2. UNCHANGED <<pc, size, reservation, image, blob, quota>>
  BY Zenon DEF ClaimResourceCleanup
<1>3. /\ rows \in [Requests -> RowType]
      /\ \A r \in Requests : /\ rows[r].status = "none" <=> cleanup[r].status = "none"
                             /\ rows[r].fenced = cleanup[r].fenced
                             /\ rows[r].status = "processing" =>
                                  cleanup[r].status = "processing" /\ rows[r].owner = cleanup[r].owner
  <2>1. ASSUME NEW r \in Requests
        PROVE  /\ rows[r] \in RowType /\ (rows[r].status = "none" <=> cleanup[r].status = "none")
               /\ rows[r].fenced = cleanup[r].fenced
               /\ rows[r].status = "processing" =>
                    cleanup[r].status = "processing" /\ rows[r].owner = cleanup[r].owner
    <3>1. cleanup[r] \in RowType /\ rows[r] = Recover(cleanup[r])
      BY <1>1
    <3> HIDE DEF rows
    <3> QED
      BY <3>1, Recovered
  <2> QED
    BY <2>1
<1>4. \/ /\ \E r \in Requests :
              /\ Claimable(rows[r])
              /\ cleanup' = [rows EXCEPT ![r].status = "processing", ![r].lease = LeaseTime,
                                         ![r].attempts = More(@), ![r].owner = d]
              /\ worker' = [worker EXCEPT ![d] = [pc |-> "begin", key |-> r, left |-> OperationTime]]
      \/ cleanup' = rows /\ worker' = worker
  BY Zenon DEF ClaimResourceCleanup
<1> HIDE DEF rows
<1>5. CASE cleanup' = rows /\ worker' = worker
  <2>1. RowsTyped'
    BY <1>1, <1>2, <1>3, <1>5 DEF RowsTyped
  <2>2. \A r \in Requests : /\ Queued(r)' <=> Queued(r)
                            /\ cleanup'[r].fenced = cleanup[r].fenced
                            /\ reservation'[r].held = reservation[r].held
                            /\ reservation'[r].bytes = reservation[r].bytes
                            /\ reservation'[r].images = reservation[r].images
    BY <1>2, <1>3, <1>5 DEF Queued
  <2>3. \A e \in Dispatchers : Unmoved(e) /\ \A r \in Requests : ClaimedBy(r, e)' => ClaimedBy(r, e)
    BY <1>3, <1>5 DEF Unmoved, ClaimedBy
  <2> QED
    BY <1>2, <2>1, <2>2, <2>3, QueueStep
<1>6. ASSUME NEW r \in Requests, Claimable(rows[r]),
             cleanup' = [rows EXCEPT ![r].status = "processing", ![r].lease = LeaseTime,
                                     ![r].attempts = More(@), ![r].owner = d],
             worker' = [worker EXCEPT ![d] = [pc |-> "begin", key |-> r, left |-> OperationTime]]
      PROVE  StorageInv'
  <2> DEFINE more == More(rows[r].attempts)
             row == [rows[r] EXCEPT !.status = "processing", !.lease = LeaseTime, !.attempts = more, !.owner = d]
  <2>1. rows[r] \in RowType
    BY <1>3
  <2>2. LeaseTime \in 0 .. LeaseTime /\ more \in 0 .. MaxAttempts
    <3>1. rows[r].attempts \in 0 .. MaxAttempts
      BY <2>1 DEF RowType
    <3> QED
      BY <3>1, Bounds DEF More
  <2>3. cleanup' = [rows EXCEPT ![r] = row]
    BY Zenon, <1>3, <1>6
  <2> HIDE DEF more
  <2>4. row \in RowType /\ row.status = "processing" /\ row.owner = d /\ row.fenced = rows[r].fenced
    BY Zenon, <2>1, <2>2 DEF RowType
  <2> HIDE DEF row
  <2>5. /\ cleanup' \in [Requests -> RowType] /\ cleanup'[r] = row
        /\ \A x \in Requests \ {r} : cleanup'[x] = rows[x]
    BY <1>3, <2>3, <2>4
  <2>6. /\ worker' \in [Dispatchers -> WorkerType] /\ worker'[d].pc = "begin" /\ worker'[d].key = r
        /\ \A e \in Dispatchers \ {d} : worker'[e] = worker[e]
    <3>1. OperationTime \in 0 .. OperationTime
      BY Bounds
    <3>2. [pc |-> "begin", key |-> r, left |-> OperationTime] \in WorkerType
      BY <3>1 DEF WorkerType
    <3> QED
      BY <1>1, <1>6, <3>2
  <2>7. RowsTyped'
    BY <1>1, <1>2, <2>5, <2>6 DEF RowsTyped
  <2>8. rows[r].status # "none"
    BY <1>6 DEF Claimable
  <2>9. \A x \in Requests : /\ Queued(x)' <=> Queued(x)
                            /\ cleanup'[x].fenced = cleanup[x].fenced
                            /\ reservation'[x].held = reservation[x].held
                            /\ reservation'[x].bytes = reservation[x].bytes
                            /\ reservation'[x].images = reservation[x].images
    BY <1>2, <1>3, <2>4, <2>5, <2>8 DEF Queued
  <2>10. WorkerInv(d)'
    BY <2>6 DEF WorkerInv
  <2>11. \A e \in Dispatchers \ {d} : Unmoved(e) /\ \A x \in Requests : ClaimedBy(x, e)' => ClaimedBy(x, e)
    BY <1>3, <2>4, <2>5, <2>6 DEF Unmoved, ClaimedBy
  <2> QED
    BY <1>2, <2>7, <2>9, <2>10, <2>11, QueueStep
<1> QED
  BY Zenon, <1>4, <1>5, <1>6

\* The upload of a busy dispatcher, and what its next step leaves in the pool.
LEMMA Busy ==
  ASSUME StorageAssumption, StorageInv, NEW d \in Dispatchers, worker[d].pc # "idle"
  PROVE  worker[d].key \in Requests /\ worker[d] \in WorkerType /\ worker \in [Dispatchers -> WorkerType]
BY DEF StorageInv, RowsTyped, WorkerInv

\* A dispatcher that returns to the pool carries nothing.
LEMMA IdleTyped ==
  ASSUME StorageAssumption, NEW d \in Dispatchers, worker \in [Dispatchers -> WorkerType],
         worker' = [worker EXCEPT ![d] = Idle]
  PROVE  /\ worker' \in [Dispatchers -> WorkerType] /\ WorkerInv(d)'
         /\ \A e \in Dispatchers \ {d} : Unmoved(e)
<1>1. 0 \in 0 .. OperationTime
  BY Bounds
<1>2. Idle \in WorkerType /\ Idle.pc = "idle"
  BY <1>1 DEF Idle, WorkerType
<1> QED
  BY <1>2 DEF WorkerInv, Unmoved

\* A dispatcher that goes on keeps its upload.
LEMMA Becomes ==
  ASSUME NEW d \in Dispatchers, worker \in [Dispatchers -> WorkerType],
         NEW step \in {"delete", "complete", "keep", "retry"}, Become(d, step)
  PROVE  /\ worker' \in [Dispatchers -> WorkerType]
         /\ worker'[d].pc = step /\ worker'[d].key = worker[d].key
         /\ \A e \in Dispatchers \ {d} : Unmoved(e)
BY DEF Become, WorkerType, Unmoved

\* The first transaction of a cleanup fences the upload unless an image has it.
LEMMA BeginStep ==
  ASSUME StorageAssumption, StorageInv, NEW d \in Dispatchers, BeginUploadBlobRetirement(d)
  PROVE  StorageInv'
<1>0. PICK r \in Requests : r = worker[d].key
  BY Busy DEF BeginUploadBlobRetirement
<1>1. /\ worker[d].pc = "begin" /\ UNCHANGED <<pc, size, reservation, image, blob, quota>>
      /\ \/ Become(d, "retry") /\ UNCHANGED cleanup
         \/ Owns(d) /\ image[r].exists /\ Become(d, "keep") /\ UNCHANGED cleanup
         \/ /\ Owns(d) /\ (~image[r].exists \/ cleanup[r].fenced) /\ Become(d, "delete")
            /\ cleanup' = [cleanup EXCEPT ![r].fenced = TRUE]
  BY <1>0 DEF BeginUploadBlobRetirement
<1>2. worker \in [Dispatchers -> WorkerType]
  BY <1>1, Busy
<1>3. RowsTyped /\ Ledger /\ Fits(quota) /\ RequestInv(r) /\ image[r].exists \in BOOLEAN
  BY RowOf
<1>4. ASSUME NEW step \in {"retry", "keep"}, Become(d, step), UNCHANGED cleanup,
             step = "keep" => image[r].exists
      PROVE  StorageInv'
  <2>1. /\ worker' \in [Dispatchers -> WorkerType] /\ worker'[d].pc = step /\ worker'[d].key = r
        /\ \A e \in Dispatchers \ {d} : Unmoved(e)
    BY <1>0, <1>2, <1>4, Becomes
  <2>2. RowsTyped'
    BY <1>1, <1>3, <1>4, <2>1 DEF RowsTyped
  <2>3. WorkerInv(d)'
    BY <1>1, <1>2, <1>4, <2>1 DEF WorkerInv
  <2>4. \A e \in Dispatchers \ {d} : \A x \in Requests : ClaimedBy(x, e)' => ClaimedBy(x, e)
    BY <1>4 DEF ClaimedBy
  <2>5. \A x \in Requests : /\ Queued(x)' <=> Queued(x)
                            /\ cleanup'[x].fenced = cleanup[x].fenced
                            /\ reservation'[x].held = reservation[x].held
                            /\ reservation'[x].bytes = reservation[x].bytes
                            /\ reservation'[x].images = reservation[x].images
    BY <1>1, <1>4 DEF Queued
  <2> QED
    BY <1>1, <2>1, <2>2, <2>3, <2>4, <2>5, QueueStep
<1>5. ASSUME Owns(d), ~image[r].exists \/ cleanup[r].fenced, Become(d, "delete"),
             cleanup' = [cleanup EXCEPT ![r].fenced = TRUE]
      PROVE  StorageInv'
  <2>1. /\ worker' \in [Dispatchers -> WorkerType] /\ worker'[d].pc = "delete" /\ worker'[d].key = r
        /\ \A e \in Dispatchers \ {d} : Unmoved(e)
    BY <1>0, <1>2, <1>5, Becomes
  <2>2. /\ cleanup' \in [Requests -> RowType] /\ cleanup'[r].fenced = TRUE
        /\ cleanup'[r].status = cleanup[r].status /\ cleanup'[r].owner = cleanup[r].owner
        /\ \A x \in Requests \ {r} : cleanup'[x] = cleanup[x]
    BY Zenon, <1>2, <1>3, <1>5 DEF RowsTyped, RowType
  <2>3. RowsTyped'
    BY <1>1, <1>3, <2>1, <2>2 DEF RowsTyped
  <2>4. cleanup[r].status = "processing"
    BY <1>0, <1>5 DEF Owns
  <2>5. size[r] # 0 /\ ~image[r].exists
    BY <1>3, <1>5, <2>4 DEF RequestInv, Queued
  <2>6. Ledger' /\ Fits(quota)'
    <3>1. \A x \in Requests : /\ Queued(x)' <=> Queued(x)
                              /\ reservation'[x].bytes = reservation[x].bytes
                              /\ reservation'[x].images = reservation[x].images
      BY <1>1, <2>2 DEF Queued
    <3> QED
      BY <1>1, <1>3, <3>1, NothingBooked DEF Fits
  <2>7. Others(r)
    BY <1>1, <2>2 DEF Others
  <2>8. RequestInv(r)'
    BY <1>1, <1>3, <2>2, <2>4, <2>5 DEF RequestInv, Queued
  <2>9. WorkerInv(d)'
    BY <1>1, <1>2, <2>1, <2>2, <2>5 DEF WorkerInv, Doomed
  <2>10. \A e \in Dispatchers : GoesOn(r, e)
    BY <1>1, <2>2 DEF GoesOn, Doomed, ClaimedBy, Queued
  <2> QED
    BY <1>2, <2>1, <2>3, <2>6, <2>7, <2>8, <2>9, <2>10, LocalStep
<1> QED
  BY <1>1, <1>4, <1>5

\* Only a doomed upload's blob is deleted.
LEMMA BlobGone ==
  ASSUME StorageAssumption, StorageInv, NEW d \in Dispatchers, worker[d].pc = "delete",
         NEW step \in {"complete", "retry"}, Become(d, step),
         blob' = [blob EXCEPT ![worker[d].key] = FALSE],
         UNCHANGED <<pc, size, reservation, cleanup, image, quota>>
  PROVE  StorageInv'
<1>0. PICK r \in Requests : r = worker[d].key
  BY Busy
<1>1. worker \in [Dispatchers -> WorkerType]
  BY Busy
<1>2. Doomed(r)
  BY <1>0 DEF StorageInv, WorkerInv
<1>3. blob' = [blob EXCEPT ![r] = FALSE]
  BY <1>0
<1>4. /\ worker' \in [Dispatchers -> WorkerType] /\ worker'[d].pc = step /\ worker'[d].key = r
      /\ \A e \in Dispatchers \ {d} : Unmoved(e)
  BY <1>0, <1>1, Becomes
<1>5. RowsTyped /\ Ledger /\ Fits(quota) /\ RequestInv(r)
  BY RowOf
<1>6. blob' \in [Requests -> BOOLEAN] /\ blob'[r] = FALSE /\ Others(r)
  BY Zenon, <1>1, <1>3, <1>5 DEF RowsTyped, Others
<1>7. RowsTyped'
  BY <1>4, <1>5, <1>6 DEF RowsTyped
<1>8. Ledger' /\ Fits(quota)'
  BY <1>5, NothingBooked DEF Fits, Queued
<1>9. RequestInv(r)'
  BY <1>2, <1>5, <1>6 DEF RequestInv, Doomed, Queued
<1>10. WorkerInv(d)'
  BY <1>1, <1>2, <1>4, <1>6 DEF WorkerInv, Doomed, Queued
<1>11. \A e \in Dispatchers : GoesOn(r, e)
  BY <1>6 DEF GoesOn, Doomed, ClaimedBy, Queued
<1> QED
  BY <1>1, <1>4, <1>6, <1>7, <1>8, <1>9, <1>10, <1>11, LocalStep

\* The last transaction of a deletion removes the row and its bytes together.
LEMMA CompleteFencedStep ==
  ASSUME StorageAssumption, StorageInv, NEW d \in Dispatchers, CompleteFenced(d)
  PROVE  StorageInv'
<1>0. PICK r \in Requests : r = worker[d].key
  BY Busy DEF CompleteFenced
<1>1. /\ RowsTyped /\ Ledger /\ Fits(quota) /\ RequestInv(r) /\ size[r] \in Nat /\ blob[r] \in BOOLEAN
      /\ reservation[r].held \in BOOLEAN /\ reservation[r].bytes \in Nat /\ reservation[r].images \in 0 .. 1
      /\ image[r].exists \in BOOLEAN /\ image[r].text \in Nat
      /\ quota.upload \in Nat /\ quota.text \in Nat /\ quota.images \in Nat
      /\ quota.heldBytes \in Nat /\ quota.heldImages \in Nat
  BY RowOf
<1>2. /\ worker[d].pc = "complete" /\ worker' = [worker EXCEPT ![d] = Idle]
      /\ UNCHANGED <<pc, size, reservation, image, blob>>
      /\ \/ UNCHANGED <<cleanup, quota>>
         \/ /\ Owns(d) /\ cleanup' = [cleanup EXCEPT ![r] = NoRow]
            /\ quota' = [quota EXCEPT !.upload = @ - size[r]]
  BY <1>0 DEF CompleteFenced
<1>3. worker \in [Dispatchers -> WorkerType] /\ Doomed(r) /\ ~blob[r]
  BY <1>0, <1>2 DEF StorageInv, RowsTyped, WorkerInv
<1>4. /\ worker' \in [Dispatchers -> WorkerType] /\ WorkerInv(d)'
      /\ \A e \in Dispatchers \ {d} : Unmoved(e)
  BY Zenon, <1>2, <1>3, IdleTyped
<1>5. CASE UNCHANGED <<cleanup, quota>>
  <2>1. RowsTyped'
    BY <1>1, <1>2, <1>4, <1>5 DEF RowsTyped
  <2>2. \A e \in Dispatchers \ {d} : \A x \in Requests : ClaimedBy(x, e)' => ClaimedBy(x, e)
    BY <1>5 DEF ClaimedBy
  <2>3. \A x \in Requests : Queued(x)' <=> Queued(x)
    BY <1>5 DEF Queued
  <2> QED
    BY <1>2, <1>4, <1>5, <2>1, <2>2, <2>3, QueueStep
<1>6. CASE /\ Owns(d) /\ cleanup' = [cleanup EXCEPT ![r] = NoRow]
           /\ quota' = [quota EXCEPT !.upload = @ - size[r]]
  <2>1. cleanup[r].status = "processing"
    BY <1>0, <1>6 DEF Owns
  <2>2. cleanup'[r] = NoRow /\ Others(r)
    BY <1>1, <1>2, <1>6 DEF RowsTyped, Others
  <2>3. RowsTyped'
    BY <1>1, <1>2, <1>4, <1>6, NoRowTyped DEF RowsTyped
  <2>4. /\ quota' \in [upload : Int, text : Int, images : Int, heldBytes : Int, heldImages : Int]
        /\ quota'.upload = quota.upload - size[r] /\ quota'.text = quota.text /\ quota'.images = quota.images
        /\ quota'.heldBytes = quota.heldBytes /\ quota'.heldImages = quota.heldImages
    <3> DEFINE u == quota.upload - size[r]
    <3>1. u \in Int /\ quota' = [quota EXCEPT !.upload = u]
      BY <1>1, <1>6
    <3> HIDE DEF u
    <3>2. /\ quota' \in [upload : Int, text : Int, images : Int, heldBytes : Int, heldImages : Int]
          /\ quota'.upload = u /\ quota'.text = quota.text /\ quota'.images = quota.images
          /\ quota'.heldBytes = quota.heldBytes /\ quota'.heldImages = quota.heldImages
      BY <1>1, <3>1 DEF Ledger
    <3> QED
      BY <3>2 DEF u
  <2>5. Counted[r] = size[r] /\ Counted'[r] = 0
    BY <1>2, <1>3, <2>1, <2>2, NoRowTyped DEF Counted, Queued, Doomed
  <2>6. Ledger'
    BY <1>1, <1>2, <2>2, <2>3, <2>4, <2>5, Booked DEF Others
  <2>7. Fits(quota)'
    BY <1>1, <2>4, Bounds DEF Fits
  <2>8. RequestInv(r)'
    BY <1>1, <1>2, <1>3, <2>2, NoRowTyped DEF RequestInv, Queued, Doomed
  <2>9. \A e \in Dispatchers : GoesOn(r, e)
    BY <1>2, <2>2, NoRowTyped DEF GoesOn, Doomed, ClaimedBy, Queued
  <2> QED
    BY <1>4, <2>2, <2>3, <2>6, <2>7, <2>8, <2>9, LocalStep
<1> QED
  BY <1>2, <1>5, <1>6

\* Where an image has the upload the row alone goes, and only under the claim.
LEMMA CompleteReferencedStep ==
  ASSUME StorageAssumption, StorageInv, NEW d \in Dispatchers, CompleteReferenced(d)
  PROVE  StorageInv'
<1>0. PICK r \in Requests : r = worker[d].key
  BY Busy DEF CompleteReferenced
<1>1. /\ RowsTyped /\ Ledger /\ Fits(quota) /\ RequestInv(r) /\ size[r] \in Nat
      /\ quota \in [upload : Int, text : Int, images : Int, heldBytes : Int, heldImages : Int]
      /\ quota.upload \in Nat /\ quota.text \in Nat /\ quota.images \in Nat
      /\ quota.heldBytes \in Nat /\ quota.heldImages \in Nat
      /\ reservation[r].bytes \in Nat /\ reservation[r].images \in 0 .. 1 /\ image[r].text \in Nat
  BY RowOf DEF Ledger
<1>2. /\ worker[d].pc = "keep" /\ worker' = [worker EXCEPT ![d] = Idle]
      /\ UNCHANGED <<pc, size, reservation, image, blob, quota>>
      /\ UNCHANGED cleanup \/ (Owns(d) /\ cleanup' = [cleanup EXCEPT ![r] = NoRow])
  BY <1>0 DEF CompleteReferenced
<1>3. worker \in [Dispatchers -> WorkerType] /\ (Owns(d) => image[r].exists)
  BY <1>0, <1>2 DEF StorageInv, RowsTyped, WorkerInv, Owns, ClaimedBy
<1>4. /\ worker' \in [Dispatchers -> WorkerType] /\ WorkerInv(d)'
      /\ \A e \in Dispatchers \ {d} : Unmoved(e)
  BY Zenon, <1>2, <1>3, IdleTyped
<1>5. CASE UNCHANGED cleanup
  <2>1. RowsTyped'
    BY <1>1, <1>2, <1>4, <1>5 DEF RowsTyped
  <2>2. \A e \in Dispatchers \ {d} : \A x \in Requests : ClaimedBy(x, e)' => ClaimedBy(x, e)
    BY <1>5 DEF ClaimedBy
  <2>3. \A x \in Requests : Queued(x)' <=> Queued(x)
    BY SMTT(20), <1>5 DEF Queued
  <2> QED
    BY <1>2, <1>4, <1>5, <2>1, <2>2, <2>3, QueueStep
<1>6. CASE Owns(d) /\ cleanup' = [cleanup EXCEPT ![r] = NoRow]
  <2>1. cleanup'[r] = NoRow /\ Others(r) /\ image[r].exists
    BY <1>1, <1>2, <1>3, <1>6 DEF RowsTyped, Others
  <2>2. RowsTyped'
    BY <1>1, <1>2, <1>4, <1>6, NoRowTyped DEF RowsTyped
  <2>3. Counted[r] = size[r] /\ Counted'[r] = size[r]
    BY Zenon, <1>2, <2>1 DEF Counted
  <2>4. Ledger' /\ Fits(quota)'
    BY SMTT(20), <1>1, <1>2, <2>1, <2>2, <2>3, Booked DEF Others, Fits
  <2>5. RequestInv(r)'
    BY Zenon, <1>1, <1>2, <2>1, NoRowTyped DEF RequestInv, Queued
  <2>6. \A e \in Dispatchers : GoesOn(r, e)
    BY <1>2, <2>1, NoRowTyped DEF GoesOn, Doomed, ClaimedBy
  <2> QED
    BY <1>4, <2>1, <2>2, <2>4, <2>5, <2>6, LocalStep
<1> QED
  BY <1>2, <1>5, <1>6

\* A dispatcher gives its claim back, if it still has it, or dies with it.
LEMMA ReturnStep ==
  ASSUME StorageAssumption, StorageInv, NEW d \in Dispatchers, RetryResourceCleanup(d) \/ Crash(d)
  PROVE  StorageInv'
<1>0. PICK r \in Requests : r = worker[d].key
  BY Busy DEF RetryResourceCleanup, Crash
<1> DEFINE row == [cleanup[r] EXCEPT !.status = "pending", !.due = RetryTime, !.lease = 0, !.owner = NoOne]
<1>1. RowsTyped /\ cleanup[r] \in RowType /\ worker \in [Dispatchers -> WorkerType]
  BY DEF StorageInv, RowsTyped
<1>2. /\ worker' = [worker EXCEPT ![d] = Idle] /\ UNCHANGED <<pc, size, reservation, image, blob, quota>>
      /\ UNCHANGED cleanup \/ (Owns(d) /\ cleanup' = [cleanup EXCEPT ![r] = row])
  BY Zenon, <1>0, <1>1 DEF RetryResourceCleanup, Crash, RowsTyped
<1>3. /\ worker' \in [Dispatchers -> WorkerType] /\ WorkerInv(d)'
      /\ \A e \in Dispatchers \ {d} : Unmoved(e)
  BY Zenon, <1>1, <1>2, IdleTyped
<1>4. row \in RowType /\ row.status = "pending" /\ row.fenced = cleanup[r].fenced
  <2> DEFINE Due == 0 .. Later(ReservationTTL, Later(LeaseTime, RetryTime))
             Lease == 0 .. LeaseTime
  <2>1. RetryTime \in Due /\ 0 \in Lease
    BY Bounds
  <2>2. RowType = [status : {"none", "pending", "processing"}, due : Due, lease : Lease,
                   attempts : 0 .. MaxAttempts, owner : Dispatchers \cup {NoOne}, fenced : BOOLEAN]
    BY DEF RowType
  <2> HIDE DEF Due, Lease
  <2> QED
    BY Zenon, <1>1, <2>1, <2>2
<1> HIDE DEF row
<1>5. /\ cleanup' \in [Requests -> RowType] /\ \A x \in Requests \ {r} : cleanup'[x] = cleanup[x]
      /\ cleanup'[r] = cleanup[r] \/ (cleanup'[r] = row /\ cleanup[r].status = "processing")
  BY <1>0, <1>1, <1>2, <1>4 DEF RowsTyped, Owns
<1>6. RowsTyped'
  BY <1>1, <1>2, <1>3, <1>5 DEF RowsTyped
<1>7. \A x \in Requests : (Queued(x)' <=> Queued(x)) /\ cleanup'[x].fenced = cleanup[x].fenced
  BY <1>4, <1>5 DEF Queued
<1>8. \A e \in Dispatchers \ {d} : \A x \in Requests : ClaimedBy(x, e)' => ClaimedBy(x, e)
  BY <1>4, <1>5 DEF ClaimedBy
<1> QED
  BY Zenon, <1>2, <1>3, <1>6, <1>7, <1>8, QueueStep

\* A cleanup that fails may or may not have deleted the blob.
LEMMA FailStep ==
  ASSUME StorageAssumption, StorageInv, NEW d \in Dispatchers, CleanupFails(d)
  PROVE  StorageInv'
<1>1. /\ worker[d].pc \in {"begin", "delete"} /\ Become(d, "retry")
      /\ UNCHANGED <<pc, size, reservation, cleanup, image, quota>>
      /\ \/ UNCHANGED blob
         \/ worker[d].pc = "delete" /\ blob' = [blob EXCEPT ![worker[d].key] = FALSE]
  BY DEF CleanupFails
<1>2. CASE UNCHANGED blob
  <2>1. RowsTyped /\ worker[d].key \in Requests /\ worker \in [Dispatchers -> WorkerType]
    BY <1>1, Busy DEF StorageInv
  <2>2. /\ worker' \in [Dispatchers -> WorkerType] /\ worker'[d].pc = "retry" /\ worker'[d].key = worker[d].key
        /\ \A e \in Dispatchers \ {d} : Unmoved(e)
    BY <1>1, <2>1, Becomes
  <2>3. WorkerInv(d)'
    BY <2>1, <2>2 DEF WorkerInv
  <2>4. RowsTyped'
    BY <1>1, <1>2, <2>1, <2>2 DEF RowsTyped
  <2>5. \A x \in Requests : (Queued(x)' <=> Queued(x)) /\ \A e \in Dispatchers : ClaimedBy(x, e)' => ClaimedBy(x, e)
    BY <1>1 DEF Queued, ClaimedBy
  <2> QED
    BY <1>1, <1>2, <2>2, <2>3, <2>4, <2>5, QueueStep
<1>3. CASE worker[d].pc = "delete" /\ blob' = [blob EXCEPT ![worker[d].key] = FALSE]
  BY Zenon, <1>1, <1>3, BlobGone
<1> QED
  BY <1>1, <1>2, <1>3

-----------------------------------------------------------------------------
(* The theorems.                                                           *)

\* Before the first request nothing is counted.
LEMMA InitStorage ==
  ASSUME StorageAssumption, Init
  PROVE  StorageInv
<1>1. IsFiniteSet(Requests) /\ 0 \in 0 .. ReservationTTL /\ 0 \in 0 .. OperationTime
  BY Bounds
<1>2. RowsTyped
  <2>1. NoReservation \in ReservationType /\ NoImage \in ImageType /\ Idle \in WorkerType
    BY <1>1 DEF NoReservation, ReservationType, NoImage, ImageType, Idle, WorkerType
  <2> QED
    BY <2>1, NoRowTyped DEF Init, RowsTyped, Steps
<1>3. /\ \A r \in Requests : /\ pc[r] = "idle" /\ size[r] = 0 /\ ~blob[r] /\ cleanup[r] = NoRow
                             /\ reservation[r] = NoReservation /\ image[r] = NoImage
      /\ \A d \in Dispatchers : worker[d] = Idle
      /\ quota = [upload |-> 0, text |-> 0, images |-> 0, heldBytes |-> 0, heldImages |-> 0]
  BY DEF Init
<1>4. Ledger
  <2>1. /\ Counted \in [Requests -> Int] /\ Texts \in [Requests -> Int]
        /\ HeldBytes \in [Requests -> Int] /\ HeldImages \in [Requests -> Int]
    <3>1. /\ Counted \in [Requests -> Nat] /\ Texts \in [Requests -> Nat]
          /\ HeldBytes \in [Requests -> Nat] /\ HeldImages \in [Requests -> Nat]
      BY <1>2, CountedTypes
    <3> QED
      BY <3>1
  <2>2. \A r \in Requests : Counted[r] = 0 /\ Texts[r] = 0 /\ HeldBytes[r] = 0 /\ HeldImages[r] = 0
    BY <1>3 DEF Counted, Texts, HeldBytes, HeldImages, NoReservation, NoImage
  <2>3. /\ SumFunction(Counted) = 0 /\ SumFunction(Texts) = 0
        /\ SumFunction(HeldBytes) = 0 /\ SumFunction(HeldImages) = 0
    BY <1>1, <2>1, <2>2, SumZeros
  <2>4. Existing = {}
    BY <1>3 DEF Existing, NoImage
  <2>5. Cardinality(Existing) = 0
    BY SMTT(20), <2>4, FS_EmptySet
  <2> QED
    BY <1>3, <2>3, <2>5 DEF Ledger
<1>5. Fits(quota)
  BY <1>3, Bounds DEF Fits
<1>6. ASSUME NEW r \in Requests PROVE RequestInv(r)
  <2>1. /\ NoReservation.held = FALSE /\ NoReservation.bytes = 0 /\ NoReservation.images = 0
        /\ NoImage.exists = FALSE /\ NoImage.text = 0
    BY DEF NoReservation, NoImage
  <2> QED
    BY <1>3, <2>1, NoRowTyped DEF RequestInv, Queued
<1>7. ASSUME NEW d \in Dispatchers PROVE WorkerInv(d)
  BY <1>3 DEF WorkerInv, Idle
<1> QED
  BY <1>2, <1>4, <1>5, <1>6, <1>7 DEF StorageInv

\* Every step keeps the invariant.
LEMMA StorageStep ==
  ASSUME StorageAssumption, StorageInv, [Next]_vars
  PROVE  StorageInv'
<1>1. ASSUME NEW r \in Requests, Request(r) PROVE StorageInv'
  <2>1. ASSUME NEW n \in Sizes, Reserve(r, n) \/ Stage(r, n) \/ CommitSingleFileIngest(r, n) PROVE StorageInv'
    BY <2>1, ReserveStep, StageStep, CommitStep
  <2>2. CASE \/ PutBlob(r) \/ WriteFails(r) \/ ProcessingFails(r) \/ ResizeFails(r)
             \/ CommitFails(r) \/ GiveUp(r) \/ Die(r)
    BY <2>2, BlobSteps
  <2>3. CASE Resize(r) \/ EnsureUploadBatchImage(r) \/ EnqueueUploadCleanup(r) \/ Release(r)
    BY <2>3, ResizeStep, EnsureStep, EnqueueStep, ReleaseStep
  <2> QED
    BY <1>1, <2>1, <2>2, <2>3 DEF Request
<1>2. ASSUME NEW r \in Requests, DeleteImage(r) \/ \E n \in Sizes : SaveText(r, n) PROVE StorageInv'
  BY SMTT(20), <1>2, DeleteStep, SaveStep
<1>3. ASSUME NEW d \in Dispatchers, ClaimResourceCleanup(d) \/ Work(d) \/ CleanupFails(d) \/ Crash(d)
      PROVE  StorageInv'
  <2>1. CASE DeleteStoredUpload(d)
    BY Zenon, <2>1, BlobGone DEF DeleteStoredUpload
  <2> QED
    BY <1>3, <2>1, ClaimStep, BeginStep, CompleteFencedStep, CompleteReferencedStep, ReturnStep, FailStep
    DEF Work
<1>4. CASE Sweep \/ Tick
  BY SMTT(20), <1>4, SweepStep, TickStep
<1>5. CASE UNCHANGED vars
  <2>1. UNCHANGED <<pc, size, reservation, cleanup, image, blob, quota, worker>>
    BY <1>5 DEF vars
  <2>2. RowsTyped'
    BY SMTT(20), <2>1 DEF StorageInv, RowsTyped
  <2>3. \A x \in Requests : (Queued(x)' <=> Queued(x)) /\ \A e \in Dispatchers : ClaimedBy(x, e)' => ClaimedBy(x, e)
    BY <2>1 DEF Queued, ClaimedBy
  <2>4. \A e \in Dispatchers : Unmoved(e)
    BY <2>1 DEF Unmoved
  <2> QED
    BY <2>1, <2>2, <2>3, <2>4, QueueStep
<1> QED
  BY <1>1, <1>2, <1>3, <1>4, <1>5 DEF Next

\* What the invariant says of the counters: they are a recount of the rows, and
\* what is stored is no more than they admit.
LEMMA QuotaFromInv ==
  ASSUME StorageAssumption, StorageInv
  PROVE  QuotaIsExact /\ TypeOK
<1>1. RowsTyped /\ Ledger /\ Fits(quota) /\ IsFiniteSet(Requests)
  BY Bounds DEF StorageInv
<1>2. quota \in [upload : Nat, text : Nat, images : Nat, heldBytes : Nat, heldImages : Nat]
  BY <1>1, LedgerTypes
<1>3. TypeOK
  BY <1>1, <1>2 DEF TypeOK, RowsTyped, Steps, ReservationType, ImageType, WorkerType
<1>4. CountersMatchRows
  <2>1. Rebuilt = [upload |-> SumFunction(Counted), text |-> SumFunction(Texts), images |-> Cardinality(Existing),
                   heldBytes |-> SumFunction(HeldBytes), heldImages |-> SumFunction(HeldImages)]
    BY DEF Rebuilt, Counted, Texts, Existing, HeldBytes, HeldImages
  <2>2. quota = [upload |-> quota.upload, text |-> quota.text, images |-> quota.images,
                 heldBytes |-> quota.heldBytes, heldImages |-> quota.heldImages]
    BY <1>2
  <2> QED
    BY <1>1, <2>1, <2>2 DEF CountersMatchRows, Ledger
<1>5. WithinLimits
  <2> DEFINE stored == [r \in Requests |-> (IF blob[r] THEN size[r] ELSE 0) + image[r].text + reservation[r].bytes]
             texts == [r \in Requests |-> Counted[r] + Texts[r]]
             all == [r \in Requests |-> texts[r] + HeldBytes[r]]
  <2>1. /\ Counted \in [Requests -> Nat] /\ Texts \in [Requests -> Nat] /\ HeldBytes \in [Requests -> Nat]
        /\ \A r \in Requests : size[r] \in Nat
    <3>1. Sizes \cup {0} \subseteq Nat
      BY Bounds
    <3> QED
      BY <1>1, <3>1, CountedTypes DEF RowsTyped
  <2>2. ASSUME NEW r \in Requests
        PROVE  /\ Counted[r] \in Nat /\ Texts[r] = image[r].text /\ HeldBytes[r] = reservation[r].bytes
               /\ Texts[r] \in Nat /\ HeldBytes[r] \in Nat /\ size[r] \in Nat
               /\ blob[r] => Counted[r] = size[r]
    <3>1. blob[r] => Queued(r) \/ image[r].exists
      BY DEF StorageInv, RequestInv
    <3> QED
      BY <2>1, <3>1 DEF Counted, Texts, HeldBytes
  <2>3. /\ texts \in [Requests -> Int] /\ all \in [Requests -> Int] /\ stored \in [Requests -> Int]
        /\ Counted \in [Requests -> Int] /\ Texts \in [Requests -> Int] /\ HeldBytes \in [Requests -> Int]
        /\ \A r \in Requests : texts[r] = Counted[r] + Texts[r]
        /\ \A r \in Requests : all[r] = texts[r] + HeldBytes[r]
        /\ \A r \in Requests : stored[r] <= all[r]
    <3>1. ASSUME NEW r \in Requests
          PROVE  texts[r] \in Int /\ all[r] \in Int /\ stored[r] \in Int /\ stored[r] <= all[r]
      <4>1. texts[r] = Counted[r] + Texts[r] /\ all[r] = Counted[r] + Texts[r] + HeldBytes[r]
        OBVIOUS
      <4>2. stored[r] = (IF blob[r] THEN size[r] ELSE 0) + Texts[r] + HeldBytes[r]
        BY <2>2
      <4>3. /\ Counted[r] \in Nat /\ Texts[r] \in Nat /\ HeldBytes[r] \in Nat /\ size[r] \in Nat
            /\ blob[r] => Counted[r] = size[r]
        BY <2>2
      <4> HIDE DEF texts, all, stored
      <4>4. PICK k \in Nat : k = (IF blob[r] THEN size[r] ELSE 0) /\ k <= Counted[r]
        BY <4>3
      <4>5. stored[r] = k + Texts[r] + HeldBytes[r]
        BY <4>2, <4>4
      <4>6. /\ Counted[r] + Texts[r] \in Int /\ Counted[r] + Texts[r] + HeldBytes[r] \in Int
            /\ k + Texts[r] + HeldBytes[r] \in Int
            /\ k + Texts[r] + HeldBytes[r] <= Counted[r] + Texts[r] + HeldBytes[r]
        BY <4>3, <4>4
      <4> QED
        BY Zenon, <4>1, <4>5, <4>6
    <3> QED
      BY <2>1, <3>1
  <2>4. WithinLimits <=> SumFunction(stored) <= MaxBytes /\ Cardinality(Existing) <= MaxImages
    BY DEF WithinLimits, Existing
  <2> HIDE DEF texts, all, stored
  <2>5. SumFunction(texts) = SumFunction(Counted) + SumFunction(Texts)
    BY <1>1, <2>3, SumAdds
  <2>6. SumFunction(all) = SumFunction(texts) + SumFunction(HeldBytes)
    BY <1>1, <2>3, SumAdds
  <2>7. SumFunction(stored) <= SumFunction(all)
    BY <1>1, <2>3, SumGrows
  <2>8. SumFunction(stored) \in Int /\ SumFunction(all) \in Int
    BY <1>1, <2>3, SumInt
  <2>9. SumFunction(all) <= MaxBytes
    BY <1>1, <1>2, <2>5, <2>6, Bounds DEF Ledger, Fits
  <2>10. Cardinality(Existing) <= MaxImages
    BY <1>1, <1>2, Bounds DEF Ledger, Fits
  <2> QED
    BY <2>4, <2>7, <2>8, <2>9, <2>10, Bounds
<1> QED
  BY <1>3, <1>4, <1>5 DEF QuotaIsExact

\* StorageInv is inductive.
LEMMA StorageInvariant ==
  ASSUME StorageAssumption
  PROVE  Spec => []StorageInv
<1>1. Init => StorageInv
  BY InitStorage
<1>2. StorageInv /\ [Next]_vars => StorageInv'
  BY StorageStep
<1> QED
  BY <1>1, <1>2, PTL DEF Spec

\* For any number of requests and of dispatchers, and for any limits, the five
\* counters of a workspace equal a recount of its rows after every transaction,
\* and what is stored and reserved stays within the limits they enforce.
THEOREM QuotaStaysExact ==
  ASSUME StorageAssumption
  PROVE  Spec => []QuotaIsExact
<1>1. StorageInv => QuotaIsExact
  BY QuotaFromInv
<1> QED
  BY <1>1, StorageInvariant, PTL

\* A stored blob always has a row that references it or will retire it, and a
\* cleanup dispatcher never takes the blob of a committed image, whatever dies
\* between two transactions.
THEOREM BlobsStayOwned ==
  ASSUME StorageAssumption
  PROVE  Spec => []BlobsHaveOwners
<1>1. StorageInv => BlobsHaveOwners
  <2> SUFFICES ASSUME StorageInv PROVE BlobsHaveOwners
    OBVIOUS
  <2>1. StoredBlobsOwned
    BY DEF StoredBlobsOwned, StorageInv, RequestInv
  <2>2. ASSUME NEW r \in Requests, image[r].exists, NEW d \in Dispatchers, worker[d].key = r
        PROVE  worker[d].pc \notin {"delete", "complete"}
    BY <2>2 DEF StorageInv, WorkerInv, Doomed
  <2>3. ASSUME NEW r \in Requests, image[r].exists PROVE blob[r]
    BY <2>3 DEF StorageInv, RequestInv
  <2> QED
    BY <2>1, <2>2, <2>3 DEF BlobsHaveOwners, ReferencedBlobsStay
<1> QED
  BY <1>1, StorageInvariant, PTL

\* Rows and counters keep their types; in particular no counter of the quota
\* falls below zero.
THEOREM StorageTypes ==
  ASSUME StorageAssumption
  PROVE  Spec => []TypeOK
<1>1. StorageInv => TypeOK
  BY QuotaFromInv
<1> QED
  BY <1>1, StorageInvariant, PTL

=============================================================================
