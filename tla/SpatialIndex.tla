---------------------------- MODULE SpatialIndex ----------------------------
(***************************************************************************)
(* assignSpatialWordsToLines: one vertical sweep over the lines and words  *)
(* of a page decides which line owns each word.  Lines enter the sweep at  *)
(* their top edge and leave it after their bottom edge; between the two    *)
(* they are entered in a range index over the distinct horizontal word     *)
(* centres, a complete binary tree with a heap of lines at each node.  A   *)
(* line that left is only marked: a lookup drops it when it comes to the   *)
(* top of a heap.                                                          *)
(*                                                                         *)
(* A behaviour sweeps one layout; a step handles one word.                 *)
(***************************************************************************)
EXTENDS Integers, Sequences, FiniteSets, FiniteSetsExt, SequencesExt

CONSTANTS Boxes,          \* <<x1, y1, x2, y2>> a line may have
          Centres,        \* <<x, y>> a word may have
          LineCount,      \* lines of a layout, numbered in item order
          WordCount

SpatialIndexAssumption ==
  /\ Boxes \subseteq Nat \X Nat \X Nat \X Nat
  /\ \A b \in Boxes : b[1] < b[3] /\ b[2] < b[4]
  /\ Centres \subseteq Nat \X Nat
  /\ {LineCount, WordCount} \subseteq Nat \ {0}

VARIABLES lines,      \* boxes <<x1, y1, x2, y2>> in item order
          words,      \* centres <<x, y>> in item order
          swept,      \* words handled, in sweep order
          nextLine,   \* lines entered, in sweep order
          ending,     \* lines whose end the sweep has not passed
          nodes,      \* tree node -> lines in its heap
          active,     \* lines entered and not ended
          owner       \* word -> line, 0 for none

vars == <<lines, words, swept, nextLine, ending, nodes, active, owner>>

\* Distinct word centres from left to right, numbered from 0.
compactSortedInts == SetToSortSeq({words[w][1] : w \in DOMAIN words}, <)

LineOrder == SetToSortSeq(DOMAIN lines, LAMBDA a, b :
               lines[a][2] < lines[b][2] \/ (lines[a][2] = lines[b][2] /\ a < b))
WordOrder == SetToSortSeq(DOMAIN words, LAMBDA a, b :
               words[a][2] < words[b][2] \/ (words[a][2] = words[b][2] /\ a < b))

\* The least power of two that holds every coordinate.
newLineCoverageIndex(n) == Min({s \in {2 ^ k : k \in 0 .. n} : s >= n})

Size == newLineCoverageIndex(Len(compactSortedInts))
Nodes == 1 .. 2 * newLineCoverageIndex(WordCount)

BugCover(l, r) ==
  LET size == Size
      n == 2 * size
      cover[left \in 0 .. n, right \in 0 .. n] ==
        IF left >= right THEN {}
        ELSE (IF left % 2 = 1 THEN {left} ELSE {})
             \cup (IF right % 2 = 0 THEN {right} ELSE {})
             \cup cover[(left + 1) \div 2, (right - 1) \div 2]
  IN  cover[l + size, r + size]

\* Nodes whose subtrees make up the positions l .. r.
add(l, r) ==
  LET size == Size
      n == 2 * size
      cover[left \in 0 .. n, right \in 0 .. n] ==
        IF left > right THEN {}
        ELSE (IF left % 2 = 1 THEN {left} ELSE {})
             \cup (IF right % 2 = 0 THEN {right} ELSE {})
             \cup cover[(left + 1) \div 2, (right - 1) \div 2]
  IN  cover[l + size, r + size]

\* From the leaf of a position to the root.
Path(position) == LET leaf == position + Size
                  IN  {leaf \div (2 ^ k) : k \in 0 .. WordCount} \ {0}

\* Positions of the centres a line spans.
Span(line) ==
  LET x == compactSortedInts
  IN  {k - 1 : k \in {k \in DOMAIN x : lines[line][1] <= x[k] /\ x[k] <= lines[line][3]}}

\* Lines whose top edge is at or above y enter.
Entering(y) == LET order == LineOrder
               IN  {order[k] : k \in {k \in nextLine + 1 .. LineCount : lines[order[k]][2] <= y}}

\* Marked lines leave a heap only from its top.
Dropped(heap, live) == {l \in heap : \A m \in heap : m <= l => m \notin live}

Lookup(heaps, live, position) ==
  LET top == UNION {IF h = {} THEN {} ELSE {Min(h)} :
                      h \in {heaps[n] \ Dropped(heaps[n], live) : n \in Path(position)}}
  IN  IF top = {} THEN 0 ELSE Min(top)

Step ==
  /\ swept < WordCount
  /\ LET w == WordOrder[swept + 1]
         y == words[w][2]
         x == compactSortedInts
         position == (CHOOSE k \in DOMAIN x : x[k] = words[w][1]) - 1
         new == {l \in Entering(y) : Span(l) # {}}
         at == [l \in new |-> add(Min(Span(l)), Max(Span(l)))]
         path == Path(position)
         ended == {l \in ending \cup new : lines[l][4] < y}
         live == (active \cup new) \ ended
         heaps == [n \in Nodes |-> nodes[n] \cup {l \in new : n \in at[l]}]
     IN  /\ nextLine' = nextLine + Cardinality(Entering(y))
         /\ ending' = (ending \cup new) \ ended
         /\ active' = live
         /\ nodes' = [n \in Nodes |-> IF n \in path THEN heaps[n] \ Dropped(heaps[n], live) ELSE heaps[n]]
         /\ owner' = [owner EXCEPT ![w] = Lookup(heaps, live, position)]
  /\ swept' = swept + 1
  /\ UNCHANGED <<lines, words>>

Init ==
  /\ lines \in [1 .. LineCount -> Boxes]
  /\ words \in [1 .. WordCount -> Centres]
  /\ swept = 0
  /\ nextLine = 0
  /\ ending = {}
  /\ nodes = [n \in Nodes |-> {}]
  /\ active = {}
  /\ owner = [w \in 1 .. WordCount |-> 0]

Next == Step

Spec == Init /\ [][Next]_vars

-----------------------------------------------------------------------------
\* The sweep, the tree of lines and the owners of words are in range.
TypeOK ==
  /\ swept \in 0 .. WordCount
  /\ nextLine \in 0 .. LineCount
  /\ ending \subseteq 1 .. LineCount /\ active \subseteq 1 .. LineCount
  /\ nodes \in [Nodes -> SUBSET (1 .. LineCount)]
  /\ owner \in [1 .. WordCount -> 0 .. LineCount]

\* "If boxes overlap, the earliest eligible line in canonical item order owns
\* the word": the sweep gives every word the owner that its definition does.
EarliestLineOwns ==
  \A k \in 1 .. swept :
    LET w == WordOrder[k]
        covering == {l \in DOMAIN lines : /\ lines[l][1] <= words[w][1] /\ words[w][1] <= lines[l][3]
                                          /\ lines[l][2] <= words[w][2] /\ words[w][2] <= lines[l][4]}
    IN  owner[w] = IF covering = {} THEN 0 ELSE Min(covering)
============================================================================
