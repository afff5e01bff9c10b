---------------------------- MODULE PageEditing ----------------------------
(***************************************************************************)
(* The editing of one canonical annotation page.  A page is a sequence of  *)
(* line and word annotations: a line and the words inside its box are two  *)
(* views of the same text.  An editor loads the page, changes its draft by *)
(* hand or through the structural requests (split, join, enrich), which    *)
(* are pure functions of the draft, and saves it against the revision it   *)
(* loaded; the save first reconciles the two views against the page that   *)
(* is committed.  The transcription worker replaces line texts under the   *)
(* same compare-and-swap.                                                  *)
(*                                                                         *)
(* A box is <<x1, y1, x2, y2>>, a text the sequence of its tokens.  "body" *)
(* and "sel" are the identities of the embedded text and selector (0 for   *)
(* an anonymous resource), "ext" every other IIIF property.  A derived     *)
(* identifier is the record it is hashed from.  A function that may refuse *)
(* gives the set of its results: one page, or none.                        *)
(***************************************************************************)
EXTENDS Integers, Sequences, FiniteSets, FiniteSetsExt, SequencesExt

CONSTANTS Editors,                \* editor sessions
          Pages,                  \* pages a behaviour may start from
          Tokens,                 \* words an editor or a model writes
          Texts,                  \* lines an editor or a model writes
          Boxes,                  \* boxes an editor draws or drags a line to
          Operations,             \* the requests and edits of this instance
          Width, Height,          \* of the image
          MaxAnnotationsPerPage,
          MaxPageEnrichmentLines,
          MaxEdits,               \* bound on changes to one draft
          MaxRevision             \* bound on committed revisions

PageEditingAssumption ==
  /\ {Width, Height, MaxAnnotationsPerPage, MaxPageEnrichmentLines} \subseteq Nat \ {0}
  /\ {MaxEdits, MaxRevision} \subseteq Nat

VARIABLES page,      \* the committed items
          revision,
          draft,     \* per editor: its draft and its save in flight
          worker     \* the transcription attempt

vars == <<page, revision, draft, worker>>

-----------------------------------------------------------------------------
(* Items and boxes *)

Item(id, kind, box, text, resource) ==
  [id |-> id, kind |-> kind, box |-> box, text |-> text,
   body |-> resource, sel |-> resource, ext |-> "p"]

Ids(items) == {items[k].id : k \in DOMAIN items}
Of(items, kind) == {k \in DOMAIN items : items[k].kind = kind}
IdsOf(items, kind) == {items[k].id : k \in Of(items, kind)}
Find(items, id) == CHOOSE k \in DOMAIN items : items[k].id = id

\* The items at a set of positions, in order.
At(items, S) == LET at == SetToSortSeq(S, <) IN [k \in DOMAIN at |-> items[at[k]]]

Concat(texts) == FoldLeft(LAMBDA a, b : a \o b, <<>>, texts)
normalizedAnnotationTexts(words) == Concat([k \in DOMAIN words |-> words[k].text])

annotationUnion(items) ==
  LET c(n) == {items[k].box[n] : k \in DOMAIN items}
  IN  <<Min(c(1)), Min(c(2)), Max(c(3)), Max(c(4))>>

BugDerive(template, id, kind, box, text) ==
  [template EXCEPT !.id = id, !.kind = kind, !.box = box, !.text = text]

\* A derived annotation keeps every other property of its template; the text
\* and selector it changes become anonymous.
deriveTextAnnotation(template, id, kind, box, text) ==
  [template EXCEPT !.id = id, !.kind = kind, !.box = box, !.text = text, !.body = 0, !.sel = 0]

\* A moved word: a changed selector loses its identity.
retargetExistingWord(word, box) ==
  IF word.box = box THEN word ELSE [word EXCEPT !.box = box, !.sel = 0]

setAnnotationText(item, text) == [item EXCEPT !.text = text]

-----------------------------------------------------------------------------
(* Which words belong to a line: those whose centre lies in its box, and in *)
(* no eligible line earlier in item order.                                  *)

Covers(line, word) ==
  LET b == line.box  w == word.box
      cx == w[1] + (w[3] - w[1]) \div 2
      cy == w[2] + (w[4] - w[2]) \div 2
  IN  b[1] <= cx /\ cx <= b[3] /\ b[2] <= cy /\ cy <= b[4]

BugOwner(items, k, eligible) ==
  Max({j \in Of(items, "line") : items[j].id \in eligible /\ Covers(items[j], items[k])} \cup {0})

Owner(items, k, eligible) ==
  LET lines == {j \in Of(items, "line") : items[j].id \in eligible /\ Covers(items[j], items[k])}
  IN  IF lines = {} THEN 0 ELSE Min(lines)

\* Words of a line go left to right, then top down, then in item order.
sortLocatedWordsWithinLine(items, S) ==
  SetToSortSeq(S, LAMBDA a, b :
    LET x == items[a].box  y == items[b].box
    IN  \/ x[1] < y[1]
        \/ x[1] = y[1] /\ x[2] < y[2]
        \/ x[1] = y[1] /\ x[2] = y[2] /\ a < b)

\* Lines, and loose words, go by vertical centre first.
sortLocatedAnnotations(items, S) ==
  SetToSortSeq(S, LAMBDA a, b :
    LET x == items[a].box  y == items[b].box
    IN  \/ x[2] + x[4] < y[2] + y[4]
        \/ x[2] + x[4] = y[2] + y[4] /\ x[1] < y[1]
        \/ x[2] + x[4] = y[2] + y[4] /\ x[1] = y[1] /\ a < b)

\* Positions of the words of every eligible line, in the order of the sweep:
\* left to right, then by vertical centre, then in item order.
assignSpatialWordsToLines(items, eligible) ==
  LET owner == [k \in Of(items, "word") |-> Owner(items, k, eligible)]
      cy(k) == items[k].box[2] + (items[k].box[4] - items[k].box[2]) \div 2
      x1(k) == items[k].box[1]
  IN  [id \in eligible |->
         SetToSortSeq({k \in DOMAIN owner : owner[k] # 0 /\ items[owner[k]].id = id},
           LAMBDA a, b : \/ x1(a) < x1(b)
                         \/ x1(a) = x1(b) /\ cy(a) < cy(b)
                         \/ x1(a) = x1(b) /\ cy(a) = cy(b) /\ a < b)]

locatedWords(items, eligible) ==
  LET assigned == assignSpatialWordsToLines(items, eligible)
  IN  [id \in eligible |-> sortLocatedWordsWithinLine(items, ToSet(assigned[id]))]

Picked(items, at) == [k \in DOMAIN at |-> items[at[k]]]

wordsForLine(items, id) == locatedWords(items, IdsOf(items, "line"))[id]

lineAndWordsSynchronized(line, words) ==
  /\ Len(line.text) = Len(words)
  /\ \A k \in DOMAIN words : words[k].text = <<line.text[k]>>

-----------------------------------------------------------------------------
(* Structural requests on a draft *)

replaceDraftItems(items, remove, at, new) ==
  At(items, (1 .. at - 1) \ remove) \o new \o At(items, (at .. Len(items)) \ remove)

\* An identifier below the page's own, not one the client made up.
isCanonicalAnnotationID(id) == DOMAIN id # {"client"}

ValidateCanonicalAnnotationPage(items) ==
  /\ \A id \in Ids(items) : isCanonicalAnnotationID(id)
  /\ Cardinality(Ids(items)) = Len(items)
  /\ Len(items) <= MaxAnnotationsPerPage

\* Replaces a foreign or repeated identifier by one derived from the position
\* and the content.
NormalizeAnnotationPage(items) ==
  {r \in {[k \in DOMAIN items |->
             IF isCanonicalAnnotationID(items[k].id) /\ \A j \in 1 .. k - 1 : items[j].id # items[k].id
             THEN items[k]
             ELSE [items[k] EXCEPT !.id = [at |-> k, seed |-> items[k]]]]} :
     ValidateCanonicalAnnotationPage(r)}

ValidateAnnotationPageGeometry(items) ==
  \A k \in DOMAIN items : LET b == items[k].box
                          IN 0 <= b[1] /\ b[1] < b[3] /\ b[3] <= Width
                             /\ 0 <= b[2] /\ b[2] < b[4] /\ b[4] <= Height

WordId(line, n) == [of |-> line, word |-> n]

\* Equal boxes; the last one takes the rest of the line.
SplitWords(line) ==
  LET n == Len(line.text)
      b == line.box
      w == Max({1, (b[3] - b[1]) \div n})
  IN  [k \in 1 .. n |->
         deriveTextAnnotation(line, WordId(line.id, k), "word",
           <<b[1] + (k - 1) * w, b[2], IF k = n THEN b[3] ELSE b[1] + k * w, b[4]>>,
           <<line.text[k]>>)]

CanSplitWords(line) == line.text # <<>> /\ line.box[3] - line.box[1] >= Len(line.text)

\* Replaces the words of a line by equal boxes for the requested words, or
\* for the words of its text.
splitDraftLineIntoWords(items, k, requested) ==
  LET line == setAnnotationText(items[k], IF requested = <<>> THEN items[k].text ELSE requested)
      owned == ToSet(wordsForLine(items, line.id))
      new == SplitWords(line)
      kept == {items[j].id : j \in (DOMAIN items) \ owned}
  IN  IF /\ CanSplitWords(line)
         /\ Len(items) - Cardinality(owned) + Len(new) <= MaxAnnotationsPerPage
         /\ Ids(new) \cap kept = {}
      THEN {replaceDraftItems([items EXCEPT ![k] = line], owned, k + 1, new)}
      ELSE {}

splitDraftPageIntoWords(items) ==
  LET lines == Of(items, "line")
      owned == {k \in Of(items, "word") : Owner(items, k, IdsOf(items, "line")) # 0}
      new == [k \in lines |-> SplitWords(items[k])]
      kept == {items[j].id : j \in (DOMAIN items) \ owned}
      result == Concat([k \in DOMAIN items |->
                  IF k \in owned THEN <<>>
                  ELSE <<items[k]>> \o (IF k \in lines THEN new[k] ELSE <<>>)])
  IN  IF lines # {} /\ \A k \in lines : CanSplitWords(items[k])
      THEN IF Len(result) <= MaxAnnotationsPerPage /\ \A k \in lines : Ids(new[k]) \cap kept = {}
           THEN {result} ELSE {}
      ELSE {}

\* The upper half keeps the first words, the lower half the others; word
\* annotations move with their half.  A split outside the line halves it.
splitDraftLineIntoTwo(items, k, requested) ==
  LET line == items[k]
      n == Len(line.text)
      b == line.box
      at == IF requested <= 0 \/ requested >= n THEN n \div 2 ELSE requested
      mid == b[2] + (b[4] - b[2]) \div 2
      words == wordsForLine(items, line.id)
      half(h, y1, y2, text) ==
        deriveTextAnnotation(line, [of |-> line.id, half |-> h], "line", <<b[1], y1, b[3], y2>>, text)
      moved == [j \in DOMAIN items |->
        IF j \notin ToSet(words) THEN items[j]
        ELSE LET first == \E i \in 1 .. at : words[i] = j
                 box == items[j].box
             IN  [items[j] EXCEPT !.sel = 0,
                    !.box = <<box[1], IF first THEN b[2] ELSE mid, box[3], IF first THEN mid ELSE b[4]>>]]
  IN  IF n < 2 \/ b[4] - b[2] < 2
         \/ (words # <<>> /\ ~lineAndWordsSynchronized(line, Picked(items, words)))
      THEN {}
      ELSE {replaceDraftItems(moved, {k}, k,
              <<half("a", b[2], mid, SubSeq(line.text, 1, at)),
                half("b", mid, b[4], SubSeq(line.text, at + 1, n))>>)}

\* One annotation over the union of the boxes; the inputs must agree on
\* every property the join does not change.
mergeLocatedAnnotations(values, kind) ==
  IF \E k \in DOMAIN values : values[k].ext # values[1].ext THEN {}
  ELSE {deriveTextAnnotation(values[1], [joined |-> [k \in DOMAIN values |-> values[k].id]],
          kind, annotationUnion(values), normalizedAnnotationTexts(values))}

hasIDOutside(items, id, remove) == \E k \in (DOMAIN items) \ remove : items[k].id = id

joinDraftLines(items, S) ==
  LET order == sortLocatedAnnotations(items, S)
      words == [k \in S |-> Picked(items, wordsForLine(items, items[k].id))]
  IN  IF \/ \E k \in S : words[k] # <<>> /\ ~lineAndWordsSynchronized(items[k], words[k])
         \/ {words[k] = <<>> : k \in S} = BOOLEAN
      THEN {}
      ELSE {replaceDraftItems(items, S, Min(S), <<m>>) :
              m \in {x \in mergeLocatedAnnotations(Picked(items, order), "line") :
                       ~hasIDOutside(items, x.id, S)}}

\* The selected words become the words of one line: the line they all came
\* from, or a new one in place of every line they came from.
joinDraftWordsIntoLine(items, S) ==
  LET lines == IdsOf(items, "line")
      owned == assignSpatialWordsToLines(items, lines)
      affected == {id \in lines : ToSet(owned[id]) \cap S # {}}
      remove == {Find(items, id) : id \in affected}
      order == sortLocatedWordsWithinLine(items, S)
      words == Picked(items, order)
      text == normalizedAnnotationTexts(words)
      merged == IF Cardinality(affected) = 1
                THEN LET id == CHOOSE x \in affected : TRUE
                     IN {deriveTextAnnotation(items[Find(items, id)], id, "line", annotationUnion(words), text)}
                ELSE mergeLocatedAnnotations(words, "line")
      at == IF Cardinality(affected) = 1 THEN Min(remove) ELSE Min(remove \cup {order[1]})
  IN  IF \/ \E k \in S : Len(items[k].text) # 1
         \/ \E id \in affected : ~(ToSet(owned[id]) \subseteq S)
      THEN {}
      ELSE {r \in {replaceDraftItems(items, remove, at, <<m>>) :
                     m \in {x \in merged : ~hasIDOutside(items, x.id, remove)}} :
              \E m \in merged : {r[k].id : k \in ToSet(wordsForLine(r, m.id))} = {items[k].id : k \in S}}

-----------------------------------------------------------------------------
(* Reconciliation of a saved draft with the committed page *)

\* The common prefix and suffix set aside, dynamic programming over the rest.
matchesBetween(base, tokens, prefix, I, J) ==
  LET dp[i \in prefix + 1 .. I + 1, j \in prefix + 1 .. J + 1] ==
        IF i > I \/ j > J THEN 0
        ELSE IF base[i] = tokens[j] THEN dp[i + 1, j + 1] + 1
        ELSE Max({dp[i + 1, j], dp[i, j + 1]})
      walk[i \in prefix + 1 .. I + 1, j \in prefix + 1 .. J + 1] ==
        IF i > I \/ j > J THEN {}
        ELSE IF base[i] = tokens[j] THEN {<<i, j>>} \cup walk[i + 1, j + 1]
        ELSE IF dp[i + 1, j] >= dp[i, j + 1] THEN walk[i + 1, j] ELSE walk[i, j + 1]
  IN  walk[prefix + 1, prefix + 1]

\* A longest common subsequence of two texts, as pairs of positions.
longestCommonTokenMatches(base, tokens) ==
  LET n == Len(base)
      m == Len(tokens)
      prefix == Max({p \in 0 .. Min({n, m}) : SubSeq(base, 1, p) = SubSeq(tokens, 1, p)})
      suffix == Max({s \in 0 .. Min({n, m}) - prefix :
                       SubSeq(base, n - s + 1, n) = SubSeq(tokens, m - s + 1, m)})
  IN  {<<k, k>> : k \in 1 .. prefix}
      \cup matchesBetween(base, tokens, prefix, n - suffix, m - suffix)
      \cup {<<n - suffix + k, m - suffix + k>> : k \in 1 .. suffix}

dividedWordBox(box, k, n) ==
  <<box[1] + ((box[3] - box[1]) * (k - 1)) \div n, box[2],
    box[1] + ((box[3] - box[1]) * k) \div n, box[4]>>

availableReconciledWordID(line, rev, k, token, used) ==
  LET id(nonce) == [of |-> line, rev |-> rev, at |-> k, token |-> token, nonce |-> nonce]
  IN  id(CHOOSE x \in 0 .. MaxAnnotationsPerPage :
           id(x) \notin used /\ \A y \in 0 .. x - 1 : id(y) \in used)

updatedRetainedWord(word, token, box) ==
  retargetExistingWord(IF word.text = <<token>> THEN word ELSE [word EXCEPT !.text = <<token>>, !.body = 0], box)

\* New words for an edited line text: tokens that match a committed word keep
\* its annotation, the others get a new one.
reconcileLineTokens(line, baseWords, proposed, rev) ==
  LET n == Len(line.text)
      old == [k \in DOMAIN baseWords |-> normalizedAnnotationTexts(<<baseWords[k]>>)]
      matches == longestCommonTokenMatches(old, [k \in 1 .. n |-> <<line.text[k]>>])
  IN  IF n > line.box[3] - line.box[1] THEN {}
      ELSE {[k \in 1 .. n |->
              IF \E m \in matches : m[2] = k
              THEN LET word == baseWords[(CHOOSE m \in matches : m[2] = k)[1]]
                       template == IF word.id \in Ids(proposed) THEN proposed[Find(proposed, word.id)] ELSE word
                   IN  updatedRetainedWord(template, line.text[k], dividedWordBox(line.box, k, n))
              ELSE deriveTextAnnotation(line,
                     availableReconciledWordID(line.id, rev, k, line.text[k], Ids(proposed)),
                     "word", dividedWordBox(line.box, k, n), <<line.text[k]>>)]}

\* Rounds half away from zero, and keeps the word inside the line.
proportionalWordBox(from, to, word) ==
  LET trunc(a, b) == IF a >= 0 THEN a \div b ELSE -((-a) \div b)
      scale(v, o, extent, no, nextent) ==
        LET num == (v - o) * nextent
        IN  no + trunc(IF num >= 0 THEN num + extent \div 2 ELSE num - extent \div 2, extent)
      pos(n, v) == scale(v, from[n], from[n + 2] - from[n], to[n], to[n + 2] - to[n])
      low(n) == Max({to[n], Min({pos(n, word[n]), to[n + 2] - 1})})
      high(n) == Max({low(n) + 1, Min({pos(n, word[n + 2]), to[n + 2]})})
  IN  <<low(1), low(2), high(1), high(2)>>

\* Committed lines keep their relative order and come before new ones.
preserveCommittedLineOwnershipOrder(items, committed) ==
  LET slots == Of(items, "line")
      old == {k \in slots : items[k].id \in committed}
      order == At(items, old) \o At(items, slots \ old)
  IN  [k \in DOMAIN items |->
         IF k \in slots THEN order[Cardinality({j \in slots : j <= k})] ELSE items[k]]

\* What the save knows of the two pages: ownership in the committed page by
\* box, carried into the draft by word identifier; new lines by box.
Compared(base, proposed) ==
  LET newLines == IdsOf(proposed, "line") \ IdsOf(base, "line")
      existing == IdsOf(proposed, "line") \cap IdsOf(base, "line")
      baseWords == IdsOf(base, "word")
      assigned == locatedWords(proposed, newLines)
      sync == {l \in newLines :
                 lineAndWordsSynchronized(proposed[Find(proposed, l)], Picked(proposed, assigned[l]))}
  IN  [newLines |-> newLines, existing |-> existing,
       removed |-> IdsOf(base, "line") \ IdsOf(proposed, "line"),
       baseWords |-> baseWords,
       owned |-> locatedWords(base, IdsOf(base, "line")),
       adopted |-> [l \in newLines |-> {proposed[k].id : k \in ToSet(assigned[l])}],
       sync |-> sync,
       claimed |-> UNION {{proposed[k].id : k \in ToSet(assigned[l])} : l \in sync} \ baseWords]

OwnedIds(base, c, l) == {base[k].id : k \in ToSet(c.owned[l])}
Adopter(c, w) == {l \in c.newLines : w \in c.adopted[l]}

\* A removed line is replaced when all its words lie beneath synchronized new
\* lines that take nothing else but such words.
BugProtected(base, proposed, c) ==
  {l \in c.removed : \E w \in OwnedIds(base, c, l) : Adopter(c, w) # {}}

Protected(base, proposed, c) ==
  LET basic == {l \in c.removed :
                  /\ c.owned[l] # <<>>
                  /\ \A w \in OwnedIds(base, c, l) :
                       w \in IdsOf(proposed, "word") /\ Adopter(c, w) \cap c.sync # {}}
      allowed == {l \in c.sync : \A w \in c.adopted[l] \cap c.baseWords :
                    \A o \in DOMAIN c.owned : w \in OwnedIds(base, c, o) => o \in basic}
  IN  {l \in basic : \A w \in OwnedIds(base, c, l) : Adopter(c, w) \subseteq allowed}

\* New words of a line that stays: those named after it, then those in it.
NewWords(proposed, c, l) ==
  LET named(x) == {WordId(x, n) : n \in 1 .. Len(proposed[Find(proposed, x)].text)}
      inside == assignSpatialWordsToLines(proposed, c.existing)[l]
      fresh == IdsOf(proposed, "word") \ (c.baseWords \cup c.claimed)
      byId == UNION {named(x) : x \in c.existing}
  IN  fresh \cap (named(l) \cup ({proposed[k].id : k \in ToSet(inside)} \ byId))

wordIdentityTextSequence(words) == [k \in DOMAIN words |-> <<words[k].id, words[k].text>>]

\* The outcome for a line that stays: its item, and its generated words (or
\* "keep").  The empty set refuses the save.
ReconcileWords(was, now, baseWords, words, proposed, rev) ==
  LET line == IF was.box = now.box THEN now ELSE [now EXCEPT !.sel = 0]
      kept(x) == {[line |-> x, words |-> words, generated |-> FALSE]}
  IN  CASE was.text # now.text /\ baseWords # <<>> ->
             IF Ids(baseWords) # Ids(words)
             THEN IF lineAndWordsSynchronized(now, words) THEN kept(line) ELSE {}
             ELSE IF Len(proposed) - Len(baseWords) + Len(now.text) > MaxAnnotationsPerPage THEN {}
             ELSE {[line |-> line, words |-> g, generated |-> TRUE] :
                     g \in reconcileLineTokens(now, baseWords, proposed, rev)}
        [] ~(was.text # now.text /\ baseWords # <<>>) /\ wordIdentityTextSequence(baseWords) # wordIdentityTextSequence(words) ->
             kept(setAnnotationText(line, normalizedAnnotationTexts(words)))
        [] OTHER ->
             IF \/ was.box = now.box \/ baseWords = <<>>
                \/ \E k \in DOMAIN words : words[k].box # baseWords[k].box
                \/ annotationUnion(words) = now.box
             THEN kept(line)
             ELSE {[line |-> line, generated |-> FALSE,
                    words |-> [k \in DOMAIN words |->
                      retargetExistingWord(words[k], proportionalWordBox(was.box, now.box, baseWords[k].box))]]}

ReconcileLine(base, proposed, c, l, rev) ==
  LET mine == OwnedIds(base, c, l) \cup NewWords(proposed, c, l)
      words == sortLocatedWordsWithinLine(proposed, {k \in Of(proposed, "word") : proposed[k].id \in mine})
  IN  ReconcileWords(base[Find(base, l)], proposed[Find(proposed, l)],
                     Picked(base, c.owned[l]), Picked(proposed, words), proposed, rev)

\* A new line with new words must read as its words do, and a removed line whose
\* words a new line takes must be replaced completely.
Refused(base, c, lost) ==
  \/ \E l \in c.newLines \ c.sync : ~(c.adopted[l] \subseteq c.baseWords)
  \/ \E l \in lost : \E w \in OwnedIds(base, c, l) : Adopter(c, w) # {}

\* The draft with the outcome of every line that stays in place, unless the save
\* is refused.
ApplyOutcome(base, proposed, c, lost, outcome) ==
  LET the(l) == CHOOSE o \in outcome[l] : TRUE
      rebuilt == {l \in c.existing : the(l).generated}
      gone == UNION {OwnedIds(base, c, l) : l \in lost \cup rebuilt}
      moved(item) == LET in == {l \in c.existing \ rebuilt : item.id \in Ids(the(l).words)}
                     IN  IF in = {} THEN item
                         ELSE LET ws == the(CHOOSE l \in in : TRUE).words IN ws[Find(ws, item.id)]
      result == Concat([k \in DOMAIN proposed |->
                  LET item == proposed[k]
                  IN  IF item.kind = "word" THEN IF item.id \in gone THEN <<>> ELSE <<moved(item)>>
                      ELSE IF item.id \notin c.existing THEN <<item>>
                      ELSE <<the(item.id).line>> \o (IF item.id \in rebuilt THEN the(item.id).words ELSE <<>>)])
  IN  IF Refused(base, c, lost) \/ \E l \in c.existing : outcome[l] = {} THEN {}
      ELSE IF Len(result) > MaxAnnotationsPerPage THEN {}
      ELSE {preserveCommittedLineOwnershipOrder(result, IdsOf(base, "line"))}

ReconcileCompared(base, proposed, c, rev) ==
  ApplyOutcome(base, proposed, c, c.removed \ Protected(base, proposed, c),
               [l \in c.existing |-> ReconcileLine(base, proposed, c, l, rev)])

reconcileEditedLineWords(base, proposed, rev) == ReconcileCompared(base, proposed, Compared(base, proposed), rev)

\* The worker's own reconciliation: a transcribed line keeps its words when
\* their number is right, and loses them otherwise.
reconcileTranscribedLineWords(items, authoritative) ==
  LET owned == assignSpatialWordsToLines(items, IdsOf(items, "line"))
      right == {l \in authoritative : Len(owned[l]) = Len(items[Find(items, l)].text)}
      gone == UNION {ToSet(owned[l]) : l \in authoritative \ right}
      text(k) == {items[Find(items, l)].text[n] :
                    <<l, n>> \in {p \in right \X (1 .. Len(items)) : p[2] <= Len(owned[p[1]]) /\ owned[p[1]][p[2]] = k}}
  IN  At([k \in DOMAIN items |->
            IF text(k) = {} \/ items[k].text = <<CHOOSE t \in text(k) : TRUE>> THEN items[k]
            ELSE [items[k] EXCEPT !.text = <<CHOOSE t \in text(k) : TRUE>>, !.body = 0]],
         (DOMAIN items) \ gone)

-----------------------------------------------------------------------------
(* Editors *)

NoDraft == [phase |-> "none"]

GetAnnotationPage(e) ==
  /\ draft[e].phase = "none"
  /\ revision < MaxRevision
  /\ draft' = [draft EXCEPT ![e] = [phase |-> "open", items |-> page, rev |-> revision, edits |-> 0]]
  /\ UNCHANGED <<page, revision, worker>>

Change(e, op, results) ==
  /\ op \in Operations
  /\ draft[e].phase = "open"
  /\ draft[e].edits < MaxEdits
  /\ \E r \in results : draft' = [draft EXCEPT ![e].items = r, ![e].edits = @ + 1]
  /\ UNCHANGED <<page, revision, worker>>

transformAnnotationDraft(e, op, results) ==
  /\ draft[e].phase = "open"
  /\ ValidateCanonicalAnnotationPage(draft[e].items)
  /\ Change(e, op, {r \in results : ValidateCanonicalAnnotationPage(r)})

LinesIn(e) == IF draft[e].phase = "open" THEN Of(draft[e].items, "line") ELSE {}
WordsIn(e) == IF draft[e].phase = "open" THEN Of(draft[e].items, "word") ELSE {}

SplitLineIntoWords(e, k, requested) ==
  transformAnnotationDraft(e, "words", splitDraftLineIntoWords(draft[e].items, k, requested))
SplitPageIntoWords(e) ==
  transformAnnotationDraft(e, "page", splitDraftPageIntoWords(draft[e].items))
SplitLineIntoTwoLines(e, k, at) ==
  transformAnnotationDraft(e, "halves", splitDraftLineIntoTwo(draft[e].items, k, at))
JoinLines(e, S) ==
  transformAnnotationDraft(e, "lines", joinDraftLines(draft[e].items, S))
JoinWordsIntoLine(e, S) ==
  transformAnnotationDraft(e, "join", joinDraftWordsIntoLine(draft[e].items, S))

\* The model reads one line, or every line of the page, again.
enrichSingleAnnotation(item, text) == [item EXCEPT !.text = text, !.body = 0]

EnrichAnnotation(e, S, text) ==
  /\ Cardinality(S) <= MaxPageEnrichmentLines
  /\ Change(e, "enrich", {[k \in DOMAIN draft[e].items |->
                            IF k \in S THEN enrichSingleAnnotation(draft[e].items[k], text)
                            ELSE draft[e].items[k]]})

\* What an editor does by hand.  Lines are kept apart.
Apart(items, k, box) ==
  \A j \in Of(items, "line") \ {k} :
     LET b == items[j].box IN b[3] <= box[1] \/ box[3] <= b[1] \/ b[4] <= box[2] \/ box[4] <= b[2]

EditText(e, k, text) ==
  Change(e, IF draft[e].items[k].kind = "line" THEN "line" ELSE "word",
         {[draft[e].items EXCEPT ![k].text = text]})
DeleteItem(e, k) == Change(e, "delete", {At(draft[e].items, (DOMAIN draft[e].items) \ {k})})
ResizeLine(e, k, box) ==
  /\ Apart(draft[e].items, k, box)
  /\ Change(e, "resize", {[draft[e].items EXCEPT ![k].box = box]})
DrawLine(e, box, text, id) ==
  /\ draft[e].phase = "open"
  /\ Apart(draft[e].items, 0, box)
  /\ Change(e, "draw", {<<Item(id, "line", box, text, 0)>> \o draft[e].items})

-----------------------------------------------------------------------------
(* Saving *)

\* A draft that is refused is dropped, any other is on its way to the database.
Reconciled(e, results) ==
  draft' = [draft EXCEPT ![e] =
              IF results = {} THEN NoDraft
              ELSE [phase |-> "saving", rev |-> @.rev, base |-> page, items |-> CHOOSE r \in results : TRUE]]

\* SaveAnnotationPage reads the committed page and reconciles against it.
saveCanonicalAnnotationPage(e) ==
  /\ draft[e].phase = "open"
  /\ draft[e].edits > 0
  /\ Reconciled(e, {s \in UNION {NormalizeAnnotationPage(r) : r \in
                                   UNION {reconcileEditedLineWords(page, d, draft[e].rev) :
                                            d \in NormalizeAnnotationPage(draft[e].items)}} :
                       ValidateAnnotationPageGeometry(s)})
  /\ UNCHANGED <<page, revision, worker>>

BugExpected(rev) == rev <= revision

Expected(rev) == rev = revision

\* savePage replaces the page if its revision is still the expected one.
SavePageWithCorrectionMetric(e) ==
  /\ draft[e].phase = "saving"
  /\ revision < MaxRevision
  /\ IF Expected(draft[e].rev)
     THEN page' = draft[e].items /\ revision' = revision + 1
     ELSE UNCHANGED <<page, revision>>
  /\ draft' = [draft EXCEPT ![e] = NoDraft]
  /\ UNCHANGED worker

Idle == [phase |-> "idle"]

StartTranscription ==
  /\ "worker" \in Operations
  /\ worker.phase = "idle"
  /\ revision < MaxRevision
  /\ Of(page, "line") # {}
  /\ worker' = [phase |-> "running", items |-> page, rev |-> revision]
  /\ UNCHANGED <<page, revision, draft>>

\* The attempt ends with new texts for the lines it could read.
SavePageAndCompleteTranscriptionJob(S, text) ==
  /\ worker.phase = "running"
  /\ revision < MaxRevision
  /\ LET read == [k \in DOMAIN worker.items |->
                    IF k \in S THEN enrichSingleAnnotation(worker.items[k], text) ELSE worker.items[k]]
     IN  IF Expected(worker.rev)
         THEN /\ page' = reconcileTranscribedLineWords(read, {read[k].id : k \in S})
              /\ revision' = revision + 1
         ELSE UNCHANGED <<page, revision>>
  /\ worker' = Idle
  /\ UNCHANGED draft

-----------------------------------------------------------------------------
Init ==
  /\ page \in Pages
  /\ revision = 1
  /\ draft = [e \in Editors |-> NoDraft]
  /\ worker = Idle

EditorNext(e) ==
  \/ GetAnnotationPage(e)
  \/ \E k \in LinesIn(e) : \/ \E t \in Texts \cup {<<>>} : SplitLineIntoWords(e, k, t)
                           \/ \E at \in 0 .. 1 : SplitLineIntoTwoLines(e, k, at)
                           \/ \E b \in Boxes : ResizeLine(e, k, b)
                           \/ \E t \in Texts : EditText(e, k, t)
  \/ SplitPageIntoWords(e)
  \/ \E S \in SUBSET LinesIn(e) : /\ Cardinality(S) >= 2
                                  /\ JoinLines(e, S)
  \/ \E S \in SUBSET WordsIn(e) : /\ Cardinality(S) >= 2
                                  /\ JoinWordsIntoLine(e, S)
  \/ \E S \in {{k} : k \in LinesIn(e)} \cup {LinesIn(e)}, t \in Texts : EnrichAnnotation(e, S, t)
  \/ \E k \in WordsIn(e), t \in Tokens : EditText(e, k, <<t>>)
  \/ \E k \in LinesIn(e) \cup WordsIn(e) : DeleteItem(e, k)
  \/ \E b \in Boxes, t \in Texts : \/ DrawLine(e, b, t, [client |-> e])
                                   \/ draft[e].phase = "open" /\ DrawLine(e, b, t, [drawn |-> e, on |-> revision, edit |-> draft[e].edits])
  \/ saveCanonicalAnnotationPage(e)
  \/ SavePageWithCorrectionMetric(e)

Next ==
  \/ \E e \in Editors : EditorNext(e)
  \/ StartTranscription
  \/ \E S \in SUBSET (IF worker.phase = "running" THEN Of(worker.items, "line") ELSE {}), t \in Texts :
       SavePageAndCompleteTranscriptionJob(S, t)

Spec == Init /\ [][Next]_vars

-----------------------------------------------------------------------------
\* The committed page is a canonical page inside its image.
TypeOK ==
  /\ ValidateCanonicalAnnotationPage(page)
  /\ ValidateAnnotationPageGeometry(page)
  /\ revision \in 1 .. MaxRevision
  /\ \A e \in Editors : draft[e].phase \in {"none", "open", "saving"}
  /\ worker.phase \in {"idle", "running"}

\* Whichever view an editor or the worker changed, every committed line that
\* has words reads as they do, so reload, search, publication and exports
\* observe one text (reconcileEditedLineWords, reconcileTranscribedLineWords).
ViewsAgree ==
  \A l \in IdsOf(page, "line") :
    LET words == Picked(page, wordsForLine(page, l))
    IN  words # <<>> => page[Find(page, l)].text = normalizedAnnotationTexts(words)

\* No two annotations of the committed page give one embedded resource two
\* values: what a split, join or reconciliation derives is anonymous.
ResourcesUnambiguous ==
  \A j, k \in DOMAIN page :
    /\ page[j].body # 0 /\ page[j].body = page[k].body => page[j].text = page[k].text
    /\ page[j].sel # 0 /\ page[j].sel = page[k].sel => page[j].box = page[k].box

\* Of every step: a save replaces exactly the page it was reconciled against.
ReconciledAgainstReplaced ==
  page' # page => \/ worker'.phase = "idle" /\ worker.phase = "running" /\ worker.items = page
                  \/ \E e \in Editors : draft[e].phase = "saving" /\ draft[e].base = page

\* The tokens of an edited line that keep their word annotations are a
\* longest common subsequence of the two texts, whatever prefix and suffix
\* longestCommonTokenMatches set aside first.
MatchesAreLongest ==
  LET strings == UNION {[1 .. n -> {1, 2}] : n \in 0 .. 4}
      common(a, b) == {n \in 0 .. Len(a) : \E A \in kSubset(n, DOMAIN a), B \in kSubset(n, DOMAIN b) :
                         At(a, A) = At(b, B)}
  IN  \A a, b \in strings :
        LET m == longestCommonTokenMatches(a, b)
        IN  /\ \A p \in m : a[p[1]] = b[p[2]]
            /\ \A p, q \in m : p[1] < q[1] <=> p[2] < q[2]
            /\ Cardinality(m) = Max(common(a, b))

\* A draft that only JoinLines changed since it was loaded can be saved.
JoinedLinesSave ==
  \A e \in Editors :
    draft[e].phase = "open" /\ draft[e].edits > 0 /\ draft[e].rev = revision
      => reconcileEditedLineWords(page, draft[e].items, revision) # {}
============================================================================
