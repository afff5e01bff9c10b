----------------------------- MODULE ItemExport -----------------------------
(***************************************************************************)
(* Exporting a whole item.  PrepareItemExport checks the revisions the     *)
(* client saw and signs their digest into a token; the download finds the  *)
(* revisions again, loads the pages, stages the file and only then starts  *)
(* its answer.  Every read is a statement of its own, and editors, uploads *)
(* and other exports run between them.                                     *)
(*                                                                         *)
(* A page is its revision and its size; what it says is its revision.  A   *)
(* digest is the vector it is computed from.                               *)
(***************************************************************************)
EXTENDS Integers, Sequences, FiniteSets, SequencesExt, FiniteSetsExt

CONSTANTS Exporters,
          Ids,              \* images the item may come to have, in order
          Sizes,            \* bytes of a page
          Formats,          \* "txt", "pdf"
          MaxSourceBytes, MaxOutputBytes, MaxPageBytes,
          Slots,            \* concurrent exports of one workspace
          TokenTTL,
          MaxRevision,      \* bound on saves of one page
          MaxTime           \* bound on the clock

ItemExportAssumption ==
  /\ {MaxSourceBytes, MaxOutputBytes, MaxPageBytes, Slots, TokenTTL, MaxRevision} \subseteq Nat \ {0}
  /\ Sizes \subseteq Nat \ {0}
  /\ MaxTime \in Nat

VARIABLES pages,     \* the item's pages: sequence of [id, revision, bytes]
          history,   \* every revision vector the item has had
          token,     \* the last token issued
          slots,     \* export slots in use
          work,      \* exporter -> what it does
          now

vars == <<pages, history, token, slots, work, now>>

Vector(ps) == [k \in DOMAIN ps |-> [id |-> ps[k].id, revision |-> ps[k].revision]]
Bytes(ps) == FoldSeq(LAMBDA p, sum : p.bytes + sum, 0, ps)
ImagesOf(ps) == [k \in DOMAIN ps |-> ps[k].id]

NoToken == [vector |-> <<>>, format |-> "none", expires |-> 0]
Idle == [phase |-> "idle", op |-> "none", token |-> NoToken, expected |-> <<>>,
         images |-> <<>>, plan |-> <<>>, held |-> <<>>, staged |-> 0, out |-> 0]

-----------------------------------------------------------------------------
(* Everybody else *)

SavePage(k) ==
  /\ pages[k].revision < MaxRevision
  /\ \E b \in Sizes : pages' = [pages EXCEPT ![k] = [id |-> @.id, revision |-> @.revision + 1, bytes |-> b]]
  /\ history' = history \cup {Vector(pages')}
  /\ UNCHANGED <<token, slots, work, now>>

\* An upload commits an image and its first page together.
AddImage ==
  /\ Len(pages) < Len(Ids)
  /\ \E b \in Sizes : pages' = Append(pages, [id |-> Ids[Len(pages) + 1], revision |-> 1, bytes |-> b])
  /\ history' = history \cup {Vector(pages')}
  /\ UNCHANGED <<token, slots, work, now>>

Tick ==
  /\ now < MaxTime
  /\ now' = now + 1
  /\ UNCHANGED <<pages, history, token, slots, work>>

-----------------------------------------------------------------------------
(* The steps exports are made of *)

TryAcquire == slots < Slots /\ slots' = slots + 1

BugEnd(e) == work' = [work EXCEPT ![e] = Idle] /\ slots' = IF work[e].staged = 0 THEN slots - 1 ELSE slots

\* Every way out closes the staged file and gives the slot back.
End(e) == work' = [work EXCEPT ![e] = Idle] /\ slots' = slots - 1

\* The item's images, then in the next statement its revisions.
itemForRequest(e) ==
  /\ work[e].phase = "begun"
  /\ work' = [work EXCEPT ![e].phase = "item", ![e].images = ImagesOf(pages)]
  /\ UNCHANGED <<pages, history, token, slots, now>>

enforceItemExportSourceLimit(ps) == Bytes(ps) <= MaxSourceBytes

\* The revisions are of the images just read, small enough, and, when the
\* client named revisions, those.
loadCanonicalItemExportSnapshot(e) ==
  /\ ImagesOf(pages) = work[e].images
  /\ enforceItemExportSourceLimit(pages)
  /\ work[e].expected # <<>> => work[e].expected = Vector(pages)

BugLoadItemPages == pages

\* The statement answers with no rows when the pages together are too large.
LoadItemPages == IF enforceItemExportSourceLimit(pages) THEN pages ELSE <<>>

BugSamePlan(e, ps) == ImagesOf(ps) = ImagesOf(work[e].plan)

SamePlan(e, ps) == Vector(ps) = work[e].plan

-----------------------------------------------------------------------------
(* PrepareItemExport *)

\* The client may name any revisions it has seen.
PrepareItemExport(e, format, expected) ==
  /\ work[e].phase = "idle"
  /\ TryAcquire
  /\ work' = [work EXCEPT ![e] = [Idle EXCEPT !.phase = "begun", !.op = "prepare", !.expected = expected,
                                              !.token = [NoToken EXCEPT !.format = format]]]
  /\ UNCHANGED <<pages, history, token, now>>

encode(e) ==
  /\ work[e].phase = "item"
  /\ work[e].op = "prepare"
  /\ token' = IF loadCanonicalItemExportSnapshot(e)
              THEN [vector |-> Vector(pages), format |-> work[e].token.format, expires |-> now + TokenTTL]
              ELSE token
  /\ End(e)
  /\ UNCHANGED <<pages, history, now>>

-----------------------------------------------------------------------------
(* The download *)

decode(t) == t # NoToken /\ now < t.expires

handlePreparedItemExport(e) ==
  /\ work[e].phase = "idle"
  /\ decode(token)
  /\ TryAcquire
  /\ work' = [work EXCEPT ![e] = [Idle EXCEPT !.phase = "begun", !.op = "download", !.token = token]]
  /\ UNCHANGED <<pages, history, token, now>>

\* The digest of the revisions found now must be the token's.
ComparePlan(e) ==
  /\ work[e].phase = "item"
  /\ work[e].op = "download"
  /\ IF loadCanonicalItemExportSnapshot(e) /\ Vector(pages) = work[e].token.vector
     THEN work' = [work EXCEPT ![e].phase = "plan", ![e].plan = Vector(pages)] /\ UNCHANGED slots
     ELSE End(e)
  /\ UNCHANGED <<pages, history, token, now>>

LoadPages(e) ==
  /\ work[e].phase = "plan"
  /\ work' = [work EXCEPT ![e].phase = "loaded", ![e].held = LoadItemPages]
  /\ UNCHANGED <<pages, history, token, slots, now>>

loadCanonicalItemExportPages(e) ==
  /\ work[e].phase = "loaded"
  /\ IF SamePlan(e, work[e].held) THEN work' = [work EXCEPT ![e].phase = "stage"] /\ UNCHANGED slots ELSE End(e)
  /\ UNCHANGED <<pages, history, token, now>>

\* One page, and the separator before it, into the bounded file; for a PDF the
\* file is the archive the converter is sent.
renderAnnotationExport(p) == p.bytes <= MaxPageBytes

BugWrite(total) == TRUE

boundedExportWriter(total) == total <= MaxOutputBytes

stageCanonicalItemExport(e) ==
  /\ work[e].phase = "stage"
  /\ work[e].staged < Len(work[e].held)
  /\ LET p == work[e].held[work[e].staged + 1]
         total == work[e].out + p.bytes + (IF work[e].staged > 0 THEN 1 ELSE 0)
     IN  IF renderAnnotationExport(p) /\ boundedExportWriter(total)
         THEN work' = [work EXCEPT ![e].staged = @ + 1, ![e].out = total] /\ UNCHANGED slots
         ELSE End(e)
  /\ UNCHANGED <<pages, history, token, now>>

\* A PDF comes back from the converter whole, or is refused.
stagePDFItemExport(e) ==
  /\ work[e].phase = "stage"
  /\ work[e].token.format = "pdf"
  /\ work[e].staged = Len(work[e].held)
  /\ \E size \in Sizes : /\ boundedExportWriter(size)
                         /\ work' = [work EXCEPT ![e].phase = "send", ![e].out = size]
  /\ UNCHANGED <<pages, history, token, slots, now>>

SendHeaders(e) ==
  /\ work[e].phase = "stage"
  /\ work[e].token.format # "pdf"
  /\ work[e].staged = Len(work[e].held)
  /\ work' = [work EXCEPT ![e].phase = "send"]
  /\ UNCHANGED <<pages, history, token, slots, now>>

\* The answer has been written, or the client went away in the middle of it.
copyExportContent(e) ==
  /\ work[e].phase = "send"
  /\ End(e)
  /\ UNCHANGED <<pages, history, token, now>>

-----------------------------------------------------------------------------
(* ExportAnnotationPage: one page at the revision the client saw *)

ExportAnnotationPage(e, id, revision) ==
  /\ work[e].phase = "idle"
  /\ TryAcquire
  /\ work' = [work EXCEPT ![e] = [Idle EXCEPT !.phase = "page", !.op = "page",
                                              !.token.vector = <<[id |-> id, revision |-> revision]>>]]
  /\ UNCHANGED <<pages, history, token, now>>

loadCanonicalExportPage(e) ==
  /\ work[e].phase = "page"
  /\ LET found == SelectSeq(pages, LAMBDA p : p.id = work[e].token.vector[1].id)
     IN  IF Vector(found) = work[e].token.vector /\ renderAnnotationExport(found[1])
         THEN work' = [work EXCEPT ![e].phase = "send", ![e].held = found, ![e].out = found[1].bytes] /\ UNCHANGED slots
         ELSE End(e)
  /\ UNCHANGED <<pages, history, token, now>>

\* A canceled or timed out context, a failed read, render or write.
Fail(e) ==
  /\ work[e].phase \notin {"idle", "send"}
  /\ End(e)
  /\ UNCHANGED <<pages, history, token, now>>

-----------------------------------------------------------------------------
Init ==
  /\ \E b \in Sizes : pages = <<[id |-> Ids[1], revision |-> 1, bytes |-> b]>>
  /\ history = {Vector(pages)}
  /\ token = NoToken
  /\ slots = 0
  /\ work = [e \in Exporters |-> Idle]
  /\ now = 0

Next ==
  \/ \E k \in DOMAIN pages : SavePage(k)
  \/ AddImage \/ Tick
  \/ \E e \in Exporters :
       \/ \E f \in Formats, v \in history : PrepareItemExport(e, f, v)
       \/ itemForRequest(e) \/ encode(e) \/ handlePreparedItemExport(e) \/ ComparePlan(e)
       \/ LoadPages(e) \/ loadCanonicalItemExportPages(e) \/ stageCanonicalItemExport(e) \/ stagePDFItemExport(e)
       \/ SendHeaders(e) \/ copyExportContent(e) \/ loadCanonicalExportPage(e) \/ Fail(e)
       \/ \E k \in DOMAIN pages, r \in 1 .. MaxRevision : ExportAnnotationPage(e, Ids[k], r)

Spec == Init /\ [][Next]_vars

-----------------------------------------------------------------------------
\* Pages, slots and the clock are in range, and an export is in one of its phases.
TypeOK ==
  /\ Len(pages) \in 1 .. Len(Ids)
  /\ slots \in 0 .. Slots
  /\ now \in 0 .. MaxTime
  /\ \A e \in Exporters : work[e].phase \in {"idle", "begun", "item", "plan", "loaded", "stage", "send", "page"}

\* What a download or a page export starts to send is what was asked for:
\* every page at the revision in the token, all of them current at one time,
\* and whole before the first byte is sent.
ExportsAreSnapshots ==
  \A e \in Exporters :
    work[e].phase = "send" =>
      /\ Vector(work[e].held) = work[e].token.vector
      /\ work[e].op = "download" => Vector(work[e].held) \in history /\ work[e].staged = Len(work[e].held)

\* Exports stay within their limits although pages grow after their size was
\* checked: loaded bytes, staged bytes, and one slot for each running export.
ExportsAreBounded ==
  /\ slots = Cardinality({e \in Exporters : work[e].phase # "idle"})
  /\ \A e \in Exporters : /\ work[e].op = "download" => Bytes(work[e].held) <= MaxSourceBytes
                          /\ work[e].out <= MaxOutputBytes
============================================================================
