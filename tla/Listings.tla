------------------------------ MODULE Listings ------------------------------
(***************************************************************************)
(* The four keyset listings of the API: items, transcription jobs,         *)
(* contexts and selection rules.  A client walks a listing page by page    *)
(* while other requests insert, delete and change rows.  Each page is one  *)
(* query for pageSize + 1 rows after the cursor of the previous page, and  *)
(* the cursor travels in a signed token that is bound to the listing, the  *)
(* workspace and the filter.  An item page runs a second query for its     *)
(* previews in the same REPEATABLE READ transaction.                       *)
(*                                                                         *)
(* One behaviour walks one listing.  A row has a filter value (the query   *)
(* it matches, its image, its scope or its context) and the columns it is  *)
(* sorted by; a sort key is a tuple compared column by column.             *)
(***************************************************************************)
EXTENDS Integers, Sequences, FiniteSets, FiniteSetsExt, SequencesExt

CONSTANTS Ids,              \* row identifiers, consecutive numbers from 1
          MaxTime,          \* bound on the created_at clock, and on priorities
          PageSizes,        \* page sizes a client asks for
          DefaultPageSize,  \* the page size of a request that gives 0
          MaxPageSize       \* the largest page size accepted

ListingsAssumption ==
  /\ PageSizes \subseteq Nat
  /\ Ids \subseteq Nat \ {0}
  /\ {DefaultPageSize, MaxPageSize} \subseteq Nat \ {0}
  /\ DefaultPageSize <= MaxPageSize

VARIABLES listing,  \* which listing this behaviour walks
          rows,     \* the rows of the table
          issued,   \* identifiers ever used
          clock,    \* created_at of the next row
          walk      \* the client: filter, token, pages so far

vars == <<listing, rows, issued, clock, walk>>

AllListings == {"items", "jobs", "contexts", "rules"}
Filters == {"f", "g"}    \* for contexts: "f" a workspace row, "g" a system row

-----------------------------------------------------------------------------
(* The page queries: WHERE the filter holds and the sort key is after the   *)
(* cursor, ORDER BY the sort key, LIMIT.                                    *)

Bit(b) == IF b THEN 1 ELSE 0

\* created_at DESC, id DESC for items and jobs; is_default DESC, system
\* DESC, id for contexts; priority DESC, id for rules.
Key(r) == CASE listing \in {"items", "jobs"} -> <<-r.at, -r.id>>
            [] listing = "contexts" -> <<-Bit(r.default), -Bit(r.filter = "g"), r.id>>
            [] listing = "rules" -> <<-r.at, r.id>>

Before(a, b) ==
  \E n \in DOMAIN a : a[n] < b[n] /\ \A k \in 1 .. n - 1 : a[k] = b[k]

NoCursor == <<>>

BugAfter(r, cursor) == cursor = NoCursor \/ cursor[1] < Key(r)[1]

After(r, cursor) == cursor = NoCursor \/ Before(cursor, Key(r))

Ordered(S, limit) ==
  LET sorted == SetToSortSeq(S, LAMBDA a, b : Before(Key(a), Key(b)))
  IN  SubSeq(sorted, 1, Min({limit, Len(sorted)}))

\* A filter "" lists everything.
ListItemSummariesPage(query, cursor, limit) ==
  Ordered({r \in rows : query \in {"", r.filter} /\ After(r, cursor)}, limit)

ListTranscriptionJobsByItemImagePage(image, cursor, limit) ==
  Ordered({r \in rows : r.filter = image /\ After(r, cursor)}, limit)

ListTranscriptionJobsByWorkspacePage(cursor, limit) ==
  Ordered({r \in rows : After(r, cursor)}, limit)

\* A context list is everything the workspace can read, or system rows only.
ListContextsPageForWorkspace(systemOnly, cursor, limit) ==
  Ordered({r \in rows : (systemOnly => r.filter = "g") /\ After(r, cursor)}, limit)

ListSelectionRulesPageForWorkspace(context, cursor, limit) ==
  Ordered({r \in rows : context \in {"", r.filter} /\ After(r, cursor)}, limit)

\* One row more than the page decides whether there is a next one; the
\* cursor of the next page is the last row of this one.
Trim(got, n) ==
  LET page == SubSeq(got, 1, Min({n, Len(got)}))
  IN  [rows |-> page,
       next |-> IF Len(got) > n THEN Key(Last(page)) ELSE NoCursor]

ItemListPage(n, query, cursor) == Trim(ListItemSummariesPage(query, cursor, n + 1), n)

ListTranscriptionJobsPage(image, cursor, limit) ==
  IF image = "" THEN ListTranscriptionJobsByWorkspacePage(cursor, limit)
                ELSE ListTranscriptionJobsByItemImagePage(image, cursor, limit)

JobListPage(n, image, cursor) == Trim(ListTranscriptionJobsPage(image, cursor, n + 1), n)

ContextListPage(n, systemOnly, cursor) ==
  Trim(ListContextsPageForWorkspace(systemOnly, cursor, n + 1), n)

ListRulePageForWorkspace(n, context, cursor) ==
  Trim(ListSelectionRulesPageForWorkspace(context, cursor, n + 1), n)

-----------------------------------------------------------------------------
(* Page tokens.  The signature covers the listing's domain prefix and the   *)
(* payload, so a token is the record of both; it decodes only for the       *)
(* listing, workspace and filter it was issued for.                         *)

NoToken == [domain |-> "none"]

Token(domain, f, cursor) ==
  IF cursor = NoCursor THEN NoToken ELSE [domain |-> domain, filter |-> f, cursor |-> cursor]

encode(query, cursor) == Token("items", query, cursor)
encodeTranscriptionJobPage(image, cursor) == Token("jobs", image, cursor)
encodeContextPage(filter, cursor) == Token("contexts", filter, cursor)
encodeSelectionRulePage(context, cursor) == Token("rules", context, cursor)

decode(t, query) == t.domain = "items" /\ t.filter = query
BugDecodeJobs(t, image) == t.domain = "jobs"
decodeTranscriptionJobPage(t, image) == t.domain = "jobs" /\ t.filter = image
decodeSelectionRulePage(t, context) == t.domain = "rules" /\ t.filter = context
\* A system-only cursor names a system row.
decodeContextPage(t, filter) ==
  t.domain = "contexts" /\ t.filter = filter /\ (filter = "g" => t.cursor[2] = -1)

PageSize(n) == IF n = 0 THEN DefaultPageSize ELSE n
SizeOK(n) == PageSize(n) <= MaxPageSize
Cursor(t) == IF t = NoToken THEN NoCursor ELSE t.cursor

normalizeItemPageRequest(n, t, query) == SizeOK(n) /\ (t = NoToken \/ decode(t, query))
normalizeTranscriptionJobPageRequest(n, t, image) ==
  SizeOK(n) /\ (t = NoToken \/ decodeTranscriptionJobPage(t, image))
normalizeContextPageRequest(n, t, filter) ==
  SizeOK(n) /\ (t = NoToken \/ decodeContextPage(t, filter))
normalizeSelectionRulePageRequest(n, t, context) ==
  SizeOK(n) /\ (t = NoToken \/ decodeSelectionRulePage(t, context))

-----------------------------------------------------------------------------
(* Other requests. *)

Row(id, f, at) == [id |-> id, filter |-> f, at |-> at, default |-> FALSE, images |-> 0]

\* Item identifiers are random; the others count up.
FreshIds == IF listing = "items" THEN Ids \ issued ELSE {id \in Ids : issued = 1 .. id - 1}

\* created_at is the clock; a rule has the priority its author gave it.
Insert(id, f, at) ==
  /\ id \in FreshIds
  /\ listing \in {"items", "jobs"} => at = clock
  /\ listing = "contexts" => at = 0
  /\ rows' = rows \cup {Row(id, f, at)}
  /\ issued' = issued \cup {id}
  /\ UNCHANGED <<listing, clock, walk>>

\* A row that leaves, or changes its place, is no longer owed to the client.
Forget(r) == walk' = [walk EXCEPT !.stable = @ \ {r.id}]

Delete(r) ==
  /\ rows' = rows \ {r}
  /\ Forget(r)
  /\ UNCHANGED <<listing, issued, clock>>

\* Making a context the default of its scope clears the scope's old default.
SetDefault(r, default) ==
  /\ listing = "contexts"
  /\ LET changed == IF default
                     THEN {x \in rows : x.filter = r.filter /\ x.default # (x = r)}
                     ELSE {x \in {r} : x.default}
     IN  /\ rows' = (rows \ changed) \cup {[x EXCEPT !.default = ~@] : x \in changed}
         /\ walk' = [walk EXCEPT !.stable = @ \ {x.id : x \in changed}]
  /\ UNCHANGED <<listing, issued, clock>>

AddImage(r) ==
  /\ listing = "items"
  /\ r.images = 0
  /\ rows' = (rows \ {r}) \cup {[r EXCEPT !.images = 1]}
  /\ UNCHANGED <<listing, issued, clock, walk>>

Tick ==
  /\ clock < MaxTime
  /\ clock' = clock + 1
  /\ UNCHANGED <<listing, rows, issued, walk>>

-----------------------------------------------------------------------------
(* The walk.  A request the handler refuses changes nothing, and the        *)
(* client may ask again; its first request is for the filter of the walk,   *)
(* a later one may pair the token with any filter.                          *)

Wanted(r, f) == f \in {"", r.filter}

StartWalk(f) ==
  /\ walk.phase = "idle"
  /\ listing = "contexts" => f \in {"", "g"}
  /\ walk' = [walk EXCEPT !.phase = "next", !.filter = f,
                          !.stable = {r.id : r \in {x \in rows : Wanted(x, f)}}]
  /\ UNCHANGED <<listing, rows, issued, clock>>

\* The client keeps what it was shown and the token of the next page.
Receive(page, images, token) ==
  walk' = [walk EXCEPT
             !.listed = @ \o [k \in DOMAIN page.rows |->
                                [id |-> page.rows[k].id, images |-> images[page.rows[k].id]]],
             !.phase = IF token = NoToken THEN "ended" ELSE "next",
             !.token = token,
             !.reading = <<>>]

Asks(kind, f) == /\ walk.phase = "next"
                 /\ listing = kind
                 /\ walk.token = NoToken => f = walk.filter

NoImages == [id \in Ids |-> 0]

ListTranscriptionJobs(n, f) ==
  /\ Asks("jobs", f)
  /\ normalizeTranscriptionJobPageRequest(n, walk.token, f)
  /\ LET page == JobListPage(PageSize(n), f, Cursor(walk.token))
     IN  Receive(page, NoImages, encodeTranscriptionJobPage(f, page.next))
  /\ UNCHANGED <<listing, rows, issued, clock>>

ListContexts(n, f) ==
  /\ Asks("contexts", f)
  /\ normalizeContextPageRequest(n, walk.token, f)
  /\ LET page == ContextListPage(PageSize(n), f = "g", Cursor(walk.token))
     IN  Receive(page, NoImages, encodeContextPage(f, page.next))
  /\ UNCHANGED <<listing, rows, issued, clock>>

ListSelectionRules(n, f) ==
  /\ Asks("rules", f)
  /\ normalizeSelectionRulePageRequest(n, walk.token, f)
  /\ LET page == ListRulePageForWorkspace(PageSize(n), f, Cursor(walk.token))
     IN  Receive(page, NoImages, encodeSelectionRulePage(f, page.next))
  /\ UNCHANGED <<listing, rows, issued, clock>>

\* A page of items: the summaries first; their query fixes the snapshot.
ListItems(n, f) ==
  /\ Asks("items", f)
  /\ normalizeItemPageRequest(n, walk.token, f)
  /\ LET page == ItemListPage(PageSize(n), f, Cursor(walk.token))
     IN  walk' = [walk EXCEPT !.phase = "previews",
                              !.reading = <<page, encode(f, page.next), rows>>]
  /\ UNCHANGED <<listing, rows, issued, clock>>

ImagesIn(S) == [id \in Ids |-> IF \E r \in S : r.id = id /\ r.images = 1 THEN 1 ELSE 0]

BugPreviews(snapshot) == ImagesIn(rows)

ItemPreviews(snapshot) == ImagesIn(snapshot)

ListItemPreviewsForItemsPage ==
  /\ walk.phase = "previews"
  /\ Receive(walk.reading[1], ItemPreviews(walk.reading[3]), walk.reading[2])
  /\ UNCHANGED <<listing, rows, issued, clock>>

\* A client starts over.
Restart ==
  /\ walk.phase = "ended"
  /\ walk' = [phase |-> "idle", filter |-> "", token |-> NoToken, listed |-> <<>>,
              stable |-> {}, reading |-> <<>>]
  /\ UNCHANGED <<listing, rows, issued, clock>>

-----------------------------------------------------------------------------
Init ==
  /\ listing \in AllListings
  /\ rows = {}
  /\ issued = {}
  /\ clock = 1
  /\ walk = [phase |-> "idle", filter |-> "", token |-> NoToken, listed |-> <<>>,
             stable |-> {}, reading |-> <<>>]

Next ==
  \/ \E id \in Ids, f \in Filters, at \in 0 .. MaxTime : Insert(id, f, at)
  \/ \E r \in rows : Delete(r) \/ AddImage(r) \/ \E b \in BOOLEAN : SetDefault(r, b)
  \/ Tick
  \/ \E f \in Filters \cup {""} : StartWalk(f)
  \/ \E n \in PageSizes, f \in Filters \cup {""} :
       \/ ListItems(n, f)
       \/ ListTranscriptionJobs(n, f)
       \/ ListContexts(n, f)
       \/ ListSelectionRules(n, f)
  \/ ListItemPreviewsForItemsPage
  \/ Restart

Spec == Init /\ [][Next]_vars

-----------------------------------------------------------------------------
\* Rows have distinct identifiers that were issued.
TypeOK ==
  /\ listing \in AllListings
  /\ {r.id : r \in rows} \subseteq issued /\ issued \subseteq Ids
  /\ \A r, s \in rows : r.id = s.id => r = s
  /\ clock \in 1 .. MaxTime
  /\ walk.phase \in {"idle", "next", "previews", "ended"}
  /\ walk.stable \subseteq issued

Times(id) == Cardinality({k \in DOMAIN walk.listed : walk.listed[k].id = id})

\* A walk of normalizeItemPageRequest / ListPage pages never shows a row
\* twice, and when next_page_token comes back empty it has shown every row
\* of the filter that was there from the first request on, in its place,
\* whatever was inserted and deleted meanwhile.  (A context that changes its
\* default flag changes its place; it is owed to nobody.)
StableRowsOnce ==
  /\ \A id \in issued :
        (listing # "contexts" \/ id \in walk.stable) => Times(id) <= 1
  /\ walk.phase = "ended" => \A id \in walk.stable : Times(id) = 1

\* Of every step: the previews of an item page come from the snapshot of its summaries, so
\* a listed item never loses its preview to a request between the queries.
PreviewsOfSnapshot ==
  (walk.phase = "previews" /\ walk.listed' # walk.listed) =>
     \A k \in DOMAIN walk.reading[1].rows :
        walk.listed'[Len(walk.listed) + k].images = walk.reading[1].rows[k].images
=============================================================================
