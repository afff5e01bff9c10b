---------------------------- MODULE MCComponents ----------------------------
(***************************************************************************)
(* Safety of the components that share no rows with one another, on small  *)
(* instances.  A behaviour runs one of them, the focus, over a pool of     *)
(* variables that stand for its own ones in their order; no property       *)
(* relates two components, so the product of their states would say no     *)
(* more than their sum.                                                    *)
(***************************************************************************)
EXTENDS Integers, Sequences, TLC

CONSTANTS
    n1, n2,     \* requests, workers, replicas, dispatchers: whoever acts at the same time
    i1, i2      \* images, addresses, or an actor without a rival

VARIABLES
    focus,
    s1, s2, s3, s4, s5, s6, s7, s8, s9, s10, s11, s12, s13, s14

\* Those who act at the same time differ in nothing but their names.
ComponentsSymmetry == Permutations({n1, n2})

-----------------------------------------------------------------------------
(* What the components are given.                                          *)

RoleMappings ==
    <<[roles |-> {"r"}, role |-> "create", scopes |-> {<<"items", "create">>}],
      [roles |-> {"r", "s"}, role |-> "admin", scopes |-> {<<"*", "*">>}]>>

EveryProcedure ==
    {"GetAuthMe", "ListWorkspaces", "AddWorkspaceMember", "CreateAPIKey", "GetItem", "ImportManifest", "DeleteItem",
     "UpdateContext", "ListTranscriptionJobs", "StreamTranscriptionJob", "SaveAnnotationPage",
     "CreateEditorReviewToken", "Forgotten"}

RateLimits == [address |-> [rate |-> 1, burst |-> 3], credential |-> [rate |-> 1, burst |-> 2],
               user |-> [rate |-> 1, burst |-> 1]]

ServiceAccount(regular, endpoint) ==
    [type |-> "service_account", regular |-> regular, endpoint |-> endpoint, key |-> TRUE]
Impersonation(fields) ==
    [type |-> "impersonated_service_account", regular |-> TRUE, fields |-> fields, target |-> "google",
     source |-> "authorized_user"]
CredentialFiles ==
    {ServiceAccount(TRUE, "google"), ServiceAccount(FALSE, "google"), ServiceAccount(TRUE, "other"),
     Impersonation({"type", "target", "source"}), Impersonation({"type", "target", "source", "delegates"})}

ContextOperations == {"create", "update", "delete", "rule", "use", "resolve", "remove"}

Line(n, box, text) ==
    [id |-> [root |-> n], kind |-> "line", box |-> box, text |-> text, body |-> n, sel |-> n, ext |-> "p"]
Word(n, box, text) == [Line(n, box, text) EXCEPT !.kind = "word"]
FirstLine ==
    <<Line(1, <<0, 0, 4, 4>>, <<"a", "b">>), Word(3, <<0, 0, 2, 4>>, <<"a">>), Word(4, <<2, 0, 4, 4>>, <<"b">>)>>
\* The second line is below the first and has no words, or beside it and has one.
EditedPages ==
    {FirstLine \o <<Line(2, <<0, 4, 4, 8>>, <<"c">>)>>,
     FirstLine \o <<Line(2, <<4, 0, 8, 4>>, <<"b">>), Word(5, <<4, 0, 8, 4>>, <<"b">>)>>}
DrawnBoxes == {<<0, 0, 3, 4>>, <<0, 8, 4, 12>>}

\* Equal, nested, touching and overlapping boxes.
LineBoxes == {<<0, 0, 2, 2>>, <<0, 0, 1, 1>>, <<1, 0, 2, 2>>, <<0, 1, 2, 2>>, <<1, 1, 3, 2>>}

Body(id, supported) == [id |-> id, supported |-> supported]
Annotation(bodies, target) == [body |-> bodies, painting |-> TRUE, target |-> target]
Canvas(uri, annotations, hocr) == [uri |-> uri, annotations |-> annotations, hocr |-> hocr]
Painted(uri, id, hocr) == Canvas(uri, <<Annotation(<<Body(id, TRUE)>>, uri)>>, hocr)
Presentation3(canvases, bytes) == [version |-> 3, valid |-> TRUE, bytes |-> bytes, canvases |-> canvases]
\* Whole; with a painting of another Canvas and an unsupported body; with a Canvas
\* twice; as large as is allowed; and of Presentation 2.
SourceManifests ==
    {Presentation3(<<Painted("c1", "i1", TRUE), Painted("c2", "i2", TRUE), Painted("c3", "i3", FALSE)>>, 1),
     Presentation3(<<Canvas("c1", <<Annotation(<<Body("i0", TRUE)>>, "c2"),
                                    Annotation(<<Body("i9", FALSE), Body("i1", TRUE)>>, "c1")>>, FALSE),
                     Painted("c2", "i2", TRUE)>>, 2),
     Presentation3(<<Painted("c1", "i1", TRUE), Painted("c1", "i2", FALSE)>>, 1),
     Presentation3(<<Painted("c1", "i1", TRUE)>>, 5),
     [version |-> 2, valid |-> TRUE, bytes |-> 1,
      canvases |-> <<Painted("c1", "i1", TRUE), Painted("c2", "i2", FALSE), Painted("c3", "i3", TRUE)>>]}
Document(raw, trimmed, text, valid) == [raw |-> raw, trimmed |-> trimmed, text |-> text, valid |-> valid]
\* Good ones, one that is too large, one that does not parse and a blank one.
HOCRDocuments ==
    {Document(2, 1, 1, TRUE), Document(1, 1, 2, TRUE), Document(3, 3, 0, TRUE), Document(1, 1, 0, FALSE),
     Document(1, 0, 0, TRUE)}

Migration(version, checksum, statements) ==
    [version |-> version, checksum |-> checksum, statements |-> statements]
\* A build, the next one, a build whose first file was edited and one that lost it.
SchemaBuilds ==
    {<<Migration(1, "x", 2)>>, <<Migration(1, "x", 2), Migration(2, "y", 1)>>,
     <<Migration(1, "z", 2), Migration(2, "y", 1)>>, <<Migration(2, "y", 1)>>}
LegacySchemas == {<<>>, <<[version |-> 0, checksum |-> "legacy", number |-> 1]>>}
Token(kind, chars) == [kind |-> kind, chars |-> chars]
SQLTokens ==
    {Token("word", <<"a">>), Token("delimiter", <<";">>), Token("word", <<"quote", ";", "quote">>),
     Token("word", <<"quote", "backslash", "quote", ";", "quote">>),
     Token("word", <<"backtick", "quote", "quote", "dash", "dash", "backtick">>),
     Token("word", <<"quote", "a", "quote", "quote", ";", "quote">>),
     Token("comment", <<"hash", ";", "newline">>), Token("comment", <<"dash", "dash", "quote", ";", "newline">>),
     Token("comment", <<"slash", "star", ";", "dash", "dash", "backtick", "star", "slash">>)}

-----------------------------------------------------------------------------
(* The instances.                                                          *)


\* Two logins with names that may collide, beside changes of members.
Logins == INSTANCE Identities WITH
    Procs <- {n1, n2}, Operations <- {"login", "add", "remove"}, MaxUsers <- 2, MaxWorkspaces <- 2,
    Emails <- {1, 3}, Subjects <- {2, 4}, Roles <- {"admin", "read"}, MaxAccess <- 1,
    MaxMembers <- 2, MaxSessions <- 1, MaxKeys <- 1, MaxAttempts <- 2,
    users <- s1, roles <- s2, made <- s3, sessions <- s4, keys <- s5, wlock <- s6, ulock <- s7,
    nlock <- s8, tx <- s9

\* Two changes of members and workspaces at a time.
Members == INSTANCE Identities WITH
    Procs <- {n1, n2}, Operations <- {"create", "add", "role", "remove"}, MaxUsers <- 2,
    MaxWorkspaces <- 2, Emails <- {1, 3}, Subjects <- {2, 4}, Roles <- {"admin", "read"},
    MaxAccess <- 1, MaxMembers <- 2, MaxSessions <- 1, MaxKeys <- 1, MaxAttempts <- 2,
    users <- s1, roles <- s2, made <- s3, sessions <- s4, keys <- s5, wlock <- s6, ulock <- s7,
    nlock <- s8, tx <- s9

\* Two changes of members, sessions and keys at a time.
Sessions == INSTANCE Identities WITH
    Procs <- {n1, n2}, Operations <- {"add", "remove", "session", "key"}, MaxUsers <- 2,
    MaxWorkspaces <- 2, Emails <- {1, 3}, Subjects <- {2, 4}, Roles <- {"admin", "read"},
    MaxAccess <- 1, MaxMembers <- 2, MaxSessions <- 1, MaxKeys <- 1, MaxAttempts <- 2,
    users <- s1, roles <- s2, made <- s3, sessions <- s4, keys <- s5, wlock <- s6, ulock <- s7,
    nlock <- s8, tx <- s9

Review == INSTANCE EditorReview WITH
    Procs <- {n1, n2}, Images <- {i1}, MaxIssued <- 2, MaxTokens <- 1, MaxSessions <- 1,
    TokenTTL <- 1, SessionTTL <- 2, RetainFor <- 2, MaxTime <- 3,
    images <- s1, role <- s2, tokens <- s3, claims <- s4, sessions <- s5, opened <- s6, wlock <- s7,
    tlock <- s8, ilock <- s9, tx <- s10, now <- s11

\* Vault finishes a write within the grace that its cleanup waits.
SecretStore == INSTANCE ProviderSecrets WITH
    Secrets <- {n1, n2}, Cleaners <- {n1, n2}, MaxSecrets <- 2, LateWrites <- FALSE,
    row <- s1, stale <- s2, vault <- s3, flight <- s4, request <- s5, cleaner <- s6

Calls == INSTANCE RequestAuth WITH
    Workspaces <- {1, 2}, Home <- 1, MemberRoles <- {"none", "create"},
    KeyRoles <- {"write", "admin"}, ScopeLists <- {{<<"*", "*">>}, {<<"items", "*">>}},
    Mappings <- RoleMappings, ClaimRoles <- {{"r", "s"}, {}}, Procedures <- EveryProcedure,
    access <- s1, isAdmin <- s2, key <- s3, review <- s4, present <- s5, call <- s6

IssuerKeys == INSTANCE JWKSCache WITH
    Requests <- {n1, n2}, Kids <- {1, 2}, CacheTTL <- 2, Cooldown <- 1, NegativeTTL <- 2,
    FetchTime <- 1, MaxMisses <- 1, MaxTime <- 4,
    now <- s1, published <- s2, changed <- s3, failed <- s4, cache <- s5, flight <- s6,
    request <- s7, verdict <- s8

Vault == INSTANCE VaultClient WITH
    Callers <- {n1, n2}, Timeout <- 1, Margin <- 2, Lease <- 3, MaxTTL <- 4, MaxAttempts <- 2,
    InitialDelay <- 1, MaxDelay <- 2, MaxTokens <- 2, MaxTime <- 3,
    now <- s1, issued <- s2, cached <- s3, mu <- s4, admin <- s5, call <- s6

Identity == INSTANCE ServiceIdentity WITH
    Files <- CredentialFiles, Configured <- {"s", "t"}, Others <- {"u", "v"}, Callers <- {n1, n2},
    MaxAudiences <- 3, PreflightLimit <- 1,
    file <- s1, chosen <- s2, providers <- s3, warming <- s4, process <- s5, call <- s6

Admission == INSTANCE RequestAdmission WITH
    Requests <- {n1, n2}, Addresses <- {i1, i2}, Credentials <- {i1}, Limits <- RateLimits,
    MaxRateLimitKeys <- 1, IdleTime <- 2, LargeBodies <- 2, LargeBodiesPerClient <- 1,
    CanonicalReads <- 2, CanonicalReadsPerKey <- 1, MaxTime <- 3,
    now <- s1, buckets <- s2, ideal <- s3, pool <- s4, request <- s5

\* Two replicas start while a request is served.
Presets == INSTANCE Contexts WITH
    Replicas <- {n1, n2}, Procs <- {i1},
    Operations <- {"create", "delete", "rule", "use", "resolve"}, Users <- {"u"},
    Catalog <- <<"x", "y">>, Retired <- {"o"}, LinkKinds <- {"job"}, Versions <- {1}, MaxRules <- 1,
    MaxContexts <- 4,
    contexts <- s1, issued <- s2, rules <- s3, links <- s4, members <- s5, serving <- s6,
    boot <- s7, catalogLock <- s8, xlock <- s9, slock <- s10, wlock <- s11, mlock <- s12, tx <- s13,
    verdict <- s14

\* Two requests at a time.
ContextRows == INSTANCE Contexts WITH
    Replicas <- {}, Procs <- {n1, n2}, Operations <- ContextOperations, Users <- {"u"},
    Catalog <- <<"x", "y">>, Retired <- {"o"}, LinkKinds <- {"job"}, Versions <- {1}, MaxRules <- 1,
    MaxContexts <- 3,
    contexts <- s1, issued <- s2, rules <- s3, links <- s4, members <- s5, serving <- s6,
    boot <- s7, catalogLock <- s8, xlock <- s9, slock <- s10, wlock <- s11, mlock <- s12, tx <- s13,
    verdict <- s14

ItemRows == INSTANCE ResourceGraph WITH
    Procs <- {n1, n2}, Images <- {i1}, MaxTables <- 2,
    item <- s1, batch <- s2, images <- s3, added <- s4, rows <- s5, used <- s6, queue <- s7,
    tx <- s8

Lists == INSTANCE Listings WITH
    Ids <- {1, 2, 3}, MaxTime <- 1, PageSizes <- {0, 3}, DefaultPageSize <- 2, MaxPageSize <- 2,
    listing <- s1, rows <- s2, issued <- s3, clock <- s4, walk <- s5

\* One editor with every transform but the move of a line.
Editing == INSTANCE PageEditing WITH
    Editors <- {i1}, Pages <- EditedPages, Tokens <- {"a"}, Texts <- {<<"a">>, <<"b", "a">>},
    Boxes <- DrawnBoxes,
    Operations <- {"words", "page", "halves", "lines", "join", "enrich", "line", "word",
        "delete", "draw"}, Width <- 8, Height <- 12, MaxAnnotationsPerPage <- 6,
    MaxPageEnrichmentLines <- 2, MaxEdits <- 3, MaxRevision <- 2,
    page <- s1, revision <- s2, draft <- s3, worker <- s4

\* Two editors and the worker save the same page.
Saving == INSTANCE PageEditing WITH
    Editors <- {n1, n2}, Pages <- EditedPages, Tokens <- {"a"}, Texts <- {<<"b", "a">>},
    Boxes <- DrawnBoxes, Operations <- {"line", "worker"}, Width <- 8, Height <- 12,
    MaxAnnotationsPerPage <- 6, MaxPageEnrichmentLines <- 2, MaxEdits <- 1, MaxRevision <- 3,
    page <- s1, revision <- s2, draft <- s3, worker <- s4

\* One editor who moves lines.
Moving == INSTANCE PageEditing WITH
    Editors <- {i1}, Pages <- EditedPages, Tokens <- {"a"}, Texts <- {<<"a">>, <<"b", "a">>},
    Boxes <- DrawnBoxes, Operations <- {"resize", "line", "word", "delete", "enrich"}, Width <- 8,
    Height <- 12, MaxAnnotationsPerPage <- 6, MaxPageEnrichmentLines <- 2, MaxEdits <- 2,
    MaxRevision <- 2,
    page <- s1, revision <- s2, draft <- s3, worker <- s4

LineSweep == INSTANCE SpatialIndex WITH
    Boxes <- LineBoxes, Centres <- {0, 1, 3} \X {0, 2}, LineCount <- 2, WordCount <- 2,
    lines <- s1, words <- s2, swept <- s3, nextLine <- s4, ending <- s5, nodes <- s6, active <- s7,
    owner <- s8

Delivery == INSTANCE JobDelivery WITH
    Jobs <- {1, 2}, Tasks <- {n1, n2}, Modes <- {"poll", "pull", "push"}, Workers <- 1,
    MaxOutstanding <- 1, MaxAttempts <- 2, MaxMessages <- 1, MaxFaults <- 2,
    mode <- s1, job <- s2, message <- s3, invalid <- s4, task <- s5, sem <- s6, recovery <- s7,
    process <- s8, faults <- s9

Watching == INSTANCE JobStream WITH
    Streams <- {1, 2, 3}, WorkspaceOf <- <<1, 1, 2>>, MaxSSEConnections <- 2,
    MaxSSEPerWorkspace <- 1, Segments <- 1, Second <- 2, PollInterval <- 1, MaxPollInterval <- 1,
    MaxTime <- 2,
    now <- s1, job <- s2, stream <- s3, limiter <- s4

Export == INSTANCE ItemExport WITH
    Exporters <- {n1, n2}, Ids <- <<1, 2>>, Sizes <- {1, 3}, Formats <- {"txt", "pdf"},
    MaxSourceBytes <- 4, MaxOutputBytes <- 4, MaxPageBytes <- 3, Slots <- 1, TokenTTL <- 1,
    MaxRevision <- 3, MaxTime <- 1,
    pages <- s1, history <- s2, token <- s3, slots <- s4, work <- s5, now <- s6

Import == INSTANCE ManifestImport WITH
    Manifests <- SourceManifests, Documents <- HOCRDocuments, Workers <- {n1, n2},
    MaxFetchAttempts <- 2, MaxManifestCanvases <- 3, MaxSourceManifestBytes <- 5,
    MaxRemoteHOCRBytes <- 2, MaxManifestImportBytes <- 5, JobCapacity <- 2,
    source <- s1, ctx <- s2, world <- s3, phase <- s4, canvases <- s5, group <- s6, worker <- s7,
    budget <- s8, held <- s9, item <- s10, key <- s11, answer <- s12

Schemas == INSTANCE Migrations WITH
    Processes <- {n1, n2}, Builds <- SchemaBuilds, Legacy <- LegacySchemas, MaxStarts <- 4,
    Tokens <- SQLTokens, MaxTokens <- 4,
    ledger <- s1, rows <- s2, schema <- s3, lock <- s4, proc <- s5, starts <- s6

\* The public Manifest of an item of two images.
PublicManifest == INSTANCE ItemProjection WITH
    Images <- {n1, n2}, Keys <- {"item"}, Dispatchers <- {i1, i2}, Preconditions <- 2,
    MaxAttempts <- 2, LeaseTime <- 2, OperationTime <- 1, GraceTime <- 2, RetryTime <- 0,
    BackToBack <- FALSE, MaxFailures <- 1,
    images <- s1, published <- s2, rows <- s3, manifest <- s4, graph <- s5, mirror <- s6,
    dispatcher <- s7, failures <- s8

\* The Triplet graph of an image.
ImageGraph == INSTANCE ItemProjection WITH
    Images <- {i1}, Keys <- {i1}, Dispatchers <- {n1, n2}, Preconditions <- 2, MaxAttempts <- 2,
    LeaseTime <- 2, OperationTime <- 1, GraceTime <- 2, RetryTime <- 0, BackToBack <- FALSE,
    MaxFailures <- 1,
    images <- s1, published <- s2, rows <- s3, manifest <- s4, graph <- s5, mirror <- s6,
    dispatcher <- s7, failures <- s8

\* Two publications of a page of two annotations.
Mirror == INSTANCE AnnotationMirror WITH
    Annotations <- {i1, i2}, Dispatchers <- {n1, n2}, MaxAttempts <- 2, LeaseTime <- 2,
    OperationTime <- 1, RetryTime <- 1, BackToBack <- FALSE, MaxPublished <- 2,
    published <- s1, outbox <- s2, tombstones <- s3, page <- s4, child <- s5, dispatcher <- s6

\* Three publications of a page of one annotation.
Revisions == INSTANCE AnnotationMirror WITH
    Annotations <- {i1}, Dispatchers <- {n1, n2}, MaxAttempts <- 1, LeaseTime <- 2,
    OperationTime <- 1, RetryTime <- 1, BackToBack <- FALSE, MaxPublished <- 3,
    published <- s1, outbox <- s2, tombstones <- s3, page <- s4, child <- s5, dispatcher <- s6

\* Two requests and one cleanup worker.
Storage == INSTANCE UploadStorage WITH
    Requests <- {n1, n2}, Dispatchers <- {i1}, MaxBytes <- 3, MaxImages <- 2, Sizes <- {1},
    MaxAttempts <- 1, ReservationTTL <- 1, LeaseTime <- 2, OperationTime <- 1, RetryTime <- 1,
    SweepRuns <- TRUE, NoOne <- "no one",
    pc <- s1, size <- s2, reservation <- s3, cleanup <- s4, image <- s5, blob <- s6, quota <- s7,
    worker <- s8

ASSUME
    /\ Logins!IdentitiesAssumption /\ Members!IdentitiesAssumption /\ Sessions!IdentitiesAssumption
    /\ Review!EditorReviewAssumption /\ SecretStore!ProviderSecretsAssumption /\ Calls!RequestAuthAssumption
    /\ IssuerKeys!JWKSAssumption /\ Vault!VaultClientAssumption /\ Identity!ServiceIdentityAssumption
    /\ Admission!AdmissionAssumption /\ Presets!ContextsAssumption /\ ContextRows!ContextsAssumption
    /\ ItemRows!ResourceGraphAssumption /\ Lists!ListingsAssumption /\ Editing!PageEditingAssumption
    /\ Saving!PageEditingAssumption /\ Moving!PageEditingAssumption /\ LineSweep!SpatialIndexAssumption
    /\ Delivery!JobDeliveryAssumption /\ Watching!JobStreamAssumption /\ Export!ItemExportAssumption
    /\ Import!ManifestImportAssumption /\ Schemas!MigrationsAssumption /\ PublicManifest!ProjectionAssumption
    /\ ImageGraph!ProjectionAssumption /\ Mirror!MirrorAssumption /\ Revisions!MirrorAssumption
    /\ Storage!StorageAssumption

pool == <<s1, s2, s3, s4, s5, s6, s7, s8, s9, s10, s11, s12, s13, s14>>

On(component) == focus = component

\* The variables that a component with n of its own leaves unused.
Unused12 == s13 = 0 /\ s14 = 0
Unused11 == s12 = 0 /\ Unused12
Unused9 == s10 = 0 /\ s11 = 0 /\ Unused11
Unused8 == s9 = 0 /\ Unused9
Unused6 == s7 = 0 /\ s8 = 0 /\ Unused8
Unused5 == s6 = 0 /\ Unused6
Unused4 == s5 = 0 /\ Unused5

ComponentsInit ==
    \/ focus = "logins" /\ Logins!Init /\ Unused9
    \/ focus = "members" /\ Members!Init /\ Unused9
    \/ focus = "sessions" /\ Sessions!Init /\ Unused9
    \/ focus = "review" /\ Review!Init /\ Unused11
    \/ focus = "secrets" /\ SecretStore!Init /\ Unused6
    \/ focus = "requests" /\ Calls!Init /\ Unused6
    \/ focus = "jwks" /\ IssuerKeys!Init /\ Unused8
    \/ focus = "vault" /\ Vault!Init /\ Unused6
    \/ focus = "identity" /\ Identity!Init /\ Unused6
    \/ focus = "limits" /\ Admission!Init /\ Unused5
    \/ focus = "catalog" /\ Presets!Init
    \/ focus = "contexts" /\ ContextRows!Init
    \/ focus = "graph" /\ ItemRows!Init /\ Unused8
    \/ focus = "listings" /\ Lists!Init /\ Unused5
    \/ focus = "editing" /\ Editing!Init /\ Unused4
    \/ focus = "saving" /\ Saving!Init /\ Unused4
    \/ focus = "moving" /\ Moving!Init /\ Unused4
    \/ focus = "sweep" /\ LineSweep!Init /\ Unused8
    \/ focus = "delivery" /\ Delivery!Init /\ Unused9
    \/ focus = "watching" /\ Watching!Init /\ Unused4
    \/ focus = "export" /\ Export!Init /\ Unused6
    \/ focus = "import" /\ Import!Init /\ Unused12
    \/ focus = "migrations" /\ Schemas!Init /\ Unused6
    \/ focus = "manifest" /\ PublicManifest!Init /\ Unused8
    \/ focus = "images" /\ ImageGraph!Init /\ Unused8
    \/ focus = "mirror" /\ Mirror!Init /\ Unused6
    \/ focus = "revisions" /\ Revisions!Init /\ Unused6
    \/ focus = "storage" /\ Storage!Init /\ Unused8

ComponentsNext ==
    \/ On("logins") /\ Logins!Next /\ UNCHANGED <<focus, s10, s11, s12, s13, s14>>
    \/ On("members") /\ Members!Next /\ UNCHANGED <<focus, s10, s11, s12, s13, s14>>
    \/ On("sessions") /\ Sessions!Next /\ UNCHANGED <<focus, s10, s11, s12, s13, s14>>
    \/ On("review") /\ Review!Next /\ UNCHANGED <<focus, s12, s13, s14>>
    \/ On("secrets") /\ SecretStore!Next /\ UNCHANGED <<focus, s7, s8, s9, s10, s11, s12, s13, s14>>
    \/ On("requests") /\ Calls!Next /\ UNCHANGED <<focus, s7, s8, s9, s10, s11, s12, s13, s14>>
    \/ On("jwks") /\ IssuerKeys!Next /\ UNCHANGED <<focus, s9, s10, s11, s12, s13, s14>>
    \/ On("vault") /\ Vault!Next /\ UNCHANGED <<focus, s7, s8, s9, s10, s11, s12, s13, s14>>
    \/ On("identity") /\ Identity!Next /\ UNCHANGED <<focus, s7, s8, s9, s10, s11, s12, s13, s14>>
    \/ On("limits") /\ Admission!Next /\ UNCHANGED <<focus, s6, s7, s8, s9, s10, s11, s12, s13, s14>>
    \/ On("catalog") /\ Presets!Next /\ UNCHANGED <<focus>>
    \/ On("contexts") /\ ContextRows!Next /\ UNCHANGED <<focus>>
    \/ On("graph") /\ ItemRows!Next /\ UNCHANGED <<focus, s9, s10, s11, s12, s13, s14>>
    \/ On("listings") /\ Lists!Next /\ UNCHANGED <<focus, s6, s7, s8, s9, s10, s11, s12, s13, s14>>
    \/ On("editing") /\ Editing!Next /\ UNCHANGED <<focus, s5, s6, s7, s8, s9, s10, s11, s12, s13, s14>>
    \/ On("saving") /\ Saving!Next /\ UNCHANGED <<focus, s5, s6, s7, s8, s9, s10, s11, s12, s13, s14>>
    \/ On("moving") /\ Moving!Next /\ UNCHANGED <<focus, s5, s6, s7, s8, s9, s10, s11, s12, s13, s14>>
    \/ On("sweep") /\ LineSweep!Next /\ UNCHANGED <<focus, s9, s10, s11, s12, s13, s14>>
    \/ On("delivery") /\ Delivery!Next /\ UNCHANGED <<focus, s10, s11, s12, s13, s14, s1>>
    \/ On("watching") /\ Watching!Next /\ UNCHANGED <<focus, s5, s6, s7, s8, s9, s10, s11, s12, s13, s14>>
    \/ On("export") /\ Export!Next /\ UNCHANGED <<focus, s7, s8, s9, s10, s11, s12, s13, s14>>
    \/ On("import") /\ Import!Next /\ UNCHANGED <<focus, s13, s14>>
    \/ On("migrations") /\ Schemas!Next /\ UNCHANGED <<focus, s7, s8, s9, s10, s11, s12, s13, s14>>
    \/ On("manifest") /\ PublicManifest!Next /\ UNCHANGED <<focus, s9, s10, s11, s12, s13, s14>>
    \/ On("images") /\ ImageGraph!Next /\ UNCHANGED <<focus, s9, s10, s11, s12, s13, s14>>
    \/ On("mirror") /\ Mirror!Next /\ UNCHANGED <<focus, s7, s8, s9, s10, s11, s12, s13, s14>>
    \/ On("revisions") /\ Revisions!Next /\ UNCHANGED <<focus, s7, s8, s9, s10, s11, s12, s13, s14>>
    \/ On("storage") /\ Storage!Next /\ UNCHANGED <<focus, s9, s10, s11, s12, s13, s14>>

components == <<focus, pool>>

ComponentsSpec == ComponentsInit /\ [][ComponentsNext]_components

-----------------------------------------------------------------------------
(* Properties.                                                             *)

\* Rows, locks, counters, memories and what remote systems hold have values of
\* their types, and nothing is claimed more often than its limit allows.
ComponentsTypeOK ==
    /\ On("logins") => Logins!TypeOK
    /\ On("members") => Members!TypeOK
    /\ On("sessions") => Sessions!TypeOK
    /\ On("review") => Review!TypeOK
    /\ On("secrets") => SecretStore!TypeOK
    /\ On("requests") => Calls!TypeOK
    /\ On("jwks") => IssuerKeys!TypeOK
    /\ On("vault") => Vault!TypeOK
    /\ On("identity") => Identity!TypeOK
    /\ On("limits") => Admission!TypeOK
    /\ On("catalog") => Presets!TypeOK
    /\ On("contexts") => ContextRows!TypeOK
    /\ On("graph") => ItemRows!TypeOK
    /\ On("listings") => Lists!TypeOK
    /\ On("editing") => Editing!TypeOK
    /\ On("saving") => Saving!TypeOK
    /\ On("moving") => Moving!TypeOK
    /\ On("sweep") => LineSweep!TypeOK
    /\ On("delivery") => Delivery!TypeOK
    /\ On("watching") => Watching!TypeOK
    /\ On("export") => Export!TypeOK
    /\ On("import") => Import!TypeOK
    /\ On("migrations") => Schemas!TypeOK
    /\ On("manifest") => PublicManifest!TypeOK
    /\ On("images") => ImageGraph!TypeOK
    /\ On("mirror") => Mirror!TypeOK
    /\ On("revisions") => Revisions!TypeOK
    /\ On("storage") => Storage!TypeOK

\* Logins, role changes and removals at the same time leave every workspace an
\* administrator, every email and subject one user and every catalog within its
\* limit; no two of them wait for one another, and a login opens a workspace only
\* for a user without one (internal/store/identity.go).
IdentitiesHold ==
    /\ [](On("logins") => /\ Logins!AdminsRemain /\ Logins!OneIdentity /\ Logins!CatalogsBounded
                          /\ Logins!NoWaitCycle)
    /\ [](On("members") => /\ Members!AdminsRemain /\ Members!OneIdentity /\ Members!CatalogsBounded
                           /\ Members!NoWaitCycle)
    /\ [](On("sessions") => /\ Sessions!OneIdentity /\ Sessions!CatalogsBounded /\ Sessions!NoWaitCycle)
    /\ [][On("logins") => Logins!DefaultOnlyWhenNone]_pool

\* A review link opens one session, written only while its issuer may write, and
\* retention leaves live sessions their grant (internal/store/editor_review.go).
ReviewsHold ==
    /\ [](On("review") => Review!RedeemedOnce)
    /\ [][On("review") => Review!WrittenByWriters /\ Review!RetentionKeepsParents]_pool

\* Material in Vault can be found and removed, a visible secret has its material,
\* and a removed one stays removed (connect_auth.go, store/provider_secrets.go).
SecretsTracked ==
    /\ [](On("secrets") => SecretStore!MaterialIsTracked /\ SecretStore!VisibleIsUsable)
    /\ [][On("secrets") => SecretStore!RemovalIsFinal]_pool

\* A call is allowed only what the user's standing and the credential both reach,
\* and a message only on rows that are there when it is decided
\* (internal/auth/manager.go).
DecisionsBacked ==
    /\ [](On("requests") => Calls!AllowedIsBacked)
    /\ [][On("requests") => Calls!DecisionsReadCurrentRows]_pool

\* Cached credentials are neither used too long nor fetched too often: issuer keys,
\* Vault tokens and the identity tokens of configured services.
CredentialsFresh ==
    /\ [](On("jwks") => IssuerKeys!WithdrawnKeysExpire /\ IssuerKeys!PublishedKeysAreFound)
    /\ [](On("vault") => Vault!TokensOutliveRequests /\ Vault!OneLoginAtATime)
    /\ [](On("identity") => Identity!ConfiguredAudiencesServed)
    /\ [][On("jwks") => IssuerKeys!FetchesAreSpaced]_pool

\* What is limited is counted exactly, on every path out of it: request slots and
\* rates, worker slots, attempts of a job, open streams and stored bytes, whose
\* blobs all have a row that references them or will clean them up.
SlotsAccounted ==
    /\ On("limits") => Admission!DroppingIsHarmless /\ Admission!SlotsMatchRequests
    /\ On("delivery") => Delivery!SlotsMatchTasks /\ Delivery!OneAttemptPerJob
    /\ On("watching") => Watching!StreamsAccounted
    /\ On("storage") => Storage!QuotaIsExact /\ Storage!BlobsHaveOwners

\* Replicas that start, edits, deletions and uses of contexts at the same time
\* leave no dangling reference, one default per scope, bounded rules, the whole
\* catalog, and always a context to resolve to (internal/store/contexts.go).
ContextsHold ==
    /\ On("catalog") => /\ Presets!NoDanglingLinks /\ Presets!RulesBounded /\ Presets!OneDefaultPerScope
                        /\ Presets!CatalogConverges /\ Presets!ResolutionAnswers
    /\ On("contexts") => /\ ContextRows!NoDanglingLinks /\ ContextRows!RulesBounded /\ ContextRows!OneDefaultPerScope
                         /\ ContextRows!ResolutionAnswers

\* Whatever writer runs between the statements of a deletion, no committed row is
\* without its parents, the counters equal a recount, and no image goes without
\* its cleanups (deleteItemResourceGraph, AuditRelationshipIntegrity).
GraphsWhole == On("graph") => ItemRows!NoOrphans /\ ItemRows!DeletionIsWhole

\* A walk through pages shows every row that stays exactly once, and previews of
\* the snapshot of their items (ListPage and its tokens).
ListingsStable ==
    /\ [](On("listings") => Lists!StableRowsOnce)
    /\ [][On("listings") => Lists!PreviewsOfSnapshot]_pool

\* Line and word views of a committed page agree, and each embedded resource has
\* one value; a save replaces the page it was reconciled against; kept words are a
\* longest match; the sweep gives each word the line its definition does
\* (annotation_page_transforms.go, annotation_reconciliation.go).
EditsAgree ==
    /\ [](On("editing") => Editing!ViewsAgree /\ Editing!ResourcesUnambiguous)
    /\ [](On("saving") => Saving!ViewsAgree /\ Saving!ResourcesUnambiguous)
    /\ [](On("moving") => Moving!ViewsAgree /\ Moving!ResourcesUnambiguous)
    /\ [](On("sweep") => LineSweep!EarliestLineOwns)
    /\ [][/\ On("editing") => Editing!ReconciledAgainstReplaced
          /\ On("saving") => Saving!ReconciledAgainstReplaced
          /\ On("moving") => Moving!ReconciledAgainstReplaced]_pool
    /\ On("editing") => Editing!MatchesAreLongest

\* An export sends the snapshot its token names, within the limits, and an import
\* commits the whole manifest or nothing, and leaves nothing behind
\* (item_export.go, iiif_manifest.go, prefetchManifestHOCR).
TransfersWhole ==
    /\ On("export") => Export!ExportsAreSnapshots /\ Export!ExportsAreBounded
    /\ On("import") => Import!ImportIsWhole /\ Import!NothingOutlivesImport

\* A process serves only on the whole schema of its own build, and a file of
\* migrations is split at its delimiters only (internal/database/migrate.go).
SchemasWhole ==
    /\ [](On("migrations") => Schemas!SchemaIsPrefix)
    /\ [][On("migrations") => Schemas!ServesOwnSchema]_pool
    /\ On("migrations") => Schemas!SplitsAtDelimiters

\* Triplet ends up with what was published and not deleted since: pages and their
\* children, written by one delivery at a time, the Manifest of the images that an
\* item still has, and nothing of deleted images but children whose page never
\* arrived (store/annotation_mirrors.go, triplet_presentation.go).
ProjectionsConverge ==
    /\ [](On("mirror") => Mirror!RemoteWritesSerialized /\ Mirror!MirrorConverged)
    /\ [](On("revisions") => Revisions!RemoteWritesSerialized /\ Revisions!MirrorConverged)
    /\ [](On("manifest") => PublicManifest!ManifestConverged)
    /\ [](On("images") => ImageGraph!DeletedImagesAreGone)
    /\ [][On("images") => ImageGraph!ParentsOutliveChildren]_pool
=============================================================================
