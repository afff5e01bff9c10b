---------------------------- MODULE RequestAuth ----------------------------
(***************************************************************************)
(* How a request becomes a principal, and how the principal is allowed or  *)
(* refused a procedure (internal/auth/manager.go, editor_review.go and     *)
(* external_jwt.go).  The middleware authenticates a request once, from    *)
(* the credential it carries and the rows of that moment.  The interceptor *)
(* authorizes each message of the call later, from the principal and from  *)
(* the rows of that later moment.  In between memberships change, keys are *)
(* revoked and resources are deleted.                                      *)
(*                                                                         *)
(* One user is enough: a request acts for one.  A permission is the pair   *)
(* of its namespace and its verb, a scope is a permission whose verb, or   *)
(* whose both parts, may be a star.                                        *)
(***************************************************************************)
EXTENDS Naturals, Sequences

CONSTANTS
    Workspaces,       \* that the user may be a member of
    Home,             \* the default workspace of the user
    MemberRoles,      \* the roles a membership may be given, "none" for its removal
    KeyRoles,         \* a role an API key or a JWT mapping may name
    ScopeLists,       \* the scopes such a credential may list
    Mappings,         \* RoleMappings of the JWT issuer: records of roles, role and scopes
    ClaimRoles,       \* sets of roles a token may claim
    Procedures        \* a subset of Procedure

Rank == [none |-> 0, read |-> 1, create |-> 2, write |-> 3, admin |-> 4]
Roles == DOMAIN Rank

NoPermission == <<"", "">>
unmappedProcedurePermission == <<"authz", "unmapped">>

\* The rule a procedure's descriptor carries: the type of its resource, whether a
\* field of the message names it, the level, and who may call it at all.
Rule(resource, named, level, who) == [resource |-> resource, named |-> named, level |-> level, who |-> who]

\* One procedure for each combination of rule and permission that the services use.
Procedure ==
    [GetAuthMe               |-> Rule("user", FALSE, "read", "anyone"),
     ListWorkspaces          |-> Rule("user", FALSE, "read", "session"),
     AddWorkspaceMember      |-> Rule("workspace", TRUE, "admin", "session"),
     CreateAPIKey            |-> Rule("user", FALSE, "admin", "session"),
     GetItem                 |-> Rule("item", TRUE, "read", "authenticated"),
     ImportManifest          |-> Rule("user", FALSE, "write", "authenticated"),
     DeleteItem              |-> Rule("item", TRUE, "write", "authenticated"),
     UpdateContext           |-> Rule("context", TRUE, "write", "authenticated"),
     ListTranscriptionJobs   |-> Rule("user", FALSE, "read", "authenticated"),
     StreamTranscriptionJob  |-> Rule("job", TRUE, "read", "authenticated"),
     SaveAnnotationPage      |-> Rule("image", TRUE, "write", "authenticated"),
     CreateEditorReviewToken |-> Rule("image", TRUE, "write", "authenticated"),
     Forgotten               |-> Rule("user", FALSE, "read", "authenticated")]

requiredPermissionForProcedure(procedure) ==
    CASE procedure = "AddWorkspaceMember" -> NoPermission
      [] procedure = "ListWorkspaces" -> <<"workspaces", "read">>
      [] procedure = "GetItem" -> <<"items", "read">>
      [] procedure = "ImportManifest" -> <<"items", "create">>
      [] procedure = "DeleteItem" -> <<"items", "write">>
      [] procedure = "UpdateContext" -> <<"contexts", "write">>
      [] procedure \in {"ListTranscriptionJobs", "StreamTranscriptionJob"} -> <<"transcription", "read">>
      [] procedure = "CreateAPIKey" -> <<"admin", "api_keys">>
      [] procedure = "CreateEditorReviewToken" -> <<"review_tokens", "create">>
      [] procedure = "SaveAnnotationPage" -> <<"annotations", "write">>
      [] OTHER -> unmappedProcedurePermission

RequestAuthAssumption ==
    /\ Home \in Workspaces
    /\ MemberRoles \subseteq Roles /\ KeyRoles \subseteq Roles \ {"none"}
    /\ Procedures \subseteq DOMAIN Procedure

VARIABLES
    access,       \* the user's role in each workspace, "none" where they are no member
    isAdmin,      \* the user's site-wide flag
    key,          \* the API key the user made in Home, or NoKey
    review,       \* whether a review session of the image of Home is live
    present,      \* the workspaces whose image, with its item, job and context, exists
    call          \* the request being served

vars == <<access, isAdmin, key, review, present, call>>

NoKey == [role |-> "none", scopes |-> {}]
Anonymous == [type |-> "anonymous", workspace |-> Home, role |-> "none", scopes |-> {}, image |-> FALSE, admin |-> FALSE]

\* What a call remembers: the principal, and for the record the user's role and the
\* credential's own role when it was authenticated, and whether the number of messages
\* it has received is odd.
Idle == [at |-> "idle", principal |-> Anonymous, standing |-> "none", own |-> "none",
         procedure |-> "GetAuthMe", target |-> Home, odd |-> FALSE]

-----------------------------------------------------------------------------
(* Authentication.                                                         *)

\* The credential's own role, whatever the user's standing.
BugLeastPrivileged(left, right) == left

leastPrivilegedWorkspaceRole(left, right) == IF Rank[left] <= Rank[right] THEN left ELSE right

ReviewScopes == {"items", "annotations", "transcription"} \X {"read", "write"}

Authenticated(type, workspace, role, scopes) ==
    [Anonymous EXCEPT !.type = type, !.workspace = workspace, !.role = role, !.scopes = scopes]

Attach(principal, standing, own) ==
    /\ call' = [Idle EXCEPT !.at = "authenticated", !.principal = principal, !.standing = standing, !.own = own]
    /\ UNCHANGED <<access, isAdmin, key, review, present>>

\* A browser session: the workspace is the one the request asks for, or the user's
\* default, and a workspace the user is no member of refuses the request.
SessionPrincipal(w) ==
    /\ access[w] # "none"
    /\ Attach([Authenticated("session", w, access[w], {}) EXCEPT !.admin = isAdmin], access[w], access[w])

apiKeyPrincipal ==
    /\ key # NoKey /\ access[Home] # "none"
    /\ Attach(Authenticated("api_key", Home, leastPrivilegedWorkspaceRole(key.role, access[Home]), key.scopes),
              access[Home], key.role)

\* The first mapping with a role that the token claims.
Matching(claims) == SelectSeq(Mappings, LAMBDA mapping : mapping.roles \cap claims # {})

externalJWTPrincipal(claims) ==
    LET mapped == Matching(claims) IN
    /\ mapped # <<>>
    /\ access[Home] # "none"
    /\ Attach(Authenticated("external_jwt", Home,
                            leastPrivilegedWorkspaceRole(Head(mapped).role, access[Home]), Head(mapped).scopes),
              access[Home], Head(mapped).role)

\* The row is read with its issuer's membership: a reviewer never has more than write.
editorReviewSessionPrincipal ==
    /\ review /\ Home \in present /\ access[Home] # "none"
    /\ Attach([Authenticated("review_session", Home, leastPrivilegedWorkspaceRole("write", access[Home]), ReviewScopes)
                 EXCEPT !.image = TRUE],
              access[Home], "write")

\* No credential, or a cookie that names no session of either kind.
anonymousPrincipal == Attach(Anonymous, "none", "none")

authenticateRequest ==
    /\ call.at = "idle"
    /\ \/ \E w \in Workspaces : SessionPrincipal(w)
       \/ apiKeyPrincipal
       \/ \E claims \in ClaimRoles : externalJWTPrincipal(claims)
       \/ editorReviewSessionPrincipal
       \/ anonymousPrincipal

-----------------------------------------------------------------------------
(* Authorization.                                                          *)

workspaceRoleAllowsPermission(role, permission) ==
    \/ role = "admin"
    \/ role = "write" /\ permission[1] # "admin"
    \/ role = "create" /\ (permission[2] = "read" \/ permission = <<"items", "create">>)
    \/ role = "read" /\ permission[2] = "read"

scopeListAllows(scopes, permission) ==
    \/ permission \in scopes
    \/ <<permission[1], "*">> \in scopes
    \/ <<"*", "*">> \in scopes

Delegated(principal) == principal.type \in {"api_key", "external_jwt", "review_session"}

principalHasPermission(principal, permission) ==
    /\ principal.type # "anonymous" /\ permission # unmappedProcedurePermission
    /\ IF Delegated(principal)
         THEN /\ workspaceRoleAllowsPermission(principal.role, permission)
              /\ scopeListAllows(principal.scopes, permission)
         ELSE principal.admin \/ workspaceRoleAllowsPermission(principal.role, permission)

authorizeProcedure(principal, procedure) ==
    LET permission == requiredPermissionForProcedure(procedure) IN
    IF permission = NoPermission THEN principal.type # "anonymous" ELSE principalHasPermission(principal, permission)

\* A review session names its image, or a job of it, or lists the jobs of it.
authorizeEditorReviewSessionRequest(principal, procedure, target) ==
    LET rule == Procedure[procedure] IN
    /\ rule.resource = "image" \/ rule.resource = "job" \/ procedure = "ListTranscriptionJobs"
    /\ target = principal.workspace
    /\ rule.resource = "job" => target \in present

\* The role the principal was authenticated with, in place of the present one.
BugAuthorizeResource(principal, procedure, target) ==
    LET rule == Procedure[procedure] IN
    /\ authorizeProcedure(principal, procedure)
    /\ IF rule.resource = "workspace"
         THEN target = principal.workspace /\ workspaceRoleAllowsPermission(principal.role, <<"workspaces", "admin">>)
         ELSE target = principal.workspace /\ target \in present

\* Resources of a workspace are looked up under the principal's; a workspace itself
\* is looked up under the user's present membership.
authorizeResource(principal, procedure, target) ==
    LET rule == Procedure[procedure] IN
    /\ authorizeProcedure(principal, procedure)
    /\ IF rule.resource = "workspace"
         THEN workspaceRoleAllowsPermission(access[target],
                  IF rule.level = "admin" THEN <<"workspaces", "admin">> ELSE <<"workspaces", "read">>)
         ELSE target = principal.workspace /\ target \in present

authorizeConnectRule(principal, procedure, target) ==
    LET rule == Procedure[procedure] IN
    \/ rule.who = "anyone"
    \/ /\ principal.type # "anonymous"
       /\ rule.who = "session" => principal.type = "session"
       /\ principal.image => authorizeEditorReviewSessionRequest(principal, procedure, target)
       /\ IF rule.named THEN authorizeResource(principal, procedure, target)
                        ELSE authorizeProcedure(principal, procedure)

\* A message of the call is received and authorized; a message that is refused ends
\* the call.  A later message of the same call is authorized again, for the principal
\* the call began with.
Receive(procedure, target) ==
    /\ call.at = "authenticated" \/ (call.at = "allowed" /\ call.procedure = procedure)
    /\ call' = IF authorizeConnectRule(call.principal, procedure, target)
                 THEN [call EXCEPT !.at = "allowed", !.procedure = procedure, !.target = target, !.odd = ~@]
                 ELSE Idle
    /\ UNCHANGED <<access, isAdmin, key, review, present>>

\* The call ends, and the next one is authenticated anew.
Finish ==
    /\ call.at = "allowed"
    /\ call' = Idle
    /\ UNCHANGED <<access, isAdmin, key, review, present>>

-----------------------------------------------------------------------------
(* What others do meanwhile.                                               *)

\* An administrator adds, removes, promotes or demotes the user.
ChangeMembership(w, role) ==
    /\ access' = [access EXCEPT ![w] = role]
    /\ UNCHANGED <<isAdmin, key, review, present, call>>

MakeKey(role, scopes) ==
    /\ key = NoKey
    /\ key' = [role |-> role, scopes |-> scopes]
    /\ UNCHANGED <<access, isAdmin, review, present, call>>

RevokeKey ==
    /\ key # NoKey
    /\ key' = NoKey
    /\ UNCHANGED <<access, isAdmin, review, present, call>>

OpenReview ==
    /\ Home \in present
    /\ ~review /\ review' = TRUE
    /\ UNCHANGED <<access, isAdmin, key, present, call>>

\* The image is deleted, and with it its review sessions.
DeleteImage(w) ==
    /\ w \in present
    /\ present' = present \ {w}
    /\ review' = (review /\ w # Home)
    /\ UNCHANGED <<access, isAdmin, key, call>>

Init ==
    /\ access = [w \in Workspaces |-> IF w = Home THEN "admin" ELSE "none"]
    /\ isAdmin \in BOOLEAN
    /\ key = NoKey /\ review = FALSE
    /\ present = Workspaces
    /\ call = Idle

Next ==
    \/ authenticateRequest
    \/ \E procedure \in Procedures, w \in Workspaces : Receive(procedure, w)
    \/ Finish
    \/ \E w \in Workspaces, role \in MemberRoles : ChangeMembership(w, role)
    \/ \E role \in KeyRoles, scopes \in ScopeLists : MakeKey(role, scopes)
    \/ RevokeKey
    \/ OpenReview
    \/ \E w \in Workspaces : DeleteImage(w)

Spec == Init /\ [][Next]_vars

-----------------------------------------------------------------------------
(* Properties.                                                             *)

\* Rows, the key and the call have values of their types.
TypeOK ==
    /\ access \in [Workspaces -> Roles]
    /\ isAdmin \in BOOLEAN /\ review \in BOOLEAN
    /\ key = NoKey \/ (key.role \in KeyRoles /\ key.scopes \in ScopeLists)
    /\ present \subseteq Workspaces
    /\ call.at \in {"idle", "authenticated", "allowed"}
    /\ call.principal.role \in Roles

\* The lowest rank that may use a permission, as docs/concepts/permissions.md has it.
NeededRank(permission) ==
    CASE permission = NoPermission -> 0
      [] permission[1] = "admin" -> 4
      [] permission[2] = "read" -> 1
      [] permission = <<"items", "create">> -> 2
      [] OTHER -> 3

\* A call is allowed only what both the user's own standing and the credential's role
\* reach, whatever the user is besides: a site administrator's key, token or review
\* session has no more than its role and scopes, and a session that is not a site
\* administrator's no more than the membership it was authenticated with.
AllowedIsBacked ==
    call.at = "allowed" /\ Procedure[call.procedure].who # "anyone" =>
        LET permission == requiredPermissionForProcedure(call.procedure)
            needed == NeededRank(permission)
        IN  /\ permission # unmappedProcedurePermission
            /\ call.principal.type # "anonymous" /\ call.standing # "none"
            /\ Delegated(call.principal) =>
                   /\ Rank[call.own] >= needed /\ Rank[call.standing] >= needed
                   /\ \E scope \in call.principal.scopes : scope[1] \in {permission[1], "*"} /\ scope[2] \in {permission[2], "*"}
            /\ call.principal.type = "session" /\ ~isAdmin => Rank[call.standing] >= needed

\* Of every step: when a message is allowed, however long ago the call began, what it names exists
\* in the principal's workspace, a review session's message is about its own image,
\* and a workspace is managed only by one who may still edit it.
DecisionsReadCurrentRows ==
    call'.odd # call.odd /\ call'.at = "allowed" /\ Procedure[call'.procedure].who # "anyone" =>
         LET rule == Procedure[call'.procedure]
             target == call'.target
         IN  /\ rule.resource = "workspace" => Rank[access[target]] >= Rank["write"]
             /\ rule.named /\ rule.resource # "workspace" => target = call.principal.workspace /\ target \in present
             /\ call.principal.image => target = Home /\ rule.resource \notin {"item", "workspace", "context"}
=============================================================================
