-------------------------- MODULE ServiceIdentity --------------------------
(***************************************************************************)
(* The Google identity tokens a process presents to private services.  One *)
(* source is chosen once, from the environment: a credential file that is  *)
(* valid, or the metadata server when no file is configured.  The source   *)
(* keeps one token provider per audience, up to a limit, and startup mints *)
(* a token for every configured audience before the process serves.        *)
(*                                                                         *)
(* Minting is external: it succeeds or fails.                              *)
(***************************************************************************)
EXTENDS Integers, FiniteSets

CONSTANTS Files,           \* credential files an operator may configure
          Configured,      \* audiences of the configured endpoints
          Others,          \* further audiences a caller may ask for
          Callers,
          MaxAudiences,
          PreflightLimit   \* tokens minted at once during startup

ServiceIdentityAssumption ==
  /\ {MaxAudiences, PreflightLimit} \subseteq Nat \ {0}
  /\ Configured # {}
  /\ Configured \cap Others = {}

VARIABLES file,        \* the configured file, NoFile, or an EmptyPath
          chosen,      \* what Default returned: "unset", "invalid", "metadata", "file"
          providers,   \* audiences with a provider
          warming,     \* audience -> "todo", "minting", "done", "failed"
          process,     \* "starting", "serving", "failed"
          call         \* caller -> [audience, phase]

vars == <<file, chosen, providers, warming, process, call>>

NoFile == [type |-> "none"]
EmptyPath == [type |-> "empty"]
NoCall == [audience |-> "none", phase |-> "idle"]

-----------------------------------------------------------------------------
(* Choosing the source *)

\* The parts of a credential file the checks look at: a file is regular and
\* within the size limit or not; endpoints are Google's or not; an impersonated
\* account names its target and an authorized user, and nothing else.
validateImpersonatedServiceAccount(f) ==
  /\ f.fields = {"type", "target", "source"}
  /\ f.target = "google"
  /\ f.source = "authorized_user"

readCredentialJSON(f) ==
  /\ f.regular
  /\ \/ f.type = "service_account" /\ f.endpoint = "google" /\ f.key
     \/ f.type = "impersonated_service_account" /\ validateImpersonatedServiceAccount(f)

BugNew(f) == IF f.type \notin {"none", "empty"} /\ readCredentialJSON(f) THEN "file" ELSE "metadata"

New(f) ==
  CASE f.type = "none" -> "metadata"
    [] f.type = "empty" -> "invalid"
    [] OTHER -> IF readCredentialJSON(f) THEN "file" ELSE "invalid"

\* The environment is read once; everyone shares what was chosen then.
Default ==
  /\ process = "starting"
  /\ chosen = "unset"
  /\ chosen' = New(file)
  /\ process' = IF chosen' = "invalid" THEN "failed" ELSE "starting"
  /\ UNCHANGED <<file, providers, warming, call>>

-----------------------------------------------------------------------------
(* Providers *)

BugAdmits(a) == Cardinality(providers) < MaxAudiences

Admits(a) == a \in providers \/ Cardinality(providers) < MaxAudiences

\* The library's metadata source has the same limit.  A provider stays once it is made, also when its token cannot be minted.
provider(a) == IF Admits(a) THEN providers \cup {a} ELSE providers

-----------------------------------------------------------------------------
(* Startup *)

warmServiceIdentity(a) ==
  /\ process = "starting"
  /\ chosen \in {"metadata", "file"}
  /\ warming[a] = "todo"
  /\ Cardinality({b \in Configured : warming[b] = "minting"}) < PreflightLimit
  /\ warming' = [warming EXCEPT ![a] = "minting"]
  /\ providers' = provider(a)
  /\ process' = IF Admits(a) THEN process ELSE "failed"
  /\ UNCHANGED <<file, chosen, call>>

BugMinted(ok) == TRUE

Minted(ok) == ok

PreflightToken(a) ==
  /\ process = "starting"
  /\ warming[a] = "minting"
  /\ \E ok \in BOOLEAN :
       /\ warming' = [warming EXCEPT ![a] = IF ok THEN "done" ELSE "failed"]
       /\ process' = IF Minted(ok) THEN process ELSE "failed"
  /\ UNCHANGED <<file, chosen, providers, call>>

preflightServiceIdentity ==
  /\ process = "starting"
  /\ \A a \in Configured : warming[a] \in {"done", "failed"}
  /\ process' = "serving"
  /\ UNCHANGED <<file, chosen, providers, warming, call>>

-----------------------------------------------------------------------------
(* Requests *)

Token(c, a) ==
  /\ process = "serving"
  /\ call[c].phase = "idle"
  /\ providers' = provider(a)
  /\ call' = [call EXCEPT ![c] = [audience |-> a, phase |-> IF Admits(a) THEN "minting" ELSE "refused"]]
  /\ UNCHANGED <<file, chosen, warming, process>>

checkedToken(c) ==
  /\ call[c].phase = "minting"
  /\ \E answer \in {"served", "unavailable"} : call' = [call EXCEPT ![c].phase = answer]
  /\ UNCHANGED <<file, chosen, providers, warming, process>>

Forget(c) ==
  /\ call[c].phase \in {"served", "unavailable", "refused"}
  /\ call' = [call EXCEPT ![c] = NoCall]
  /\ UNCHANGED <<file, chosen, providers, warming, process>>

-----------------------------------------------------------------------------
Init ==
  /\ file \in Files \cup {NoFile, EmptyPath}
  /\ chosen = "unset"
  /\ providers = {}
  /\ warming = [a \in Configured |-> "todo"]
  /\ process = "starting"
  /\ call = [c \in Callers |-> NoCall]

Next ==
  \/ Default
  \/ \E a \in Configured : warmServiceIdentity(a) \/ PreflightToken(a)
  \/ preflightServiceIdentity
  \/ \E c \in Callers : checkedToken(c) \/ Forget(c) \/ \E a \in Configured \cup Others : Token(c, a)

Spec == Init /\ [][Next]_vars

-----------------------------------------------------------------------------
\* The credential source, the providers and the calls are in one of their states.
TypeOK ==
  /\ chosen \in {"unset", "invalid", "metadata", "file"}
  /\ providers \subseteq Configured \cup Others
  /\ process \in {"starting", "serving", "failed"}
  /\ \A c \in Callers : call[c].phase \in {"idle", "minting", "served", "unavailable", "refused"}

\* A serving process has minted a token for every configured audience, has
\* room for them whatever else is asked for, and uses the configured file or,
\* only when none is configured, the metadata server.
ConfiguredAudiencesServed ==
  /\ Cardinality(providers) <= MaxAudiences
  /\ process = "serving" =>
       /\ \A a \in Configured : warming[a] = "done" /\ a \in providers
       /\ chosen = "metadata" => file = NoFile
  /\ \A c \in Callers : call[c].phase = "refused" => call[c].audience \notin Configured
============================================================================
