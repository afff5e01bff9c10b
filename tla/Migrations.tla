----------------------------- MODULE Migrations -----------------------------
(***************************************************************************)
(* Schema migration at start-up (internal/database/migrate.go): several    *)
(* processes, perhaps of different builds, start against one database,     *)
(* take the advisory lock of their session, check the ledger and apply     *)
(* what is missing.  DDL commits implicitly, so every statement is a step  *)
(* of its own and a process may end between any two.                       *)
(*                                                                         *)
(* The second part is the splitter of SQL files, splitStatements.          *)
(***************************************************************************)
EXTENDS Integers, Sequences, FiniteSets, SequencesExt

CONSTANTS
    Processes,  \* application processes
    Builds,     \* the embedded migrations of each build: a sequence of
                \* [version, checksum, statements], statements a number
    Legacy,     \* the schemas the database may start with
    MaxStarts,  \* bound: starts of processes in a behaviour
    Tokens,     \* the pieces SQL files are made of: [chars, kind]
    MaxTokens   \* bound: pieces of one file

MigrationsAssumption ==
    /\ IsFiniteSet(Processes) /\ Builds # {} /\ {MaxStarts, MaxTokens} \subseteq Nat
    /\ \A b \in Builds : b # <<>> /\ IsInjective([i \in DOMAIN b |-> b[i].version])

VARIABLES
    ledger,  \* the ledger table exists
    rows,    \* its rows
    schema,  \* the statements executed on the database, in order
    lock,    \* the session holding the advisory lock
    proc,    \* the processes
    starts

vars == <<ledger, rows, schema, lock, proc, starts>>

None == "none"
Down == [pc |-> "down", build |-> <<>>, at |-> 1, done |-> 0]

\* The ledger, the lock and the processes hold values of their types.
TypeOK ==
    /\ ledger \in BOOLEAN /\ lock \in Processes \cup {None} /\ starts \in 0 .. MaxStarts
    /\ \A r \in rows : r.dirty \in BOOLEAN
    /\ \A p \in Processes :
        /\ proc[p].pc \in {"down", "locking", "bootstrap", "create", "history", "next", "apply", "serving"}
        /\ proc[p].build \in Builds \cup {<<>>}

Init ==
    /\ ledger = FALSE /\ rows = {} /\ schema \in Legacy
    /\ lock = None /\ proc = [p \in Processes |-> Down] /\ starts = 0

-----------------------------------------------------------------------------
(* The processes.                                                          *)

Start(p, b) ==
    /\ proc[p].pc = "down" /\ starts < MaxStarts
    /\ proc' = [proc EXCEPT ![p] = [Down EXCEPT !.pc = "locking", !.build = b]]
    /\ starts' = starts + 1
    /\ UNCHANGED <<ledger, rows, schema, lock>>

Unlocked(p) == IF lock = p THEN None ELSE lock

\* The process ends: it crashes, is stopped, or Migrate returns an error (a
\* check, a failed statement, the lock's timeout).  The session ends with it.
Exit(p) ==
    /\ proc[p].pc # "down"
    /\ proc' = [proc EXCEPT ![p] = Down]
    /\ lock' = Unlocked(p)
    /\ UNCHANGED <<ledger, rows, schema, starts>>

Goes(p, pc) == proc' = [proc EXCEPT ![p].pc = pc]

acquireMigrationLock(p) ==
    /\ proc[p].pc = "locking" /\ lock = None
    /\ lock' = p /\ Goes(p, "bootstrap")
    /\ UNCHANGED <<ledger, rows, schema, starts>>

\* Tables without a migration behind them are not a target.
BugBootstrap == TRUE
validateBootstrapCounts == rows = {} => schema = <<>>

validateMigrationBootstrapState(p) ==
    /\ proc[p].pc = "bootstrap" /\ validateBootstrapCounts
    /\ Goes(p, "create")
    /\ UNCHANGED <<ledger, rows, schema, lock, starts>>

CreateLedger(p) ==
    /\ proc[p].pc = "create"
    /\ ledger' = TRUE /\ Goes(p, "history")
    /\ UNCHANGED <<rows, schema, lock, starts>>

\* Every applied version is known, and none before the highest is missing.
BugVersions(b) ==
    \A r \in rows : \A i \in DOMAIN b : b[i].version = r.version =>
        \A j \in 1 .. i : \E q \in rows : q.version = b[j].version
validateMigrationVersions(b) ==
    \A r \in rows : \E i \in DOMAIN b :
        /\ b[i].version = r.version
        /\ \A j \in 1 .. i : \E q \in rows : q.version = b[j].version

validateMigrationHistory(p) ==
    /\ proc[p].pc = "history" /\ validateMigrationVersions(proc[p].build)
    /\ Goes(p, "next")
    /\ UNCHANGED <<ledger, rows, schema, lock, starts>>

Current(p) == proc[p].build[proc[p].at]
InLedger(p) == {r \in rows : r.version = Current(p).version}

\* An applied migration is skipped when it completed with the same checksum.
BugApplied(p, r) == r.checksum = Current(p).checksum
Applied(p, r) == ~r.dirty /\ r.checksum = Current(p).checksum

SkipApplied(p) ==
    /\ proc[p].pc = "next" /\ proc[p].at <= Len(proc[p].build)
    /\ \E r \in InLedger(p) : Applied(p, r)
    /\ proc' = [proc EXCEPT ![p].at = @ + 1]
    /\ UNCHANGED <<ledger, rows, schema, lock, starts>>

\* The durable dirty marker precedes the first statement.
MarkInProgress(p) ==
    /\ proc[p].pc = "next" /\ proc[p].at <= Len(proc[p].build)
    /\ InLedger(p) = {}
    /\ rows' = rows \cup {[version |-> Current(p).version, checksum |-> Current(p).checksum, dirty |-> TRUE]}
    /\ proc' = [proc EXCEPT ![p].pc = "apply", ![p].done = 0]
    /\ UNCHANGED <<ledger, schema, lock, starts>>

Statement(m, n) == [version |-> m.version, checksum |-> m.checksum, number |-> n]

ApplyStatement(p) ==
    /\ proc[p].pc = "apply" /\ proc[p].done < Current(p).statements
    /\ schema' = Append(schema, Statement(Current(p), proc[p].done + 1))
    /\ proc' = [proc EXCEPT ![p].done = @ + 1]
    /\ UNCHANGED <<ledger, rows, lock, starts>>

\* UPDATE ... WHERE version = ? AND checksum = ? AND dirty = TRUE; one row.
CompleteMigration(p) ==
    LET marked == {r \in InLedger(p) : r.checksum = Current(p).checksum /\ r.dirty} IN
    /\ proc[p].pc = "apply" /\ proc[p].done = Current(p).statements
    /\ Cardinality(marked) = 1
    /\ rows' = (rows \ marked) \cup {[r EXCEPT !.dirty = FALSE] : r \in marked}
    /\ proc' = [proc EXCEPT ![p].pc = "next", ![p].at = @ + 1]
    /\ UNCHANGED <<ledger, schema, lock, starts>>

\* Migrate returns and releases the lock.
Serve(p) ==
    /\ proc[p].pc = "next" /\ proc[p].at > Len(proc[p].build)
    /\ lock' = Unlocked(p) /\ Goes(p, "serving")
    /\ UNCHANGED <<ledger, rows, schema, starts>>

Next ==
    \E p \in Processes :
        \/ \E b \in Builds : Start(p, b)
        \/ Exit(p) \/ acquireMigrationLock(p) \/ validateMigrationBootstrapState(p) \/ CreateLedger(p)
        \/ validateMigrationHistory(p) \/ SkipApplied(p) \/ MarkInProgress(p)
        \/ ApplyStatement(p) \/ CompleteMigration(p) \/ Serve(p)

Spec == Init /\ [][Next]_vars

-----------------------------------------------------------------------------

\* The statements of a build, in order.
SchemaOf(b) == FlattenSeq([i \in DOMAIN b |-> [n \in 1 .. b[i].statements |-> Statement(b[i], n)]])

\* Of every step: a process begins to serve only on exactly the schema of its own build, each
\* statement executed once and in order, whatever other processes, of this build
\* or another, did and wherever they stopped (Migrate, validateMigrationHistory).
ServesOwnSchema ==
    \A p \in Processes :
        proc[p].pc # "serving" /\ proc'[p].pc = "serving" => schema' = SchemaOf(proc[p].build)

\* The schema is always a build's schema up to some statement, or untouched: no
\* statement is repeated, skipped or put on tables without a history.
SchemaIsPrefix == schema \in Legacy \/ \E b \in Builds : IsPrefix(schema, SchemaOf(b))

-----------------------------------------------------------------------------
(* splitStatements: one pass over the characters.                          *)

Quotes == {"quote", "backtick"}
Blank == {"space", "newline"}

Scan == [mode |-> "sql", quote |-> "", skip |-> FALSE, text |-> <<>>, out |-> <<>>]

\* Statements are compared without the white space that comments leave.
Flush(s) == LET t == SelectSeq(s.text, LAMBDA c : c \notin Blank)
            IN  [s EXCEPT !.text = <<>>, !.out = IF t = <<>> THEN @ ELSE Append(@, t)]

Write(s, c) == [s EXCEPT !.text = Append(@, c)]

InComment(s, c, next) ==
    IF s.mode = "line"
    THEN IF c = "newline" THEN Write([s EXCEPT !.mode = "sql"], c) ELSE s
    ELSE IF c = "star" /\ next = "slash" THEN Write([s EXCEPT !.mode = "sql", !.skip = TRUE], "space") ELSE s

\* A backslash, or a doubled quote, takes the next character with it.
BugInQuote(s, c, next) ==
    IF c = s.quote THEN Write([s EXCEPT !.mode = "sql"], c) ELSE Write(s, c)
InQuote(s, c, next) ==
    IF next # "" /\ (c = "backslash" \/ (c = s.quote /\ next = s.quote))
    THEN Write(Write([s EXCEPT !.skip = TRUE], c), next)
    ELSE IF c = s.quote THEN Write([s EXCEPT !.mode = "sql"], c) ELSE Write(s, c)

InSQL(s, c, next) ==
    CASE c = "dash" /\ next = "dash"  -> [s EXCEPT !.mode = "line", !.skip = TRUE]
      [] c = "hash"             -> [s EXCEPT !.mode = "line"]
      [] c = "slash" /\ next = "star"  -> [s EXCEPT !.mode = "block", !.skip = TRUE]
      [] c \in Quotes           -> Write([s EXCEPT !.mode = "value", !.quote = c], c)
      [] c = ";"                -> Flush(s)
      [] OTHER                  -> Write(s, c)

Step(s, c, next) ==
    IF s.skip THEN [s EXCEPT !.skip = FALSE]
    ELSE IF s.mode \in {"line", "block"} THEN InComment(s, c, next)
    ELSE IF s.mode = "value" THEN InQuote(s, c, next)
    ELSE InSQL(s, c, next)

splitStatements(source) ==
    LET next(i) == IF i < Len(source) THEN source[i + 1] ELSE ""
        end == FoldLeft(LAMBDA s, i : Step(s, source[i], next(i)), Scan, [i \in DOMAIN source |-> i])
    IN  Flush(end).out

Files == UNION {[1 .. n -> Tokens] : n \in 0 .. MaxTokens}
Source(file) == FlattenSeq([i \in DOMAIN file |-> file[i].chars])

\* The statements a file is made of: what its delimiters separate, less comments.
RECURSIVE Statements(_, _)
Statements(file, text) ==
    LET flush == IF text = <<>> THEN <<>> ELSE <<text>> IN
    IF file = <<>> THEN flush
    ELSE IF Head(file).kind = "delimiter" THEN flush \o Statements(Tail(file), <<>>)
    ELSE Statements(Tail(file), IF Head(file).kind = "comment" THEN text ELSE text \o Head(file).chars)

\* A file is split at its delimiters and nowhere else: a semicolon, a quote or a
\* comment mark inside a quoted value or a comment neither ends a statement nor
\* becomes one, and no character of a statement is lost (splitStatements).
SplitsAtDelimiters == \A file \in Files : splitStatements(Source(file)) = Statements(file, <<>>)
=============================================================================
