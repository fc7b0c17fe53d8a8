----------------------------- MODULE SharedStore -----------------------------
(***************************************************************************)
(* One sqlite file shared by processes: every command of src/cli/run.ts    *)
(* and every agent opens it (SqliteStore.init and migrate of               *)
(* src/storage/sqlite/store.ts), does its work against the ledger of       *)
(* AuditChain and exits with a code that scripts act on.  Processes may    *)
(* start, race to migrate a new or an old file, give up on its lock and    *)
(* die at any point.  With the memory store the "processes" are concurrent *)
(* calls of check() inside one agent.                                      *)
(***************************************************************************)
EXTENDS AuditChain, FiniteSets

VARIABLES
    configuration,  \* the configuration file: "absent", "invalid" or "valid"
    journal,        \* the journal mode of the file
    schema,         \* the committed tables and columns, and the versions recorded for them
    work,           \* the same as the migrating transaction sees it
    session         \* what each process is doing, and how its last command ended

storeVars == <<configuration, journal, schema, work>>

sharedVars == <<vars, storeVars, session>>

Commands == {"check", "validate", "audit", "verify", "doctor", "state", "action"}

\* DENY stands for REVALIDATE and ESCALATE too: the exit code does not tell them apart.
Decisions == {"ALLOW", "DENY"}

Verifying == {"verify", "doctor"}

NoExit == -1

\* `contended`, `damaged` and `recorded` are history: whether another process was at
\* work while this one opened the store, whether the ledger was damaged when the
\* verifying command started, and the events a command committed.
Sessions ==
    [pc : {"off", "journal", "ensure", "select", "begin", "migrate", "ready"},
     command : Commands \cup {"none"}, applied : SUBSET {1, 2}, version : 0..2, step : 0..5,
     todo : Seq({"save", "append", "decide", "verify", "inspect"}),
     decided : Decisions \cup {"none"}, observing : BOOLEAN, exit : {NoExit, 0, 1, 2},
     store : {"none", "opening", "opened"},
     contended : BOOLEAN, damaged : BOOLEAN, recorded : Nat]

Idle ==
    [pc |-> "off", command |-> "none", applied |-> {}, version |-> 0, step |-> 0, todo |-> <<>>,
     decided |-> "none", observing |-> FALSE, exit |-> NoExit, store |-> "none",
     contended |-> FALSE, damaged |-> FALSE, recorded |-> 0]

-----------------------------------------------------------------------------
(* The schema and its migrations. *)

\* MIGRATIONS.  The first creates what does not exist; a column can be added once.
Statements == <<
    <<"schema_migrations", "tables">>,
    <<"authorizations.expected_state", "executions.conditional_execution",
      "executions.expected_state", "executions.observed_version">> >>

Versions == DOMAIN Statements

Repeatable == {"schema_migrations", "tables"}

PartsOf(v) == {Statements[v][i] : i \in DOMAIN Statements[v]}

\* A new file, and one an earlier release left behind.
Files == {[parts |-> {}, versions |-> {}], [parts |-> PartsOf(1), versions |-> {1}]}

SharedInit ==
    /\ Init
    /\ configuration \in {"absent", "invalid", "valid"}
    /\ schema \in Files
    /\ journal = IF schema.versions = {} THEN "delete" ELSE "wal"
    /\ work = schema
    /\ session = [p \in Appenders |-> Idle]

SharedTypeOK ==
    /\ TypeOK
    /\ session \in [Appenders -> Sessions]

\* The first migration after v that was not recorded when the table was read; 0 if none.
Pending(applied, v) ==
    LET missing == {w \in Versions : w > v /\ w \notin applied} IN
        IF missing = {} THEN 0 ELSE CHOOSE w \in missing : \A x \in missing : w <= x

-----------------------------------------------------------------------------
(* Exit codes. *)

\* PolicyValidationError is told apart by `policy validate` only; `doctor` turns every
\* failure after its look for the file into failed checks.
InvalidConfigurationExit(command) == IF command \in {"validate", "doctor"} THEN 1 ELSE 2

OpenFailedExit(command) == IF command = "doctor" THEN 1 ELSE 2

\* In OBSERVE the recorded decision is ALLOW and the other one is what would have been decided.
RecordOf(decided, observing) ==
    IF observing /\ decided # "ALLOW"
        THEN [decision |-> "ALLOW", would_have_decided |-> decided]
        ELSE [decision |-> decided, would_have_decided |-> "none"]

\* Mutant: the recorded decision drives the exit code.
MutantReportsRecorded(record) == IF record.decision = "ALLOW" THEN 0 ELSE 1

DecisionExit(record) ==
    IF record.would_have_decided = "ALLOW" \/ (record.would_have_decided = "none" /\ record.decision = "ALLOW")
        THEN 0 ELSE 1

\* Mutant: only the latest record is verified.
MutantVerifiesTail == IF log = <<>> \/ ~BreaksAt(Len(log)) THEN 0 ELSE 1

VerificationExit == IF VerifyOk THEN 0 ELSE 1

-----------------------------------------------------------------------------
(* Starting and ending. *)

Active(p) == session[p].pc # "off"

\* The process ends; only its exit code stays.
Exit(p, code) == session' = [session EXCEPT ![p] = [Idle EXCEPT !.exit = code]]

Goto(p, pc) == session' = [session EXCEPT ![p].pc = pc]

KeepLedger == UNCHANGED vars

\* What a command does once the store is open.
WorkOf(command) ==
    CASE command = "check"               -> <<"save", "append", "decide", "append">>
      [] command \in {"verify", "doctor"} -> <<"verify">>
      [] command \in {"state", "action"}  -> <<"inspect">>
      [] OTHER                            -> <<>>

\* cmdInit writes the template, which is a valid configuration, and overwrites nothing.
CmdInit(p) ==
    /\ ~Active(p)
    /\ configuration' = IF configuration = "absent" THEN "valid" ELSE configuration
    /\ Exit(p, IF configuration = "absent" THEN 0 ELSE 2)
    /\ UNCHANGED <<journal, schema, work>>
    /\ KeepLedger

\* The session of p starts; it and every process that opens the store now contend.
Started(p, s) ==
    [q \in Appenders |->
        IF q = p THEN [s EXCEPT !.contended = s.store = "opening" /\ \E o \in Appenders \ {p} : Active(o)]
        ELSE [session[q] EXCEPT !.contended = @ \/ session[q].store = "opening"]]

\* A command looks for the configuration, and loads and validates it.
Start(p) ==
    /\ ~Active(p)
    /\ \E command \in Commands :
           LET fresh == [Idle EXCEPT !.command = command,
                                     !.damaged = command \in Verifying /\ damagedSeq # 0]
           IN
               CASE configuration = "absent"  -> Exit(p, 2)
                 [] configuration = "invalid" -> Exit(p, InvalidConfigurationExit(command))
                 [] backend = "sqlite" -> session' = Started(p, [fresh EXCEPT !.pc = "journal",
                                                                                !.store = "opening"])
                 [] OTHER ->
                        /\ command = "check"
                        /\ session' = Started(p, [fresh EXCEPT !.pc = "ready", !.store = "opened",
                                                               !.todo = WorkOf(command)])
    /\ UNCHANGED storeVars
    /\ KeepLedger

\* The process dies: the file system gives back its lock and its transaction is undone.
Die(p) ==
    /\ Active(p)
    /\ backend = "sqlite"
    /\ writer' = IF writer = p THEN NoAppender ELSE writer
    /\ append' = [append EXCEPT ![p] = NoAppend]
    /\ session' = [session EXCEPT ![p] = Idle]
    /\ UNCHANGED <<backend, log, lastSeq, damages, damagedSeq>>
    /\ UNCHANGED storeVars

-----------------------------------------------------------------------------
(* Opening the store. *)

\* PRAGMA journal_mode comes before PRAGMA busy_timeout: two processes that convert a
\* new file at the same time do not wait for each other, one of them fails.
SetJournalMode(p) ==
    /\ session[p].pc = "journal"
    /\ \/ journal' = "wal" /\ Goto(p, "ensure")
       \/ /\ journal # "wal"
          /\ \E q \in Appenders \ {p} : session[q].pc = "journal"
          /\ Exit(p, OpenFailedExit(session[p].command))
          /\ UNCHANGED journal
    /\ UNCHANGED <<configuration, schema, work>>
    /\ KeepLedger

\* CREATE TABLE IF NOT EXISTS schema_migrations needs the lock only if there is none.
EnsureMigrationsTable(p) ==
    /\ session[p].pc = "ensure"
    /\ "schema_migrations" \in schema.parts \/ writer = NoAppender
    /\ schema' = [schema EXCEPT !.parts = @ \cup {"schema_migrations"}]
    /\ Goto(p, "select")
    /\ UNCHANGED <<configuration, journal, work>>
    /\ KeepLedger

\* Mutant: what is recorded is not read.
MutantForgetsApplied == {}

AppliedVersions == schema.versions

Proceeds(s, version) ==
    IF version = 0
        THEN [s EXCEPT !.pc = "ready", !.version = 0, !.step = 0, !.applied = {}, !.store = "opened",
                       !.contended = FALSE, !.todo = WorkOf(s.command)]
        ELSE [s EXCEPT !.pc = "begin", !.version = version, !.step = 0]

\* The versions are read before any transaction begins ...
SelectApplied(p) ==
    /\ session[p].pc = "select"
    /\ session' = [session EXCEPT ![p] =
           Proceeds([@ EXCEPT !.applied = AppliedVersions], Pending(AppliedVersions, 0))]
    /\ UNCHANGED storeVars
    /\ KeepLedger

\* ... and each missing one gets a transaction of its own.
BeginMigration(p) ==
    /\ session[p].pc = "begin"
    /\ writer = NoAppender
    /\ writer' = p
    /\ work' = schema
    /\ session' = [session EXCEPT ![p].pc = "migrate", ![p].step = 1]
    /\ UNCHANGED <<configuration, journal, schema>>
    /\ UNCHANGED <<backend, log, lastSeq, append, damages, damagedSeq>>

\* The lock is not released within the busy timeout.
OpenTimesOut(p) ==
    /\ \/ session[p].pc = "begin"
       \/ session[p].pc = "ensure" /\ "schema_migrations" \notin schema.parts
    /\ writer \notin {NoAppender, p}
    /\ Exit(p, OpenFailedExit(session[p].command))
    /\ UNCHANGED storeVars
    /\ KeepLedger

\* The statement p is at; the last one of a migration records its version.
Statement(p) == Statements[session[p].version][session[p].step]

AtRecording(p) == session[p].step > Len(Statements[session[p].version])

\* The column, or the recorded version, is there already.
StatementConflicts(p) ==
    IF AtRecording(p) THEN session[p].version \in work.versions
    ELSE Statement(p) \in work.parts \ Repeatable

\* Mutant: the statement is outside any transaction.
MutantAutocommits(p) ==
    /\ session[p].pc = "migrate"
    /\ ~AtRecording(p)
    /\ ~StatementConflicts(p)
    /\ work' = [work EXCEPT !.parts = @ \cup {Statement(p)}]
    /\ schema' = [schema EXCEPT !.parts = @ \cup {Statement(p)}]
    /\ session' = [session EXCEPT ![p].step = @ + 1]
    /\ UNCHANGED <<configuration, journal>>
    /\ KeepLedger

ExecuteStatement(p) ==
    /\ session[p].pc = "migrate"
    /\ ~AtRecording(p)
    /\ ~StatementConflicts(p)
    /\ work' = [work EXCEPT !.parts = @ \cup {Statement(p)}]
    /\ session' = [session EXCEPT ![p].step = @ + 1]
    /\ UNCHANGED <<configuration, journal, schema>>
    /\ KeepLedger

\* A failing statement rolls the migration back and the store does not open.
MigrationFails(p) ==
    /\ session[p].pc = "migrate"
    /\ StatementConflicts(p)
    /\ writer' = NoAppender
    /\ work' = schema
    /\ Exit(p, OpenFailedExit(session[p].command))
    /\ UNCHANGED <<configuration, journal, schema>>
    /\ UNCHANGED <<backend, log, lastSeq, append, damages, damagedSeq>>

\* The version is recorded and the migration committed; then comes the next one.
CommitMigration(p) ==
    /\ session[p].pc = "migrate"
    /\ AtRecording(p)
    /\ ~StatementConflicts(p)
    /\ schema' = [work EXCEPT !.versions = @ \cup {session[p].version}]
    /\ work' = schema'
    /\ writer' = NoAppender
    /\ session' = [session EXCEPT ![p] = Proceeds(@, Pending(@.applied, @.version))]
    /\ UNCHANGED <<configuration, journal>>
    /\ UNCHANGED <<backend, log, lastSeq, append, damages, damagedSeq>>

-----------------------------------------------------------------------------
(* Working on the open store. *)

AtWork(p, step) == session[p].pc = "ready" /\ session[p].todo # <<>> /\ Head(session[p].todo) = step

Done(p) == session' = [session EXCEPT ![p].todo = Tail(@)]

\* A write of its own waits for the lock ...
CanWrite == backend = "memory" \/ writer = NoAppender

\* saveAction.
SaveAction(p) ==
    /\ AtWork(p, "save")
    /\ CanWrite
    /\ Done(p)
    /\ UNCHANGED storeVars
    /\ KeepLedger

\* The state is evaluated, saveSnapshot and saveDecision.  The mode is the one the
\* operator had configured when the command started.
SaveDecision(p) ==
    /\ AtWork(p, "decide")
    /\ CanWrite
    /\ \E decided \in Decisions, observing \in BOOLEAN :
           session' = [session EXCEPT ![p].todo = Tail(@), ![p].decided = decided,
                                      ![p].observing = observing]
    /\ UNCHANGED storeVars
    /\ KeepLedger

\* ... or fails: the command ends with a StorageError.
SaveFails(p) ==
    /\ AtWork(p, "save") \/ AtWork(p, "decide")
    /\ ~CanWrite
    /\ Exit(p, 2)
    /\ UNCHANGED storeVars
    /\ KeepLedger

\* The engine appends an event of the session (AuditChain).
AppendEvent(p) ==
    /\ AtWork(p, "append")
    /\ Request(p) \/ Begin(p) \/ ReadLast(p)
    /\ UNCHANGED session
    /\ UNCHANGED storeVars

EventAppended(p) ==
    /\ AppendInMemory(p) \/ Commit(p)
    /\ session' = [session EXCEPT ![p].todo = Tail(@), ![p].recorded = @ + 1]
    /\ UNCHANGED storeVars

\* Mutant: a handler swallows the rejection.
MutantSwallowsRejection(p) ==
    /\ Busy(p) \/ Rollback(p)
    /\ Done(p)
    /\ UNCHANGED storeVars

\* audit.append is not awaited: when it fails, the rejection nobody handles ends the process.
EventLost(p) ==
    /\ Busy(p) \/ Rollback(p)
    /\ Exit(p, 1)
    /\ UNCHANGED storeVars

\* AuditEngine.verify reads all committed rows with one query.
VerifyLedger(p) ==
    /\ AtWork(p, "verify")
    /\ Exit(p, VerificationExit)
    /\ UNCHANGED storeVars
    /\ KeepLedger

\* `state inspect` fails with its provider, `action inspect` reports an unknown action.
Inspect(p) ==
    /\ AtWork(p, "inspect")
    /\ \/ Exit(p, 0)
       \/ Exit(p, IF session[p].command = "state" THEN 2 ELSE 1)
    /\ UNCHANGED storeVars
    /\ KeepLedger

\* Nothing is left to do: the store is closed and the command ends.
Finish(p) ==
    /\ session[p].pc = "ready"
    /\ session[p].todo = <<>>
    /\ Exit(p, IF session[p].command # "check" THEN 0
               ELSE DecisionExit(RecordOf(session[p].decided, session[p].observing)))
    /\ UNCHANGED storeVars
    /\ KeepLedger

Opening(p) ==
    \/ SetJournalMode(p)
    \/ EnsureMigrationsTable(p)
    \/ SelectApplied(p)
    \/ BeginMigration(p)
    \/ OpenTimesOut(p)
    \/ ExecuteStatement(p)
    \/ MigrationFails(p)
    \/ CommitMigration(p)

Working(p) ==
    \/ SaveAction(p)
    \/ SaveDecision(p)
    \/ SaveFails(p)
    \/ AppendEvent(p)
    \/ EventAppended(p)
    \/ EventLost(p)
    \/ VerifyLedger(p)
    \/ Inspect(p)
    \/ Finish(p)

\* Somebody else changes the rows of the file.
TamperWith(i) ==
    /\ Outside(i)
    /\ UNCHANGED <<storeVars, session>>

SharedNext ==
    \/ \E p \in Appenders : CmdInit(p) \/ Start(p) \/ Die(p) \/ Opening(p) \/ Working(p)
    \/ \E i \in DOMAIN log : TamperWith(i)

SharedSpec == SharedInit /\ [][SharedNext]_sharedVars

-----------------------------------------------------------------------------
(* Properties. *)

\* Wherever a process died or lost a race, the file holds a migration as a whole or not
\* at all: a version is recorded exactly when all of its tables or columns are there
\* (schema_migrations itself precedes the first), and the second never without the first.
MigrationsAreAtomic ==
    /\ 1 \in schema.versions <=> "tables" \in schema.parts
    /\ 2 \in schema.versions <=> PartsOf(2) \cap schema.parts # {}
    /\ \A v \in schema.versions : PartsOf(v) \subseteq schema.parts
    /\ 2 \in schema.versions => 1 \in schema.versions

\* A command of p ends by itself with this exit code.
EndsWith(p, code) == Active(p) /\ session'[p].pc = "off" /\ session'[p].exit = code

\* Whatever earlier commands left behind when they failed or were killed, a command
\* that has the file to itself opens the store: only a race makes init() fail.
UncontendedOpenSucceeds ==
    [][\A p \in Appenders : \A code \in {1, 2} :
           EndsWith(p, code) /\ session[p].store = "opening" => session[p].contended]_sharedVars

\* A verifying command that reports a broken chain is right, whatever was appended,
\* migrated or killed meanwhile, and one that starts after the damage never reports an
\* intact ledger.
VerdictIsTrue ==
    [][\A p \in Appenders :
           session[p].command \in Verifying /\ session[p].store = "opened" =>
               /\ EndsWith(p, 1) => damages > 0
               /\ EndsWith(p, 0) /\ damages <= 1 => ~session[p].damaged]_sharedVars

\* `ssf check` exits with 0 only when the action would be allowed, in every mode, and
\* the ledger got both the proposal and the decision.
ZeroMeansAllowedAndRecorded ==
    [][\A p \in Appenders :
           session[p].command = "check" /\ EndsWith(p, 0) =>
               session[p].decided = "ALLOW" /\ session[p].recorded = 2]_sharedVars
=============================================================================
