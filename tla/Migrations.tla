----------------------------- MODULE Migrations -----------------------------
(***************************************************************************)
(* The replicas of the operational backend, from start to exit: main.ts,   *)
(* config.ts and the migration runner of migrate.ts, against one database. *)
(*                                                                         *)
(* A migration is its place in the sorted listing; image[r] says how many  *)
(* of them the image of replica r carries, a later release carrying more.  *)
(* One step is one statement, or one stretch of code between two awaits.   *)
(*                                                                         *)
(* PostgreSQL is external: a session that lost its client keeps the        *)
(* advisory lock until the server notices (lock = Orphan), and a COMMIT    *)
(* whose answer is lost may have been applied.  The container runtime is   *)
(* external too: docker-compose.yml restarts a replica that exits.         *)
(***************************************************************************)
EXTENDS Naturals

CONSTANTS
    Replicas,     \* processes started on one database
    NumFiles,     \* migrations in the newest release (a bound)
    MaxFailures,  \* statements refused and processes killed in a run (a bound)
    Nobody,       \* the advisory lock is free
    Orphan        \* the advisory lock is held by a session without a client

ASSUME HoldersAreFresh == Nobody \notin Replicas /\ Orphan \notin Replicas /\ Nobody # Orphan
ASSUME FilesAreCounted == NumFiles \in Nat

VARIABLES
    table,     \* schema_migrations exists
    rows,      \* the versions in schema_migrations
    effects,   \* effects[f]: how often file f has taken effect in the database
    lock,      \* who holds the advisory lock
    image,     \* image[r]: migrations in the image of r
    env,       \* env[r]: what loadConfig finds in the environment of r
    phase,     \* phase[r]: the next step of r
    saw,       \* saw[r]: whether CREATE TABLE found the table in the catalogue
    todo,      \* todo[r]: files the loop has not reached
    open,      \* open[r]: a request is being served
    failures   \* statements refused and processes killed so far

db     == <<table, rows, effects, lock>>
deploy == <<image, env>>
vars   == <<table, rows, effects, lock, image, env, phase, saw, todo, open, failures>>

Files == 1..NumFiles
NotMigration == 0     \* any other file of the directory
Env == [missing : BOOLEAN, invalid : BOOLEAN, cacheEnabled : BOOLEAN]

Starting == {"connect", "create", "creating", "lock"}
Applying == {"check", "sql", "row", "commit"}
Holding  == Applying \cup {"unlock", "abandon"}
Up       == {"serving", "draining", "closing"}
Phases   == {"down", "cache", "stopped"} \cup Starting \cup Holding \cup Up

TypeOK ==
    /\ table \in BOOLEAN
    /\ rows \subseteq Files
    /\ effects \in [Files -> Nat]
    /\ lock \in Replicas \cup {Nobody, Orphan}
    /\ image \in [Replicas -> 0..NumFiles]
    /\ env \in [Replicas -> Env]
    /\ phase \in [Replicas -> Phases]
    /\ saw \in [Replicas -> BOOLEAN]
    /\ todo \in [Replicas -> SUBSET Files]
    /\ open \in [Replicas -> BOOLEAN]
    /\ failures \in Nat

Init ==
    /\ table = FALSE
    /\ rows = {}
    /\ effects = [f \in Files |-> 0]
    /\ lock = Nobody
    /\ image \in [Replicas -> 0..NumFiles]
    /\ env \in [Replicas -> Env]
    /\ phase = [r \in Replicas |-> "down"]
    /\ saw = [r \in Replicas |-> FALSE]
    /\ todo = [r \in Replicas |-> {}]
    /\ open = [r \in Replicas |-> FALSE]
    /\ failures = 0

Goto(r, step) == phase' = [phase EXCEPT ![r] = step]

-----------------------------------------------------------------------------
(* Configuration and listing *)

\* The environments loadConfig accepts: every required variable is there, and
\* the durations, APP_ENV and PORT parse.
LoadConfig(e) == ~e.missing /\ ~e.invalid

\* What readdir returns.  Down migrations and other files lie beside.
Directory(r) == (1..image[r]) \cup {NotMigration}

\* The *.up.sql files of the image.
Listing(r) == {f \in Directory(r) : f # NotMigration}

\* The process starts.  A refused configuration exits at once, so it changes
\* nothing; no directory or no file skips the database.
Start(r) ==
    /\ phase[r] = "down"
    /\ LoadConfig(env[r])
    /\ todo' = [todo EXCEPT ![r] = Listing(r)]
    /\ Goto(r, IF Listing(r) = {} THEN "cache" ELSE "connect")
    /\ UNCHANGED <<db, deploy, saw, open, failures>>

Connect(r) ==
    /\ phase[r] = "connect"
    /\ Goto(r, "create")
    /\ UNCHANGED <<db, deploy, saw, todo, open, failures>>

-----------------------------------------------------------------------------
(* CREATE TABLE IF NOT EXISTS, before the lock is taken *)

\* The statement looks the name up ...
ReadCatalog(r) ==
    /\ phase[r] = "create"
    /\ saw' = [saw EXCEPT ![r] = table]
    /\ Goto(r, "creating")
    /\ UNCHANGED <<db, deploy, todo, open, failures>>

\* Mutant: CREATE TABLE without IF NOT EXISTS.
CreateTableAlways(r) ==
    /\ phase[r] = "creating"
    /\ ~table
    /\ table' = TRUE
    /\ Goto(r, "lock")
    /\ UNCHANGED <<rows, effects, lock, deploy, saw, todo, open, failures>>

\* ... and creates the table when it was not there.
CreateTable(r) ==
    /\ phase[r] = "creating"
    /\ saw[r] = table
    /\ table' = TRUE
    /\ Goto(r, "lock")
    /\ UNCHANGED <<rows, effects, lock, deploy, saw, todo, open, failures>>

\* Two replicas found no table and the other one was faster: the statement meets
\* the unique index of the catalogue, and the process exits.
CreateTableLoses(r) ==
    /\ phase[r] = "creating"
    /\ saw[r] # table
    /\ Goto(r, "down")
    /\ UNCHANGED <<db, deploy, saw, todo, open, failures>>

-----------------------------------------------------------------------------
(* The loop under the advisory lock *)

\* Mutant: a lock that is shared.
TakeLockShared(r) ==
    /\ phase[r] = "lock"
    /\ lock' = r
    /\ Goto(r, "check")
    /\ UNCHANGED <<table, rows, effects, deploy, saw, todo, open, failures>>

TakeLock(r) ==
    /\ phase[r] = "lock"
    /\ lock = Nobody
    /\ lock' = r
    /\ Goto(r, "check")
    /\ UNCHANGED <<table, rows, effects, deploy, saw, todo, open, failures>>

\* Mutant: the listing is taken in the order the file system returns it.
NextFileUnsorted(r, f) == f \in todo[r]

\* f is the file the loop has come to.
NextFile(r, f) == f \in todo[r] /\ \A g \in todo[r] : f <= g

Advance(r, f) == todo' = [todo EXCEPT ![r] = @ \ {f}]

\* SELECT 1 FROM schema_migrations: an applied version is skipped.
CheckVersion(r) ==
    /\ phase[r] = "check"
    /\ \/ \E f \in Files :
            /\ NextFile(r, f) /\ f \in rows
            /\ Advance(r, f)
            /\ UNCHANGED phase
       \/ \E f \in Files :
            /\ NextFile(r, f) /\ f \notin rows
            /\ Goto(r, "sql")
            /\ UNCHANGED todo
       \/ /\ todo[r] = {}
          /\ Goto(r, "unlock")
          /\ UNCHANGED todo
    /\ UNCHANGED <<db, deploy, saw, open, failures>>

\* Mutant: the file runs outside the transaction.
RunFileAutocommit(r) ==
    /\ phase[r] = "sql"
    /\ \E f \in Files : NextFile(r, f) /\ effects' = [effects EXCEPT ![f] = @ + 1]
    /\ Goto(r, "row")
    /\ UNCHANGED <<table, rows, lock, deploy, saw, todo, open, failures>>

\* BEGIN and the file: nothing takes effect before the commit.
RunFile(r) ==
    /\ phase[r] = "sql"
    /\ Goto(r, "row")
    /\ UNCHANGED <<db, deploy, saw, todo, open, failures>>

\* The version row, in the same transaction; version is the primary key.
InsertVersion(r) ==
    /\ phase[r] = "row"
    /\ \E f \in Files : NextFile(r, f) /\ f \notin rows
    /\ Goto(r, "commit")
    /\ UNCHANGED <<db, deploy, saw, todo, open, failures>>

\* The file and its version row take effect together.
Applies(r, f) ==
    /\ NextFile(r, f)
    /\ rows' = rows \cup {f}
    /\ effects' = [effects EXCEPT ![f] = @ + 1]

Commit(r) ==
    /\ phase[r] = "commit"
    /\ \E f \in Files : Applies(r, f) /\ Advance(r, f)
    /\ Goto(r, "check")
    /\ UNCHANGED <<table, lock, deploy, saw, open, failures>>

\* pg_advisory_unlock and the end of the connection.
Unlock(r) ==
    /\ phase[r] = "unlock"
    /\ lock' = Nobody
    /\ Goto(r, "cache")
    /\ UNCHANGED <<table, rows, effects, deploy, saw, todo, open, failures>>

\* Mutant: main logs the failure and goes on.
AbandonServes(r) ==
    /\ phase[r] = "abandon"
    /\ lock' = Nobody
    /\ Goto(r, "cache")
    /\ UNCHANGED <<table, rows, effects, deploy, saw, todo, open, failures>>

\* After an error: ROLLBACK, unlock, end, exit(1).
Abandon(r) ==
    /\ phase[r] = "abandon"
    /\ lock' = Nobody
    /\ Goto(r, "down")
    /\ UNCHANGED <<table, rows, effects, deploy, saw, todo, open, failures>>

-----------------------------------------------------------------------------
(* Failures *)

FailOnce == failures < MaxFailures /\ failures' = failures + 1

\* A statement is refused, or the cache does not answer.  In the loop the
\* transaction is rolled back first; before it, and after it, the process exits.
Fail(r) ==
    /\ FailOnce
    /\ \/ phase[r] \in Applying /\ Goto(r, "abandon")
       \/ phase[r] \in Starting /\ Goto(r, "down")
       \/ phase[r] = "cache" /\ env[r].cacheEnabled /\ Goto(r, "down")
    /\ UNCHANGED <<db, deploy, saw, todo, open>>

\* The process is killed or loses its connection: no handler of a signal is
\* installed before it listens.  The server rolls back what was not committed.
Crash(r) ==
    /\ FailOnce
    /\ phase[r] \notin {"down", "stopped"}
    /\ Goto(r, "down")
    /\ open' = [open EXCEPT ![r] = FALSE]
    /\ lock' = IF lock = r THEN Orphan ELSE lock
    /\ \/ UNCHANGED <<rows, effects>>
       \/ phase[r] = "commit" /\ \E f \in Files : Applies(r, f)
    /\ UNCHANGED <<table, deploy, saw, todo>>

\* The server notices that the client is gone.
DropSession ==
    /\ lock = Orphan
    /\ lock' = Nobody
    /\ UNCHANGED <<table, rows, effects, deploy, phase, saw, todo, open, failures>>

-----------------------------------------------------------------------------
(* Serving and shutting down *)

\* The pool, the cache and the server.
Listen(r) ==
    /\ phase[r] = "cache"
    /\ Goto(r, "serving")
    /\ UNCHANGED <<db, deploy, saw, todo, open, failures>>

\* server.close refuses new connections; those it has are served to the end.
Request(r) ==
    /\ phase[r] = "serving" /\ ~open[r]
    /\ open' = [open EXCEPT ![r] = TRUE]
    /\ UNCHANGED <<db, deploy, phase, saw, todo, failures>>

Answer(r) ==
    /\ open[r]
    /\ open' = [open EXCEPT ![r] = FALSE]
    /\ UNCHANGED <<db, deploy, phase, saw, todo, failures>>

\* Mutant: no shuttingDown.  The second server.close finds the server closed and
\* calls back at once.
SignalTwice(r) ==
    /\ \/ phase[r] = "serving" /\ Goto(r, "draining")
       \/ phase[r] = "draining" /\ Goto(r, "closing")
    /\ UNCHANGED <<db, deploy, saw, todo, open, failures>>

\* SIGINT or SIGTERM.  A second one finds shuttingDown and does nothing.
Signal(r) ==
    /\ phase[r] = "serving"
    /\ Goto(r, "draining")
    /\ UNCHANGED <<db, deploy, saw, todo, open, failures>>

\* server.close calls back when the last connection ends.
Drained(r) ==
    /\ phase[r] = "draining" /\ ~open[r]
    /\ Goto(r, "closing")
    /\ UNCHANGED <<db, deploy, saw, todo, open, failures>>

\* The cache and the pool are closed, and the process exits.
Exit(r) ==
    /\ phase[r] = "closing"
    /\ Goto(r, "stopped")
    /\ UNCHANGED <<db, deploy, saw, todo, open, failures>>

\* Ten seconds after the signal.
ForceExit(r) ==
    /\ phase[r] \in {"draining", "closing"}
    /\ Goto(r, "stopped")
    /\ open' = [open EXCEPT ![r] = FALSE]
    /\ UNCHANGED <<db, deploy, saw, todo, failures>>

-----------------------------------------------------------------------------
\* What a running replica does of its own accord.
Step(r) ==
    \/ Start(r) \/ Connect(r)
    \/ ReadCatalog(r) \/ CreateTable(r) \/ CreateTableLoses(r)
    \/ TakeLock(r) \/ CheckVersion(r) \/ RunFile(r) \/ InsertVersion(r) \/ Commit(r)
    \/ Unlock(r) \/ Abandon(r) \/ Listen(r)
    \/ Drained(r) \/ Exit(r) \/ ForceExit(r)

Next ==
    \/ \E r \in Replicas :
        Step(r) \/ Fail(r) \/ Crash(r) \/ Request(r) \/ Answer(r) \/ Signal(r)
    \/ DropSession

Spec == Init /\ [][Next]_vars

\* A process runs, an exited one is restarted, the server drops dead sessions.
\* Nothing makes a statement fail, and nobody need send a request or a signal.
Fairness == WF_vars(DropSession) /\ \A r \in Replicas : WF_vars(Step(r))

FairSpec == Spec /\ Fairness

-----------------------------------------------------------------------------
(* Properties *)

\* migrate.ts:15: only one process at a time executes check, apply and insert,
\* whatever crashes and whatever sessions are left behind.
OneRunner == \A r, s \in Replicas : phase[r] \in Applying /\ phase[s] \in Applying => r = s

\* migrate.ts:62-73: a file has taken effect once when its version is recorded and
\* not at all when it is not, also after a crash or a lost answer to COMMIT.
RowsTellTheTruth == \A f \in Files : effects[f] = IF f \in rows THEN 1 ELSE 0

\* migrate.ts:26: no file takes effect before the files sorted in front of it,
\* although replicas of two releases apply them.
AppliedInOrder == \A f \in rows : \A g \in Files : g < f => g \in rows

\* main.ts:27-32: a replica that serves has the schema of its release.
ServesMigrated == \A r \in Replicas : phase[r] \in Up => 1..image[r] \subseteq rows

\* main.ts:70-96: the cache and the pool are closed after the last answer, however
\* many signals arrive.
ClosesAfterLastAnswer == \A r \in Replicas : phase[r] = "closing" => ~open[r]

\* A replica whose environment is complete comes up, whatever raced or failed at
\* its first attempts.
EveryReplicaServes ==
    \A r \in Replicas : LoadConfig(env[r]) => <>(phase[r] \in Up \cup {"stopped"})
=============================================================================
