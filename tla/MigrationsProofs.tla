-------------------------- MODULE MigrationsProofs --------------------------
(***************************************************************************)
(* Proofs about Migrations, for any number of replicas, files and failures. *)
(*                                                                         *)
(* The advisory lock is what everything rests on: whoever is in the loop    *)
(* holds it (Good, first part), so nobody else adds a row under its feet,   *)
(* and what the loop has passed is in the table (second part).  A replica   *)
(* that has left the loop relies only on rows never being removed.          *)
(***************************************************************************)
EXTENDS Migrations, TLAPS

InTransaction == {"sql", "row", "commit"}

\* What replica r relies on at its step.
Good(r) ==
    /\ phase[r] \in Holding => lock = r
    /\ phase[r] \in Starting \cup Applying \cup {"unlock"} =>
          /\ todo[r] \subseteq 1..image[r]
          /\ \A f \in 1..image[r] : f \in todo[r] \/ f \in rows
    /\ phase[r] \in InTransaction => \A f \in todo[r] : NextFile(r, f) => f \notin rows
    /\ phase[r] = "unlock" => todo[r] = {}
    /\ phase[r] \in Up \cup {"cache"} => 1..image[r] \subseteq rows
    /\ phase[r] = "closing" => ~open[r]

IInv == TypeOK /\ RowsTellTheTruth /\ AppliedInOrder /\ \A r \in Replicas : Good(r)

\* What a step may do to the database: nothing, or what the holder of the lock does.
Ledger == TypeOK /\ RowsTellTheTruth /\ AppliedInOrder

-----------------------------------------------------------------------------
LEMMA ImageWithin == ASSUME TypeOK, NEW r \in Replicas PROVE 1..image[r] \subseteq Files
  <1>1. image[r] \in 0..NumFiles  BY DEF TypeOK
  <1> QED  BY <1>1, FilesAreCounted DEF Files

LEMMA ListingIsPrefix == ASSUME TypeOK, NEW r \in Replicas PROVE Listing(r) = 1..image[r]
  <1>1. image[r] \in Nat  BY FilesAreCounted DEF TypeOK
  <1> QED  BY <1>1 DEF Listing, Directory, NotMigration

\* The replicas that do not move keep what they rely on.
LEMMA OthersKeep ==
    ASSUME NEW r \in Replicas, NEW s \in Replicas, s # r, Good(s),
           phase'[s] = phase[s], todo'[s] = todo[s], open'[s] = open[s], image' = image,
           rows \subseteq rows', rows' = rows \/ lock = r,
           lock' = lock \/ lock \in {Nobody, Orphan, r}
    PROVE  Good(s)'
  <1>1. phase[s] \in Holding => rows' = rows /\ lock' = s
    BY HoldersAreFresh DEF Good
  <1>2. InTransaction \subseteq Holding  BY DEF InTransaction, Holding, Applying
  <1>3. phase'[s] \in InTransaction => \A f \in todo'[s] : NextFile(s, f)' => f \notin rows'
    BY <1>1, <1>2 DEF Good, NextFile
  <1> QED  BY <1>1, <1>3 DEF Good

\* Goto moves one replica.
LEMMA GotoMoves ==
    ASSUME TypeOK, NEW r \in Replicas, NEW step \in Phases, Goto(r, step)
    PROVE  /\ phase' \in [Replicas -> Phases]
           /\ phase'[r] = step
           /\ \A s \in Replicas \ {r} : phase'[s] = phase[s]
  BY DEF TypeOK, Goto

\* A step that leaves the database alone keeps what is in it.
LEMMA LedgerKept ==
    ASSUME RowsTellTheTruth, AppliedInOrder, rows' = rows, effects' = effects
    PROVE  RowsTellTheTruth' /\ AppliedInOrder'
  BY DEF RowsTellTheTruth, AppliedInOrder

\* A commit records the file, once, and in order.
LEMMA CommitRecords ==
    ASSUME IInv, NEW r \in Replicas, phase[r] = "commit", NEW f \in Files, Applies(r, f)
    PROVE  /\ rows' \subseteq Files /\ rows' = rows \cup {f}
           /\ effects' \in [Files -> Nat]
           /\ RowsTellTheTruth' /\ AppliedInOrder'
  <1>1. Good(r) /\ TypeOK  BY DEF IInv
  <1>2. f \notin rows
    BY <1>1 DEF Good, InTransaction, Applies, NextFile
  <1>3. rows' \subseteq Files /\ rows' = rows \cup {f} /\ effects' \in [Files -> Nat]
    BY <1>1 DEF Applies, TypeOK
  <1>4. RowsTellTheTruth'
    BY <1>1, <1>2 DEF Applies, TypeOK, RowsTellTheTruth, IInv
  <1>5. AppliedInOrder'
    <2> SUFFICES ASSUME NEW h \in rows', NEW g \in Files, g < h  PROVE g \in rows'
      BY DEF AppliedInOrder
    <2>1. CASE h \in rows  BY <2>1, <1>3 DEF AppliedInOrder, IInv
    <2>2. CASE h = f
      <3>1. f \in todo[r] /\ \A e \in todo[r] : f <= e  BY DEF Applies, NextFile
      <3>2. todo[r] \subseteq 1..image[r] /\ \A e \in 1..image[r] : e \in todo[r] \/ e \in rows
        BY <1>1 DEF Good, Applying
      <3>3. f \in Nat /\ g \in Nat /\ image[r] \in Nat
        BY <1>1, FilesAreCounted DEF Files, TypeOK
      <3>4. g \in 1..image[r]  BY <2>2, <3>1, <3>2, <3>3 DEF Files
      <3>5. g \notin todo[r]  BY <2>2, <3>1, <3>3
      <3> QED  BY <3>2, <3>4, <3>5, <1>3
    <2> QED  BY <2>1, <2>2, <1>3
  <1> QED  BY <1>3, <1>4, <1>5

-----------------------------------------------------------------------------
LEMMA InitHolds == Init => IInv
  <1> SUFFICES ASSUME Init PROVE IInv  OBVIOUS
  <1>1. TypeOK
    BY DEF Init, TypeOK, Phases
  <1>2. RowsTellTheTruth /\ AppliedInOrder  BY DEF Init, RowsTellTheTruth, AppliedInOrder
  <1>3. ASSUME NEW r \in Replicas PROVE Good(r)
    BY DEF Init, Good, Holding, Starting, Applying, InTransaction, Up
  <1> QED  BY <1>1, <1>2, <1>3 DEF IInv

\* From the types, the ledger and the replica that moved, the whole invariant.
LEMMA StepKeeps ==
    ASSUME IInv, NEW r \in Replicas, Ledger', Good(r)', image' = image,
           \A s \in Replicas \ {r} : phase'[s] = phase[s] /\ todo'[s] = todo[s] /\ open'[s] = open[s],
           rows \subseteq rows', rows' = rows \/ lock = r,
           lock' = lock \/ lock \in {Nobody, Orphan, r}
    PROVE  IInv'
  <1>1. ASSUME NEW s \in Replicas PROVE Good(s)'
    <2>1. CASE s = r  BY <2>1
    <2>2. CASE s # r
      <3>1. Good(s)  BY DEF IInv
      <3> QED  BY <2>2, <3>1, OthersKeep
    <2> QED  BY <2>1, <2>2
  <1> QED  BY <1>1 DEF IInv, Ledger

-----------------------------------------------------------------------------
(* Start-up *)

LEMMA StartKeeps == ASSUME IInv, NEW r \in Replicas, Start(r) PROVE IInv'
  <1> USE DEF IInv
  <1>1. LET step == IF Listing(r) = {} THEN "cache" ELSE "connect"
        IN  step \in Phases /\ Goto(r, step)
    BY DEF Start, Phases, Starting
  <1>2. /\ phase' \in [Replicas -> Phases]
        /\ phase'[r] = IF Listing(r) = {} THEN "cache" ELSE "connect"
        /\ \A s \in Replicas \ {r} : phase'[s] = phase[s]
    BY <1>1, GotoMoves
  <1>3. /\ Listing(r) = 1..image[r]
        /\ 1..image[r] \subseteq Files
    BY ListingIsPrefix, ImageWithin
  <1>4. /\ todo' \in [Replicas -> SUBSET Files]
        /\ todo'[r] = 1..image[r]
        /\ \A s \in Replicas \ {r} : todo'[s] = todo[s]
    BY <1>3 DEF Start, TypeOK
  <1>5. UNCHANGED <<db, deploy, saw, open, failures>>  BY DEF Start
  <1>6. Ledger'
    BY <1>2, <1>4, <1>5, LedgerKept DEF Ledger, TypeOK, db, deploy
  <1>7. Good(r)'
    BY <1>2, <1>3, <1>4, <1>5 DEF Good, db, deploy, Holding, Starting, Applying, InTransaction, Up
  <1> QED  BY <1>2, <1>4, <1>5, <1>6, <1>7, StepKeeps DEF db, deploy

\* Connecting and the two statements of CREATE TABLE.
LEMMA ConnectKeeps ==
    ASSUME IInv, NEW r \in Replicas,
           Connect(r) \/ ReadCatalog(r) \/ CreateTable(r) \/ CreateTableLoses(r)
    PROVE  IInv'
  <1> USE DEF IInv
  <1>1. PICK step \in {"create", "creating", "lock", "down"} : Goto(r, step)
    BY DEF Connect, ReadCatalog, CreateTable, CreateTableLoses
  <1>2. /\ phase' \in [Replicas -> Phases] /\ phase'[r] = step
        /\ \A s \in Replicas \ {r} : phase'[s] = phase[s]
    BY <1>1, GotoMoves DEF Phases, Starting
  <1>3. /\ UNCHANGED <<rows, effects, lock, deploy, todo, open, failures>>
        /\ phase[r] \in Starting
        /\ table' \in BOOLEAN /\ saw' \in [Replicas -> BOOLEAN]
    BY DEF Connect, ReadCatalog, CreateTable, CreateTableLoses, db, Starting, TypeOK
  <1>4. Ledger'
    BY <1>2, <1>3, LedgerKept DEF Ledger, TypeOK, deploy
  <1>5. Good(r)'
    BY <1>2, <1>3 DEF Good, deploy, Holding, Starting, Applying, InTransaction, Up
  <1> QED  BY <1>2, <1>3, <1>4, <1>5, StepKeeps DEF deploy

-----------------------------------------------------------------------------
(* The loop *)

LEMMA TakeLockKeeps == ASSUME IInv, NEW r \in Replicas, TakeLock(r) PROVE IInv'
  <1> USE DEF IInv
  <1>1. /\ phase' \in [Replicas -> Phases] /\ phase'[r] = "check"
        /\ \A s \in Replicas \ {r} : phase'[s] = phase[s]
    BY GotoMoves DEF TakeLock, Phases, Holding, Applying
  <1>2. /\ UNCHANGED <<table, rows, effects, deploy, saw, todo, open, failures>>
        /\ phase[r] = "lock" /\ lock = Nobody /\ lock' = r
    BY DEF TakeLock
  <1>3. Ledger'
    BY <1>1, <1>2, LedgerKept DEF Ledger, TypeOK, deploy
  <1>4. Good(r)'
    BY <1>1, <1>2 DEF Good, deploy, Holding, Starting, Applying, InTransaction, Up
  <1> QED  BY <1>1, <1>2, <1>3, <1>4, StepKeeps DEF deploy

LEMMA CheckVersionKeeps == ASSUME IInv, NEW r \in Replicas, CheckVersion(r) PROVE IInv'
  <1> USE DEF IInv
  <1>1. /\ UNCHANGED <<db, deploy, saw, open, failures>> /\ phase[r] = "check"
    BY DEF CheckVersion
  <1>2. CASE \E f \in Files : NextFile(r, f) /\ f \in rows /\ Advance(r, f) /\ UNCHANGED phase
    <2>1. PICK f \in Files : f \in rows /\ Advance(r, f) /\ UNCHANGED phase  BY <1>2
    <2>2. /\ todo' \in [Replicas -> SUBSET Files]
          /\ todo'[r] = todo[r] \ {f}
          /\ \A s \in Replicas \ {r} : todo'[s] = todo[s]
      BY <2>1 DEF Advance, TypeOK
    <2>3. Ledger'
      BY <1>1, <2>1, <2>2, LedgerKept DEF Ledger, TypeOK, db, deploy
    <2>4. Good(r)'
      BY <1>1, <2>1, <2>2 DEF Good, db, deploy, Holding, Starting, Applying, InTransaction, Up
    <2> QED  BY <1>1, <2>1, <2>2, <2>3, <2>4, StepKeeps DEF db, deploy
  <1>3. CASE \E f \in Files : NextFile(r, f) /\ f \notin rows /\ Goto(r, "sql") /\ UNCHANGED todo
    <2>1. PICK f \in Files : NextFile(r, f) /\ f \notin rows /\ Goto(r, "sql") /\ UNCHANGED todo
      BY <1>3
    <2>2. /\ phase' \in [Replicas -> Phases] /\ phase'[r] = "sql"
          /\ \A s \in Replicas \ {r} : phase'[s] = phase[s]
      BY <2>1, GotoMoves DEF Phases, Holding, Applying
    <2>3. Ledger'
      BY <1>1, <2>1, <2>2, LedgerKept DEF Ledger, TypeOK, db, deploy
    <2>4. \A g \in todo[r] : NextFile(r, g) => g \notin rows
      <3> SUFFICES ASSUME NEW g \in todo[r], NextFile(r, g) PROVE g = f
        BY <2>1
      <3>1. g <= f /\ f <= g  BY <2>1 DEF NextFile
      <3>2. g \in Nat /\ f \in Nat  BY DEF TypeOK, Files
      <3> QED  BY <3>1, <3>2
    <2>5. Good(r)'
      BY <1>1, <2>1, <2>2, <2>4
      DEF Good, NextFile, db, deploy, Holding, Starting, Applying, InTransaction, Up
    <2> QED  BY <1>1, <2>1, <2>2, <2>3, <2>5, StepKeeps DEF db, deploy
  <1>4. CASE todo[r] = {} /\ Goto(r, "unlock") /\ UNCHANGED todo
    <2>1. /\ phase' \in [Replicas -> Phases] /\ phase'[r] = "unlock"
          /\ \A s \in Replicas \ {r} : phase'[s] = phase[s]
      BY <1>4, GotoMoves DEF Phases, Holding, Applying
    <2>2. Ledger'
      BY <1>1, <1>4, <2>1, LedgerKept DEF Ledger, TypeOK, db, deploy
    <2>3. Good(r)'
      BY <1>1, <1>4, <2>1 DEF Good, db, deploy, Holding, Starting, Applying, InTransaction, Up
    <2> QED  BY <1>1, <1>4, <2>1, <2>2, <2>3, StepKeeps DEF db, deploy
  <1> QED  BY <1>2, <1>3, <1>4 DEF CheckVersion

\* The statements of the transaction.
LEMMA TransactionKeeps ==
    ASSUME IInv, NEW r \in Replicas, RunFile(r) \/ InsertVersion(r)
    PROVE  IInv'
  <1> USE DEF IInv
  <1>1. PICK step \in {"row", "commit"} : Goto(r, step)  BY DEF RunFile, InsertVersion
  <1>2. /\ phase' \in [Replicas -> Phases] /\ phase'[r] = step
        /\ \A s \in Replicas \ {r} : phase'[s] = phase[s]
    BY <1>1, GotoMoves DEF Phases, Holding, Applying
  <1>3. /\ UNCHANGED <<db, deploy, saw, todo, open, failures>>
        /\ phase[r] \in {"sql", "row"}
    BY DEF RunFile, InsertVersion
  <1>4. Ledger'
    BY <1>2, <1>3, LedgerKept DEF Ledger, TypeOK, db, deploy
  <1>5. Good(r)'
    BY <1>2, <1>3 DEF Good, NextFile, db, deploy, Holding, Starting, Applying, InTransaction, Up
  <1> QED  BY <1>2, <1>3, <1>4, <1>5, StepKeeps DEF db, deploy

LEMMA CommitKeeps == ASSUME IInv, NEW r \in Replicas, Commit(r) PROVE IInv'
  <1> USE DEF IInv
  <1>1. PICK f \in Files : Applies(r, f) /\ Advance(r, f)  BY DEF Commit
  <1>2. /\ phase' \in [Replicas -> Phases] /\ phase'[r] = "check"
        /\ \A s \in Replicas \ {r} : phase'[s] = phase[s]
    BY GotoMoves DEF Commit, Phases, Holding, Applying
  <1>3. /\ todo' \in [Replicas -> SUBSET Files]
        /\ todo'[r] = todo[r] \ {f}
        /\ \A s \in Replicas \ {r} : todo'[s] = todo[s]
    BY <1>1 DEF Advance, TypeOK
  <1>4. UNCHANGED <<table, lock, deploy, saw, open, failures>> /\ phase[r] = "commit"
    BY DEF Commit
  <1>5. /\ rows' \subseteq Files /\ rows' = rows \cup {f}
        /\ effects' \in [Files -> Nat]
        /\ RowsTellTheTruth' /\ AppliedInOrder'
    BY <1>1, <1>4, CommitRecords
  <1>6. Ledger'
    BY <1>2, <1>3, <1>4, <1>5 DEF Ledger, TypeOK, deploy
  <1>7. lock = r  BY <1>4 DEF Good, Holding, Applying
  <1>8. Good(r)'
    BY <1>2, <1>3, <1>4, <1>5, <1>7 DEF Good, deploy, Holding, Starting, Applying, InTransaction, Up
  <1> QED  BY <1>2, <1>3, <1>4, <1>5, <1>6, <1>7, <1>8, StepKeeps DEF deploy

LEMMA ReleaseKeeps ==
    ASSUME IInv, NEW r \in Replicas, Unlock(r) \/ Abandon(r)
    PROVE  IInv'
  <1> USE DEF IInv
  <1>1. PICK step \in {"cache", "down"} : Goto(r, step) /\ (step = "cache" => phase[r] = "unlock")
    BY DEF Unlock, Abandon
  <1>2. /\ phase' \in [Replicas -> Phases] /\ phase'[r] = step
        /\ \A s \in Replicas \ {r} : phase'[s] = phase[s]
    BY <1>1, GotoMoves DEF Phases
  <1>3. /\ UNCHANGED <<table, rows, effects, deploy, saw, todo, open, failures>>
        /\ lock' = Nobody
    BY DEF Unlock, Abandon
  <1>4. Ledger'
    BY <1>2, <1>3, LedgerKept DEF Ledger, TypeOK, deploy
  <1>5. Good(r)'
    BY <1>1, <1>2, <1>3 DEF Good, deploy, Holding, Starting, Applying, InTransaction, Up
  <1>6. rows' = rows /\ todo' = todo /\ open' = open /\ image' = image
    BY <1>3 DEF deploy
  <1>7. lock = r  BY DEF Unlock, Abandon, Good, Holding
  <1> QED  BY <1>2, <1>4, <1>5, <1>6, <1>7, StepKeeps

-----------------------------------------------------------------------------
(* Failures *)

LEMMA FailKeeps == ASSUME IInv, NEW r \in Replicas, Fail(r) PROVE IInv'
  <1> USE DEF IInv
  <1>1. PICK step \in {"abandon", "down"} :
            Goto(r, step) /\ (step = "abandon" => phase[r] \in Applying)
    BY DEF Fail
  <1>2. /\ phase' \in [Replicas -> Phases] /\ phase'[r] = step
        /\ \A s \in Replicas \ {r} : phase'[s] = phase[s]
    BY <1>1, GotoMoves DEF Phases, Holding
  <1>3. UNCHANGED <<db, deploy, saw, todo, open>> /\ failures' \in Nat
    BY DEF Fail, FailOnce, TypeOK
  <1>4. Ledger'
    BY <1>2, <1>3, LedgerKept DEF Ledger, TypeOK, db, deploy
  <1>5. Good(r)'
    BY <1>1, <1>2, <1>3 DEF Good, db, deploy, Holding, Starting, Applying, InTransaction, Up
  <1> QED  BY <1>2, <1>3, <1>4, <1>5, StepKeeps DEF db, deploy

LEMMA CrashKeeps == ASSUME IInv, NEW r \in Replicas, Crash(r) PROVE IInv'
  <1> USE DEF IInv
  <1>1. /\ phase' \in [Replicas -> Phases] /\ phase'[r] = "down"
        /\ \A s \in Replicas \ {r} : phase'[s] = phase[s]
    BY GotoMoves DEF Crash, Phases
  <1>2. /\ open' \in [Replicas -> BOOLEAN]
        /\ \A s \in Replicas \ {r} : open'[s] = open[s]
    BY DEF Crash, TypeOK
  <1>3. UNCHANGED <<table, deploy, saw, todo>> /\ failures' \in Nat
    BY DEF Crash, FailOnce, TypeOK
  <1>4. lock' \in Replicas \cup {Nobody, Orphan} /\ (lock' = lock \/ (lock' = Orphan /\ lock = r))
    BY DEF Crash, TypeOK
  <1>5. /\ rows' \subseteq Files /\ rows \subseteq rows' /\ effects' \in [Files -> Nat]
        /\ RowsTellTheTruth' /\ AppliedInOrder'
        /\ rows' = rows \/ lock = r
    <2>1. CASE UNCHANGED <<rows, effects>>  BY <2>1, LedgerKept DEF TypeOK
    <2>2. CASE phase[r] = "commit" /\ \E f \in Files : Applies(r, f)
      <3>1. lock = r  BY <2>2 DEF Good, Holding, Applying
      <3> QED  BY <2>2, <3>1, CommitRecords
    <2> QED  BY <2>1, <2>2 DEF Crash
  <1>6. Ledger'
    BY <1>1, <1>2, <1>3, <1>4, <1>5 DEF Ledger, TypeOK, deploy
  <1>7. Good(r)'
    BY <1>1 DEF Good, Holding, Starting, Applying, InTransaction, Up
  <1>8. rows \subseteq rows' /\ todo' = todo /\ image' = image
        /\ (lock' = lock \/ lock = r)
    BY <1>3, <1>4, <1>5 DEF deploy
  <1> QED  BY <1>1, <1>2, <1>5, <1>6, <1>7, <1>8, StepKeeps
LEMMA DropSessionKeeps == ASSUME IInv, DropSession PROVE IInv'
  <1> USE DEF IInv
  <1>1. /\ UNCHANGED <<table, rows, effects, deploy, phase, saw, todo, open, failures>>
        /\ lock = Orphan /\ lock' = Nobody
    BY DEF DropSession
  <1>2. Ledger'  BY <1>1, LedgerKept DEF Ledger, TypeOK, deploy
  <1>3. ASSUME NEW r \in Replicas PROVE Good(r)'
    <2>1. phase[r] \notin Holding  BY <1>1, HoldersAreFresh DEF Good
    <2> QED  BY <1>1, <2>1 DEF Good, NextFile, deploy, InTransaction, Holding, Applying
  <1> QED  BY <1>2, <1>3 DEF Ledger

-----------------------------------------------------------------------------
(* Serving *)

\* Serving changes nothing in the database; only a replica without an open
\* request reaches the closing of its pools.
LEMMA ServingKeeps ==
    ASSUME IInv, NEW r \in Replicas,
           Listen(r) \/ Request(r) \/ Answer(r) \/ Signal(r) \/ Drained(r) \/ Exit(r) \/ ForceExit(r)
    PROVE  IInv'
  <1> USE DEF IInv
  <1>1. UNCHANGED <<db, deploy, saw, todo, failures>>
    BY DEF Listen, Request, Answer, Signal, Drained, Exit, ForceExit
  <1>2. /\ open' \in [Replicas -> BOOLEAN]
        /\ \A s \in Replicas \ {r} : open'[s] = open[s]
    BY DEF Listen, Request, Answer, Signal, Drained, Exit, ForceExit, TypeOK
  <1>3. /\ phase' \in [Replicas -> Phases]
        /\ \A s \in Replicas \ {r} : phase'[s] = phase[s]
    BY DEF Listen, Request, Answer, Signal, Drained, Exit, ForceExit, TypeOK, Goto, Phases, Up
  <1>4. Ledger'
    BY <1>1, <1>2, <1>3, LedgerKept DEF Ledger, TypeOK, db, deploy
  <1>5. phase[r] \in Up \cup {"cache"} => 1..image[r] \subseteq rows  BY DEF Good
  <1>6. Good(r)'
    <2> USE DEF Good, db, deploy, Holding, Starting, Applying, InTransaction, Up
    <2>1. CASE Listen(r) \/ Signal(r) \/ Exit(r) \/ ForceExit(r)
      <3>1. /\ phase[r] \in Up \cup {"cache"}
            /\ phase'[r] \in {"serving", "draining", "stopped"}
        BY <2>1 DEF Listen, Signal, Exit, ForceExit, TypeOK, Goto
      <3> QED  BY <1>1, <1>5, <3>1
    <2>2. CASE Request(r)
      <3>1. phase'[r] = "serving" /\ phase[r] = "serving"  BY <2>2 DEF Request
      <3> QED  BY <1>1, <1>5, <3>1
    <2>3. CASE Answer(r)
      <3>1. phase' = phase /\ ~open'[r]  BY <2>3 DEF Answer, TypeOK
      <3> QED  BY <1>1, <3>1 DEF NextFile
    <2>4. CASE Drained(r)
      <3>1. phase[r] = "draining" /\ phase'[r] = "closing" /\ ~open'[r]
        BY <2>4 DEF Drained, TypeOK, Goto
      <3> QED  BY <1>1, <1>5, <3>1
    <2> QED  BY <2>1, <2>2, <2>3, <2>4
  <1> QED  BY <1>1, <1>2, <1>3, <1>4, <1>6, StepKeeps DEF db, deploy

LEMMA StutterKeeps == ASSUME IInv, UNCHANGED vars PROVE IInv'
  <1>1. TypeOK' /\ RowsTellTheTruth' /\ AppliedInOrder'
    BY DEF IInv, TypeOK, RowsTellTheTruth, AppliedInOrder, vars
  <1>2. ASSUME NEW r \in Replicas PROVE Good(r)'
    BY DEF IInv, Good, NextFile, vars
  <1> QED  BY <1>1, <1>2 DEF IInv

LEMMA NextHolds == IInv /\ [Next]_vars => IInv'
  <1> SUFFICES ASSUME IInv, [Next]_vars PROVE IInv'  OBVIOUS
  <1>1. ASSUME NEW r \in Replicas, Step(r) PROVE IInv'
    BY <1>1, StartKeeps, ConnectKeeps, TakeLockKeeps, CheckVersionKeeps, TransactionKeeps,
       CommitKeeps, ReleaseKeeps, ServingKeeps DEF Step
  <1>2. ASSUME NEW r \in Replicas,
               Fail(r) \/ Crash(r) \/ Request(r) \/ Answer(r) \/ Signal(r)
        PROVE  IInv'
    BY <1>2, FailKeeps, CrashKeeps, ServingKeeps
  <1> QED  BY <1>1, <1>2, DropSessionKeeps, StutterKeeps DEF Next

THEOREM Invariance == Spec => []IInv
  <1> QED  BY InitHolds, NextHolds, PTL DEF Spec

-----------------------------------------------------------------------------
\* Every reachable state is well typed.
THEOREM TypeCorrect == Spec => []TypeOK
  <1>1. IInv => TypeOK  BY DEF IInv
  <1> QED  BY <1>1, Invariance, PTL

\* Two replicas are never in the loop of migrate.ts at once, because both would
\* hold the lock.
THEOREM OneRunnerAtATime == Spec => []OneRunner
  <1>1. IInv => OneRunner  BY DEF IInv, Good, OneRunner, Holding
  <1> QED  BY <1>1, Invariance, PTL

\* schema_migrations names exactly what has taken effect, and each once.
THEOREM RowsAreTrue == Spec => []RowsTellTheTruth
  <1>1. IInv => RowsTellTheTruth  BY DEF IInv
  <1> QED  BY <1>1, Invariance, PTL

\* No file takes effect before those sorted in front of it.
THEOREM InOrder == Spec => []AppliedInOrder
  <1>1. IInv => AppliedInOrder  BY DEF IInv
  <1> QED  BY <1>1, Invariance, PTL

\* A replica that listens has the schema of its release.
THEOREM SchemaServed == Spec => []ServesMigrated
  <1>1. IInv => ServesMigrated  BY DEF IInv, Good, ServesMigrated
  <1> QED  BY <1>1, Invariance, PTL

\* The pools are closed after the last answer.
THEOREM DrainedFirst == Spec => []ClosesAfterLastAnswer
  <1>1. IInv => ClosesAfterLastAnswer  BY DEF IInv, Good, ClosesAfterLastAnswer
  <1> QED  BY <1>1, Invariance, PTL
=============================================================================
