-------------------------- MODULE SchemaMigrations --------------------------
(***************************************************************************)
(* The migrations of the schema: numbered files, each a list of            *)
(* statements, applied in order and once.  A process holds a named lock of *)
(* MySQL while it migrates, which is gone when the connection that took it *)
(* dies, and the pool may run the rest on other connections.  A file is    *)
(* begun in a transaction, but in MySQL a statement that changes the       *)
(* schema commits what came before it, and itself, and nothing opens       *)
(* another: what follows in the file, its row in schema_migrations and the *)
(* end of its run included, is then durable statement by statement.  So a  *)
(* file that stops half way leaves a row in schema_migration_runs, and no  *)
(* process runs it again.                                                  *)
(***************************************************************************)
EXTENDS Naturals

CONSTANTS
  Migrators,      \* processes that run the migrations
  LastFile,       \* the files are 1 .. LastFile, in the order of their names
  LastStatement,  \* the statements of each file
  Ddl,            \* those that commit: pairs of a file and a statement
  Nobody          \* the lock is free

ASSUME MigrationsAssumption ==
  /\ LastFile \in Nat /\ LastStatement \in Nat
  /\ Ddl \subseteq (1 .. LastFile) \X (1 .. LastStatement)
  /\ Nobody \notin Migrators

VARIABLES
  lock,      \* who holds payhub_schema_migrations
  applied,   \* schema_migrations
  ledger,    \* schema_migration_runs
  effects,   \* how often a statement of a file has been committed
  migrator,  \* a process inside runMigrations
  open,      \* the processes whose connection has a transaction open
  tx         \* what they have executed in it

migrationVars == <<lock, applied, ledger, effects, migrator, open, tx>>

Files == 1 .. LastFile
Statements == 1 .. LastStatement

\* After the statements of a file come the INSERT into schema_migrations and
\* the UPDATE of the run.
Recording == LastStatement + 1
Finishing == LastStatement + 2
Steps == 1 .. Finishing

MigratorPlaces == {"idle", "file", "run", "insert", "begin", "execute", "failed"}

\* Tables and memories hold what their names say.
MigrationsTypeOK ==
  /\ lock \in Migrators \cup {Nobody}
  /\ applied \subseteq Files
  /\ ledger \in [Files -> {"NONE", "RUNNING", "APPLIED", "FAILED"}]
  /\ effects \in [Files -> [Statements -> Nat]]
  /\ migrator \in [Migrators ->
       [at : MigratorPlaces, file : 1 .. LastFile + 1, next : 1 .. Finishing + 1]]
  /\ open \subseteq Migrators
  /\ tx \in [Migrators -> SUBSET Steps]

Away == [at |-> "idle", file |-> 1, next |-> 1]

MigrationsInit ==
  /\ lock = Nobody
  /\ applied = {}
  /\ ledger = [f \in Files |-> "NONE"]
  /\ effects = [f \in Files |-> [s \in Statements |-> 0]]
  /\ migrator = [m \in Migrators |-> Away]
  /\ open = {}
  /\ tx = [m \in Migrators |-> {}]

\* It is at a place, with the file f.
Migrating(m, place, f) == migrator[m].at = place /\ migrator[m].file = f
Move(m, place) == migrator' = [migrator EXCEPT ![m].at = place]
NextFile(m) == migrator' = [migrator EXCEPT ![m] =
                 [at |-> "file", file |-> @.file + 1, next |-> 1]]

\* runMigrations throws or returns: the pool ends, and its connections.
Leave(m) ==
  /\ migrator' = [migrator EXCEPT ![m] = Away]
  /\ lock' = IF lock = m THEN Nobody ELSE lock

\* What a commit adds to the effects of the file f.
Committed(f, done) ==
  [effects EXCEPT ![f] =
     [s \in Statements |-> @[s] + (IF s \in done THEN 1 ELSE 0)]]

\* The steps done of the file f become durable.
Durable(f, done) ==
  /\ effects' = Committed(f, done)
  /\ applied' = IF Recording \in done THEN applied \cup {f} ELSE applied
  /\ ledger' = IF Finishing \in done THEN [ledger EXCEPT ![f] = "APPLIED"] ELSE ledger

\* A COMMIT of m, its own or one that a statement implies, or a ROLLBACK.
CloseTransaction(m) ==
  /\ open' = open \ {m}
  /\ tx' = [tx EXCEPT ![m] = {}]

-----------------------------------------------------------------------------

AcquireLock(m) ==
  /\ migrator[m].at = "idle" /\ lock = Nobody
  /\ lock' = m
  /\ Move(m, "file")
  /\ UNCHANGED <<applied, ledger, effects, open, tx>>

LockConnectionDies ==
  /\ lock # Nobody
  /\ lock' = Nobody
  /\ UNCHANGED <<applied, ledger, effects, migrator, open, tx>>

SkipApplied(m, f) ==
  /\ Migrating(m, "file", f) /\ f \in applied
  /\ NextFile(m)
  /\ UNCHANGED <<lock, applied, ledger, effects, open, tx>>

NotApplied(m, f) ==
  /\ Migrating(m, "file", f) /\ f \notin applied
  /\ Move(m, "run")
  /\ UNCHANGED <<lock, applied, ledger, effects, open, tx>>

AllDone(m) ==
  /\ migrator[m].at = "file" /\ migrator[m].file = LastFile + 1
  /\ Leave(m)
  /\ UNCHANGED <<applied, ledger, effects, open, tx>>

\* incompleteMigrationMessage: a file with a run of any status ends it all.
CheckRun(m, f) ==
  /\ Migrating(m, "run", f)
  /\ IF ledger[f] = "NONE"
     THEN Move(m, "insert") /\ UNCHANGED lock
     ELSE Leave(m)
  /\ UNCHANGED <<applied, ledger, effects, open, tx>>

\* Mutant: the run is written whether or not there is one.
UpsertRun(m, f) ==
  /\ Migrating(m, "insert", f)
  /\ ledger' = [ledger EXCEPT ![f] = "RUNNING"]
  /\ Move(m, "begin")
  /\ UNCHANGED <<lock, applied, effects, open, tx>>

\* The primary key decides between two that both found no run.
InsertMigrationRun(m, f) ==
  /\ Migrating(m, "insert", f)
  /\ IF ledger[f] = "NONE"
     THEN /\ ledger' = [ledger EXCEPT ![f] = "RUNNING"]
          /\ Move(m, "begin") /\ UNCHANGED lock
     ELSE Leave(m) /\ UNCHANGED ledger
  /\ UNCHANGED <<applied, effects, open, tx>>

\* The file is read, then its transaction begun.  If it cannot be read, or no
\* connection is had, the run stays RUNNING: the try begins after them.
BeginFile(m, f) ==
  /\ Migrating(m, "begin", f)
  /\ \/ Move(m, "execute") /\ open' = open \cup {m} /\ UNCHANGED lock
     \/ Move(m, "failed") /\ UNCHANGED <<open, lock>>
     \/ Leave(m) /\ UNCHANGED open
  /\ UNCHANGED <<applied, ledger, effects, tx>>

\* The next step is taken, though its answer may be lost.
Answered(m) ==
  \/ migrator' = [migrator EXCEPT ![m].next = @ + 1]
  \/ Move(m, "failed")

\* A statement that changes the schema ends the transaction, if there still
\* is one, and is durable with it.
ExecuteDdl(m, f) ==
  LET s == migrator[m].next IN
  /\ Migrating(m, "execute", f) /\ <<f, s>> \in Ddl
  /\ Durable(f, tx[m] \cup {s})
  /\ CloseTransaction(m)
  /\ Answered(m)
  /\ UNCHANGED lock

\* Any other, and the two that record the file, waits for the COMMIT as long
\* as the transaction is open, and is durable at once when it is not.
ExecuteDml(m, f) ==
  LET s == migrator[m].next IN
  /\ Migrating(m, "execute", f) /\ s \in Steps /\ <<f, s>> \notin Ddl
  /\ \/ /\ m \in open
        /\ tx' = [tx EXCEPT ![m] = @ \cup {s}]
        /\ UNCHANGED <<applied, ledger, effects>>
     \/ /\ m \notin open
        /\ Durable(f, {s})
        /\ UNCHANGED tx
  /\ Answered(m)
  /\ UNCHANGED <<lock, open>>

\* A step is refused; one that changes the schema may have committed what came
\* before it.
StepRefused(m, f) ==
  LET s == migrator[m].next IN
  /\ Migrating(m, "execute", f) /\ s \in Steps
  /\ \/ <<f, s>> \in Ddl /\ Durable(f, tx[m]) /\ CloseTransaction(m)
     \/ UNCHANGED <<applied, ledger, effects, open, tx>>
  /\ Move(m, "failed")
  /\ UNCHANGED lock

\* The COMMIT, with what is left to it; its answer may be lost.
CommitFile(m, f) ==
  /\ Migrating(m, "execute", f) /\ migrator[m].next = Finishing + 1
  /\ Durable(f, tx[m])
  /\ CloseTransaction(m)
  /\ NextFile(m) \/ Move(m, "failed")
  /\ UNCHANGED lock

\* The catch: rollback, FAILED whatever is recorded by then, and the error
\* goes on to the caller.
FailFile(m, f) ==
  /\ Migrating(m, "failed", f)
  /\ CloseTransaction(m)
  /\ ledger' = [ledger EXCEPT ![f] = "FAILED"]
  /\ Leave(m)
  /\ UNCHANGED <<applied, effects>>

\* The process dies, or the catch throws.
MigratorDies(m) ==
  /\ migrator[m].at # "idle"
  /\ CloseTransaction(m)
  /\ Leave(m)
  /\ UNCHANGED <<applied, ledger, effects>>

MigrationsNext ==
  \/ LockConnectionDies
  \/ \E m \in Migrators :
       \/ AcquireLock(m) \/ AllDone(m) \/ MigratorDies(m)
       \/ \E f \in Files :
            \/ SkipApplied(m, f) \/ NotApplied(m, f) \/ CheckRun(m, f)
            \/ InsertMigrationRun(m, f) \/ BeginFile(m, f)
            \/ ExecuteDdl(m, f) \/ ExecuteDml(m, f) \/ StepRefused(m, f)
            \/ CommitFile(m, f) \/ FailFile(m, f)

MigrationsSpec == MigrationsInit /\ [][MigrationsNext]_migrationVars

-----------------------------------------------------------------------------
(***************************************************************************)
(* No statement takes effect twice, through any number of processes,       *)
(* deaths and reruns, and even when the lock is lost: the row of the run   *)
(* stands in the way, and nothing in the program ever removes it.          *)
(***************************************************************************)
StatementOnce == \A f \in Files, s \in Statements : effects[f][s] <= 1

\* The steps of the file f that have taken effect.
TakenEffect(f) ==
  {s \in Statements : effects[f][s] > 0}
    \cup (IF f \in applied THEN {Recording} ELSE {})
    \cup (IF ledger[f] = "APPLIED" THEN {Finishing} ELSE {})

(***************************************************************************)
(* What has taken effect of a file is a beginning of it, through implicit  *)
(* commits, refused statements, lost answers and deaths: none of its       *)
(* statements without those before it, the row in schema_migrations not    *)
(* without all of its statements, and the run not APPLIED without the row. *)
(***************************************************************************)
BeginningOfFile ==
  \A f \in Files : \A s \in TakenEffect(f) : 1 .. s - 1 \subseteq TakenEffect(f)

(***************************************************************************)
(* Nothing of a file takes effect before all earlier files are applied: a  *)
(* file that stopped half way keeps the later ones from starting.          *)
(***************************************************************************)
FilesInOrder ==
  \A f \in Files : TakenEffect(f) # {} => 1 .. f - 1 \subseteq applied

(***************************************************************************)
(* The schema is what one undisturbed process would have made of a prefix  *)
(* of the files and of the beginning of one more, whoever migrates, dies   *)
(* or loses the lock: all three of the above.                              *)
(***************************************************************************)
MigratedOnceInOrder == StatementOnce /\ BeginningOfFile /\ FilesInOrder
=============================================================================
