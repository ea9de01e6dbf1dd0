----------------------- MODULE SchemaMigrationsProofs -----------------------
(***************************************************************************)
(* Proof that migrations take effect once and in order, for any number of  *)
(* processes, files and statements, whichever of them change the schema,   *)
(* though every process may die and the lock may be lost at any moment.    *)
(***************************************************************************)
EXTENDS SchemaMigrations, TLAPS

\* Past the INSERT of the run, and not yet out of the file.
InFile(m) == migrator[m].at \in {"begin", "execute", "failed"}

\* Only within a file is there a transaction, and a step but the first.
OutsideAtRest ==
  \A m \in Migrators :
    migrator[m].at \notin {"execute", "failed"} =>
      migrator[m].next = 1 /\ tx[m] = {} /\ m \notin open

\* A process goes through the files in order.
EarlierApplied ==
  \A m \in Migrators, g \in Files : g < migrator[m].file => g \in applied

\* Who is in a file has its run, and nobody else is in that file: the lock
\* says so no longer when its connection has died, the run still does.
RunIsTaken ==
  \A m \in Migrators :
    InFile(m) => migrator[m].file \in Files /\ ledger[migrator[m].file] # "NONE"

AloneInFile ==
  \A m, n \in Migrators :
    InFile(m) /\ InFile(n) /\ migrator[m].file = migrator[n].file => m = n

\* A file without a run has had no effect.
NothingBeforeRun ==
  \A f \in Files : ledger[f] = "NONE" => TakenEffect(f) = {}

\* What a process has executed is in its transaction as long as that is open,
\* and nothing of the file is durable then; once a change of the schema has
\* ended it, exactly what was executed is.
Executed(m) ==
  LET f == migrator[m].file
      done == 1 .. migrator[m].next - 1
  IN  IF m \in open
      THEN tx[m] = done /\ TakenEffect(f) = {}
      ELSE tx[m] = {} /\ TakenEffect(f) = done

ExecutedSoFar ==
  \A m \in Migrators : migrator[m].at \in {"begin", "execute"} => Executed(m)

MigrationsInv ==
  /\ OutsideAtRest /\ EarlierApplied
  /\ RunIsTaken /\ AloneInFile
  /\ NothingBeforeRun /\ ExecutedSoFar
  /\ MigratedOnceInOrder

-----------------------------------------------------------------------------
MigratorRows ==
  [Migrators ->
     [at : MigratorPlaces, file : 1 .. LastFile + 1, next : 1 .. Finishing + 1]]

\* A step moves one process, and leaves what it does not name.
LEMMA Moved ==
  ASSUME MigrationsTypeOK, NEW m \in Migrators,
         NEW place \in MigratorPlaces, Move(m, place)
  PROVE  /\ migrator' \in MigratorRows
         /\ migrator'[m].at = place
         /\ migrator'[m].file = migrator[m].file
         /\ migrator'[m].next = migrator[m].next
         /\ \A n \in Migrators : n # m => migrator'[n] = migrator[n]
BY DEF MigrationsTypeOK, MigratorRows, Move

\* A process that goes on to the next file begins at its first statement.
LEMMA WentToNextFile ==
  ASSUME MigrationsTypeOK, NEW m \in Migrators,
         migrator[m].file \in Files, NextFile(m)
  PROVE  /\ migrator' \in MigratorRows
         /\ migrator'[m].at = "file"
         /\ migrator'[m].file = migrator[m].file + 1
         /\ migrator'[m].next = 1
         /\ \A n \in Migrators : n # m => migrator'[n] = migrator[n]
BY MigrationsAssumption
DEF MigrationsTypeOK, MigratorRows, MigratorPlaces, NextFile, Files, Finishing

\* A process that leaves is away, and may have given the lock back.
LEMMA Left ==
  ASSUME MigrationsTypeOK, NEW m \in Migrators, Leave(m)
  PROVE  /\ migrator' \in MigratorRows
         /\ migrator'[m] = Away
         /\ \A n \in Migrators : n # m => migrator'[n] = migrator[n]
         /\ lock' \in Migrators \cup {Nobody}
BY MigrationsAssumption
DEF MigrationsTypeOK, MigratorRows, MigratorPlaces, Leave, Away, Finishing

\* A process takes the next step of its file, and goes on or has failed.
LEMMA MigratorWentOn ==
  ASSUME MigrationsTypeOK, NEW m \in Migrators, NEW f \in Files,
         Migrating(m, "execute", f), migrator[m].next \in Steps, Answered(m)
  PROVE  /\ migrator' \in MigratorRows
         /\ migrator'[m].at \in {"execute", "failed"} /\ migrator'[m].file = f
         /\ migrator'[m].at = "execute" => migrator'[m].next = migrator[m].next + 1
         /\ \A n \in Migrators : n # m => migrator'[n] = migrator[n]
<1>1. CASE Move(m, "failed")
  BY <1>1, Moved DEF Migrating, MigratorPlaces
<1>2. CASE migrator' = [migrator EXCEPT ![m].next = @ + 1]
  <2>1. migrator[m].next + 1 \in 1 .. Finishing + 1
    BY MigrationsAssumption DEF Steps, Finishing
  <2>2. migrator \in MigratorRows
    BY DEF MigrationsTypeOK, MigratorRows
  <2>3. QED
    BY <1>2, <2>1, <2>2 DEF MigratorRows, Migrating
<1>3. QED
  BY <1>1, <1>2 DEF Answered

\* The record of a file and the end of its run are steps like its statements.
LEMMA StepsOfFile ==
  /\ Recording \in Nat /\ Finishing \in Nat /\ Finishing = Recording + 1
  /\ Recording \in Steps /\ Finishing \in Steps /\ Statements \subseteq Steps
  /\ Recording \notin Statements /\ Finishing \notin Statements
  /\ Steps \subseteq Nat
BY MigrationsAssumption DEF Recording, Finishing, Steps, Statements

LEMMA WhatTookEffect ==
  ASSUME NEW f \in Files
  PROVE  /\ TakenEffect(f) \subseteq Steps
         /\ Recording \in TakenEffect(f) <=> f \in applied
<1>1. Recording # Finishing /\ Recording \notin Statements
  BY StepsOfFile
<1>2. Recording \in TakenEffect(f) <=> f \in applied
  BY <1>1 DEF TakenEffect
<1>3. TakenEffect(f) \subseteq Steps
  BY StepsOfFile DEF TakenEffect
<1>4. QED
  BY <1>2, <1>3

\* What becomes durable is added to what has taken effect of its file, one
\* effect to each statement, and nothing is taken from any file.
LEMMA DurableAdds ==
  ASSUME MigrationsTypeOK, NEW f \in Files, NEW done \in SUBSET Steps,
         Durable(f, done)
  PROVE  /\ effects' \in [Files -> [Statements -> Nat]]
         /\ applied' \subseteq Files /\ applied \subseteq applied'
         /\ ledger' \in [Files -> {"NONE", "RUNNING", "APPLIED", "FAILED"}]
         /\ \A g \in Files : ledger'[g] = "NONE" => ledger[g] = "NONE"
         /\ \A g \in Files, s \in Statements :
              effects'[g][s] = effects[g][s] + (IF g = f /\ s \in done THEN 1 ELSE 0)
         /\ TakenEffect(f)' = TakenEffect(f) \cup done
         /\ \A g \in Files \ {f} : TakenEffect(g)' = TakenEffect(g)
<1>1. /\ effects' \in [Files -> [Statements -> Nat]]
      /\ \A g \in Files, s \in Statements :
           effects'[g][s] = effects[g][s] + (IF g = f /\ s \in done THEN 1 ELSE 0)
  BY DEF MigrationsTypeOK, Durable, Committed
<1>2. applied' \subseteq Files /\ applied \subseteq applied'
  BY DEF MigrationsTypeOK, Durable
<1>3. /\ ledger' \in [Files -> {"NONE", "RUNNING", "APPLIED", "FAILED"}]
      /\ \A g \in Files \ {f} : ledger'[g] = ledger[g]
      /\ ledger'[f] = IF Finishing \in done THEN "APPLIED" ELSE ledger[f]
  BY DEF MigrationsTypeOK, Durable
<1>4. \A g \in Files :
        g \in applied' <=> g \in applied \/ (g = f /\ Recording \in done)
  BY DEF Durable
<1>5. \A g \in Files, s \in Statements : effects[g][s] \in Nat
  BY DEF MigrationsTypeOK
<1>6. TakenEffect(f)' = TakenEffect(f) \cup done
  <2>1. \A s \in Statements :
          effects'[f][s] > 0 <=> effects[f][s] > 0 \/ s \in done
    BY <1>1, <1>5
  <2>2. done \subseteq Statements \cup {Recording, Finishing}
    BY MigrationsAssumption DEF Steps, Statements, Recording, Finishing
  <2>3. QED
    BY <1>3, <1>4, <2>1, <2>2, StepsOfFile DEF TakenEffect
<1>7. ASSUME NEW g \in Files \ {f} PROVE TakenEffect(g)' = TakenEffect(g)
  <2>1. \A s \in Statements : effects'[g][s] > 0 <=> effects[g][s] > 0
    BY <1>1, <1>5
  <2>2. QED
    BY <1>3, <1>4, <2>1 DEF TakenEffect
<1>8. QED
  BY <1>1, <1>2, <1>3, <1>6, <1>7

\* Every variable keeps to its type: a process leaves a file at its last
\* step, and the last file for the place after it.
THEOREM MigrationsTypeCorrect == MigrationsSpec => []MigrationsTypeOK
<1>1. MigrationsInit => MigrationsTypeOK
  BY MigrationsAssumption
  DEF MigrationsInit, MigrationsTypeOK, Away, MigratorPlaces, Files, Statements,
      Finishing
<1>2. MigrationsTypeOK /\ [MigrationsNext]_migrationVars => MigrationsTypeOK'
  <2> SUFFICES ASSUME MigrationsTypeOK, [MigrationsNext]_migrationVars
               PROVE  MigrationsTypeOK'
    OBVIOUS
  <2> USE DEF MigrationsTypeOK, MigratorPlaces, MigratorRows
  <2>0. ASSUME NEW m \in Migrators, CloseTransaction(m)
        PROVE  open' \subseteq Migrators /\ tx' \in [Migrators -> SUBSET Steps]
    BY <2>0 DEF CloseTransaction
  <2>1. CASE LockConnectionDies
    BY <2>1 DEF LockConnectionDies
  <2>2. ASSUME NEW m \in Migrators, AcquireLock(m) PROVE MigrationsTypeOK'
    BY <2>2, Moved DEF AcquireLock
  <2>3. ASSUME NEW m \in Migrators, AllDone(m) PROVE MigrationsTypeOK'
    BY <2>3, Left DEF AllDone
  <2>4. ASSUME NEW m \in Migrators, MigratorDies(m) PROVE MigrationsTypeOK'
    BY <2>0, <2>4, Left DEF MigratorDies
  <2>5. ASSUME NEW m \in Migrators, NEW f \in Files, SkipApplied(m, f)
        PROVE  MigrationsTypeOK'
    BY <2>5, WentToNextFile DEF SkipApplied, Migrating
  <2>6. ASSUME NEW m \in Migrators, NEW f \in Files, NotApplied(m, f)
        PROVE  MigrationsTypeOK'
    BY <2>6, Moved DEF NotApplied
  <2>7. ASSUME NEW m \in Migrators, NEW f \in Files, CheckRun(m, f)
        PROVE  MigrationsTypeOK'
    BY <2>7, Moved, Left DEF CheckRun
  <2>8. ASSUME NEW m \in Migrators, NEW f \in Files, InsertMigrationRun(m, f)
        PROVE  MigrationsTypeOK'
    BY <2>8, Moved, Left DEF InsertMigrationRun
  <2>9. ASSUME NEW m \in Migrators, NEW f \in Files, BeginFile(m, f)
        PROVE  MigrationsTypeOK'
    <3>1. migrator' \in MigratorRows /\ lock' \in Migrators \cup {Nobody}
      BY <2>9, Moved, Left DEF BeginFile
    <3>2. QED
      BY <2>9, <3>1 DEF BeginFile
  <2>10. ASSUME NEW m \in Migrators, NEW f \in Files, ExecuteDdl(m, f)
        PROVE  MigrationsTypeOK'
    <3>1. migrator[m].next \in Statements
      BY <2>10, MigrationsAssumption DEF ExecuteDdl, Statements
    <3>2. tx[m] \cup {migrator[m].next} \in SUBSET Steps
      BY <3>1, StepsOfFile
    <3>3. /\ effects' \in [Files -> [Statements -> Nat]] /\ applied' \subseteq Files
          /\ ledger' \in [Files -> {"NONE", "RUNNING", "APPLIED", "FAILED"}]
      BY <2>10, <3>2, DurableAdds DEF ExecuteDdl
    <3>4. migrator' \in MigratorRows
      BY <2>10, <3>1, StepsOfFile, MigratorWentOn DEF ExecuteDdl
    <3>5. QED
      BY <2>0, <2>10, <3>3, <3>4 DEF ExecuteDdl
  <2>11. ASSUME NEW m \in Migrators, NEW f \in Files, ExecuteDml(m, f)
        PROVE  MigrationsTypeOK'
    <3>1. migrator[m].next \in Steps /\ {migrator[m].next} \in SUBSET Steps
      BY <2>11 DEF ExecuteDml
    <3>2. migrator' \in MigratorRows
      BY <2>11, <3>1, MigratorWentOn DEF ExecuteDml
    <3>3. /\ effects' \in [Files -> [Statements -> Nat]] /\ applied' \subseteq Files
          /\ ledger' \in [Files -> {"NONE", "RUNNING", "APPLIED", "FAILED"}]
          /\ tx' \in [Migrators -> SUBSET Steps]
      BY <2>11, <3>1, DurableAdds DEF ExecuteDml
    <3>4. QED
      BY <2>11, <3>2, <3>3 DEF ExecuteDml
  <2>12. ASSUME NEW m \in Migrators, NEW f \in Files, StepRefused(m, f)
        PROVE  MigrationsTypeOK'
    <3>1. migrator' \in MigratorRows
      BY <2>12, Moved DEF StepRefused
    <3>2. /\ effects' \in [Files -> [Statements -> Nat]] /\ applied' \subseteq Files
          /\ ledger' \in [Files -> {"NONE", "RUNNING", "APPLIED", "FAILED"}]
      BY <2>12, DurableAdds DEF StepRefused
    <3>3. QED
      BY <2>0, <2>12, <3>1, <3>2 DEF StepRefused
  <2>13. ASSUME NEW m \in Migrators, NEW f \in Files, CommitFile(m, f)
        PROVE  MigrationsTypeOK'
    <3>1. migrator' \in MigratorRows
      BY <2>13, Moved, WentToNextFile DEF CommitFile, Migrating
    <3>2. /\ effects' \in [Files -> [Statements -> Nat]] /\ applied' \subseteq Files
          /\ ledger' \in [Files -> {"NONE", "RUNNING", "APPLIED", "FAILED"}]
      BY <2>13, DurableAdds DEF CommitFile
    <3>3. QED
      BY <2>0, <2>13, <3>1, <3>2 DEF CommitFile
  <2>14. ASSUME NEW m \in Migrators, NEW f \in Files, FailFile(m, f)
        PROVE  MigrationsTypeOK'
    BY <2>0, <2>14, Left DEF FailFile
  <2>15. CASE UNCHANGED migrationVars
    BY <2>15 DEF migrationVars
  <2>16. QED
    BY <2>1, <2>2, <2>3, <2>4, <2>5, <2>6, <2>7, <2>8, <2>9, <2>10, <2>11,
       <2>12, <2>13, <2>14, <2>15
    DEF MigrationsNext
<1>3. QED
  BY <1>1, <1>2, PTL DEF MigrationsSpec

-----------------------------------------------------------------------------
(***************************************************************************)
(* The invariant, for the two kinds of steps.  Most steps move a process   *)
(* between places, out of a file or on in it, and make nothing durable.    *)
(* Those that do are steps of the one process that is in the file.         *)
(***************************************************************************)

\* The other processes are where they were, with their transactions.
OthersRest(m) ==
  \A n \in Migrators \ {m} :
    migrator'[n] = migrator[n] /\ tx'[n] = tx[n] /\ (n \in open' <=> n \in open)

\* A process that ends its transaction has nothing to do with those of others.
LEMMA Closed ==
  ASSUME MigrationsTypeOK, NEW m \in Migrators, CloseTransaction(m)
  PROVE  /\ tx'[m] = {} /\ m \notin open'
         /\ \A n \in Migrators \ {m} :
              tx'[n] = tx[n] /\ (n \in open' <=> n \in open)
BY DEF CloseTransaction, MigrationsTypeOK

\* The other processes have executed what they had.
LEMMA OthersExecuted ==
  ASSUME MigrationsInv, NEW m \in Migrators, OthersRest(m),
         \A n \in Migrators \ {m}, f \in Files :
           InFile(n) /\ f = migrator[n].file => TakenEffect(f)' = TakenEffect(f)
  PROVE  \A n \in Migrators \ {m} :
           migrator'[n].at \in {"begin", "execute"} => Executed(n)'
<1> SUFFICES ASSUME NEW n \in Migrators \ {m},
                    migrator'[n].at \in {"begin", "execute"}
             PROVE  Executed(n)'
  OBVIOUS
<1>1. migrator'[n] = migrator[n] /\ tx'[n] = tx[n] /\ (n \in open' <=> n \in open)
  BY DEF OthersRest
<1>2. InFile(n) /\ Executed(n)
  BY <1>1 DEF InFile, ExecutedSoFar, MigrationsInv
<1>3. PICK f \in Files : f = migrator[n].file
  BY <1>2 DEF RunIsTaken, MigrationsInv
<1>4. TakenEffect(f)' = TakenEffect(f)
  BY <1>2, <1>3
<1>5. QED
  BY <1>1, <1>2, <1>3, <1>4 DEF Executed

\* A process moves and nothing becomes durable, into no other file.
LEMMA MovingKeepsInv ==
  ASSUME MigrationsTypeOK, MigrationsTypeOK', MigrationsInv, NEW m \in Migrators,
         OthersRest(m),
         applied' = applied, effects' = effects, ledger' = ledger,
         migrator'[m].at \notin {"execute", "failed"} =>
           migrator'[m].next = 1 /\ tx'[m] = {} /\ m \notin open',
         \A g \in Files : g < migrator'[m].file => g \in applied,
         InFile(m)' => InFile(m) /\ migrator'[m].file = migrator[m].file,
         migrator'[m].at \in {"begin", "execute"} => Executed(m)'
  PROVE  MigrationsInv'
<1>0. \A f \in Files : TakenEffect(f)' = TakenEffect(f)
  BY DEF TakenEffect
<1>1. OutsideAtRest'
  BY DEF OutsideAtRest, OthersRest, MigrationsInv
<1>2. EarlierApplied'
  BY DEF EarlierApplied, OthersRest, MigrationsInv
<1>3. \A n \in Migrators :
        InFile(n)' => InFile(n) /\ migrator'[n].file = migrator[n].file
  BY DEF OthersRest, InFile
<1>4. RunIsTaken'
  BY <1>3 DEF RunIsTaken, MigrationsInv
<1>5. AloneInFile'
  BY <1>3 DEF AloneInFile, MigrationsInv
<1>6. NothingBeforeRun'
  BY <1>0 DEF NothingBeforeRun, MigrationsInv
<1>7. ExecutedSoFar'
  BY <1>0, OthersExecuted DEF ExecutedSoFar
<1>8. MigratedOnceInOrder'
  BY <1>0
  DEF MigrationsInv, MigratedOnceInOrder, StatementOnce, BeginningOfFile, FilesInOrder
<1>9. QED
  BY <1>1, <1>2, <1>4, <1>5, <1>6, <1>7, <1>8 DEF MigrationsInv

\* The process in a file makes durable what was not, in the order of the file:
\* no effect comes twice, and nobody else has executed anything of the file.
LEMMA StepKeepsInv ==
  ASSUME MigrationsTypeOK, MigrationsTypeOK', MigrationsInv,
         NEW m \in Migrators, NEW f \in Files, Migrating(m, "execute", f),
         OthersRest(m), NEW done \in SUBSET Steps, Durable(f, done),
         \A s \in done :
           s \notin TakenEffect(f) /\ 1 .. s - 1 \subseteq TakenEffect(f) \cup done,
         \/ migrator'[m].at \in {"execute", "failed"} /\ migrator'[m].file = f
         \/ /\ migrator'[m].at = "file" /\ migrator'[m].file = f + 1
            /\ migrator'[m].next = 1 /\ tx'[m] = {} /\ m \notin open'
            /\ f \in applied',
         migrator'[m].at = "execute" => Executed(m)'
  PROVE  MigrationsInv'
<1>1. /\ InFile(m) /\ migrator[m].file = f /\ ledger[f] # "NONE"
      /\ \A h \in Files : h < f => h \in applied
  BY DEF Migrating, InFile, RunIsTaken, EarlierApplied, MigrationsInv
<1>2. /\ applied \subseteq applied'
      /\ \A g \in Files : ledger'[g] = "NONE" => ledger[g] = "NONE"
      /\ TakenEffect(f)' = TakenEffect(f) \cup done
      /\ \A g \in Files \ {f} : TakenEffect(g)' = TakenEffect(g)
  BY DurableAdds
<1>3. OutsideAtRest'
  BY DEF OutsideAtRest, OthersRest, MigrationsInv
<1>4. EarlierApplied'
  <2> SUFFICES ASSUME NEW n \in Migrators, NEW g \in Files, g < migrator'[n].file
               PROVE  g \in applied'
    BY DEF EarlierApplied
  <2>1. CASE n = m
    <3>1. g < f \/ (g = f /\ f \in applied')
      BY <2>1, MigrationsAssumption DEF Files
    <3>2. QED
      BY <1>1, <1>2, <3>1
  <2>2. CASE n # m
    BY <1>2, <2>2 DEF OthersRest, EarlierApplied, MigrationsInv
  <2>3. QED
    BY <2>1, <2>2
<1>5. \A n \in Migrators :
        InFile(n)' => InFile(n) /\ migrator'[n].file = migrator[n].file
  BY <1>1 DEF OthersRest, InFile
<1>6. RunIsTaken'
  BY <1>2, <1>5 DEF RunIsTaken, MigrationsInv
<1>7. AloneInFile'
  BY <1>5 DEF AloneInFile, MigrationsInv
<1>8. NothingBeforeRun'
  BY <1>1, <1>2 DEF NothingBeforeRun, MigrationsInv
<1>9. ExecutedSoFar'
  <2>1. ASSUME NEW n \in Migrators \ {m}, NEW g \in Files,
               InFile(n), g = migrator[n].file
        PROVE  TakenEffect(g)' = TakenEffect(g)
    <3>1. g # f
      BY <1>1, <2>1 DEF RunIsTaken, AloneInFile, MigrationsInv
    <3>2. QED
      BY <1>2, <3>1
  <2>2. QED
    BY <2>1, OthersExecuted DEF ExecutedSoFar
<1>10. StatementOnce'
  <2> SUFFICES ASSUME NEW g \in Files, NEW s \in Statements
               PROVE  effects'[g][s] <= 1
    BY DEF StatementOnce
  <2>1. effects[g][s] \in Nat /\ effects[g][s] <= 1
    BY DEF MigrationsTypeOK, MigrationsInv, MigratedOnceInOrder, StatementOnce
  <2>2. effects'[g][s] = effects[g][s] + (IF g = f /\ s \in done THEN 1 ELSE 0)
    BY DurableAdds
  <2>3. CASE g = f /\ s \in done
    <3>1. ~(effects[f][s] > 0)
      BY <2>3 DEF TakenEffect
    <3>2. QED
      BY <2>1, <2>2, <2>3, <3>1
  <2>4. QED
    BY <2>1, <2>2, <2>3
<1>11. BeginningOfFile'
  BY <1>2 DEF BeginningOfFile, MigratedOnceInOrder, MigrationsInv
<1>12. FilesInOrder'
  <2> SUFFICES ASSUME NEW g \in Files, TakenEffect(g)' # {}, NEW h \in 1 .. g - 1
               PROVE  h \in applied'
    BY DEF FilesInOrder
  <2>1. CASE g = f
    <3>1. h \in Files /\ h < f
      BY <2>1, MigrationsAssumption DEF Files
    <3>2. QED
      BY <1>1, <1>2, <3>1
  <2>2. CASE g # f
    BY <1>2, <2>2 DEF FilesInOrder, MigratedOnceInOrder, MigrationsInv
  <2>3. QED
    BY <2>1, <2>2
<1>13. QED
  BY <1>3, <1>4, <1>6, <1>7, <1>8, <1>9, <1>10, <1>11, <1>12
  DEF MigrationsInv, MigratedOnceInOrder

-----------------------------------------------------------------------------
(***************************************************************************)
(* The invariant holds from the start and at every step.                   *)
(***************************************************************************)
LEMMA MigrationsInvInit == MigrationsInit => MigrationsTypeOK /\ MigrationsInv
<1> SUFFICES ASSUME MigrationsInit PROVE MigrationsTypeOK /\ MigrationsInv
  OBVIOUS
<1>1. MigrationsTypeOK
  BY MigrationsAssumption
  DEF MigrationsInit, MigrationsTypeOK, Away, MigratorPlaces, Files, Statements,
      Finishing
<1>2. \A f \in Files : TakenEffect(f) = {}
  BY DEF MigrationsInit, TakenEffect
<1>3. StatementOnce
  BY DEF MigrationsInit, StatementOnce
<1>4. BeginningOfFile /\ FilesInOrder /\ NothingBeforeRun
  BY <1>2 DEF BeginningOfFile, FilesInOrder, NothingBeforeRun
<1>5. QED
  BY <1>1, <1>3, <1>4, MigrationsAssumption
  DEF MigrationsInit, Away, Files, InFile, MigrationsInv, OutsideAtRest,
      EarlierApplied, RunIsTaken, AloneInFile, ExecutedSoFar, MigratedOnceInOrder

\* The run is inserted: nobody was in the file, and nothing of it was durable.
LEMMA InsertKeepsInv ==
  ASSUME MigrationsTypeOK, MigrationsTypeOK', MigrationsInv,
         NEW m \in Migrators, NEW f \in Files, InsertMigrationRun(m, f),
         ledger[f] = "NONE"
  PROVE  MigrationsInv'
<1>1. /\ migrator'[m].at = "begin" /\ migrator'[m].file = f
      /\ migrator'[m].next = 1 /\ tx'[m] = {} /\ m \notin open'
  <2>1. migrator[m].next = 1 /\ tx[m] = {} /\ m \notin open
    BY DEF InsertMigrationRun, Migrating, OutsideAtRest, MigrationsInv
  <2>2. QED
    BY <2>1, Moved DEF InsertMigrationRun, Migrating, MigratorPlaces
<1>2. OthersRest(m)
  BY Moved DEF InsertMigrationRun, OthersRest, MigratorPlaces
<1>3. applied' = applied /\ effects' = effects
  BY DEF InsertMigrationRun
<1>4. ledger'[f] = "RUNNING" /\ \A g \in Files : g # f => ledger'[g] = ledger[g]
  BY DEF InsertMigrationRun, MigrationsTypeOK
<1>5. \A g \in Files : TakenEffect(g)' = TakenEffect(g)
  <2> SUFFICES ASSUME NEW g \in Files PROVE TakenEffect(g)' = TakenEffect(g)
    OBVIOUS
  <2>1. ledger'[g] = "APPLIED" <=> ledger[g] = "APPLIED"
    BY <1>4
  <2>2. QED
    BY <1>3, <2>1 DEF TakenEffect
<1>6. \A n \in Migrators \ {m} :
        InFile(n)' => InFile(n) /\ migrator'[n].file = migrator[n].file
                      /\ migrator[n].file \in Files /\ migrator[n].file # f
  BY <1>2 DEF OthersRest, InFile, RunIsTaken, MigrationsInv
<1>7. OutsideAtRest'
  BY <1>1, <1>2 DEF OutsideAtRest, OthersRest, MigrationsInv
<1>8. EarlierApplied'
  BY <1>1, <1>2, <1>3
  DEF EarlierApplied, OthersRest, InsertMigrationRun, Migrating, MigrationsInv
<1>9. RunIsTaken'
  BY <1>1, <1>4, <1>6 DEF RunIsTaken, MigrationsInv
<1>10. AloneInFile'
  BY <1>1, <1>6 DEF AloneInFile, MigrationsInv
<1>11. NothingBeforeRun'
  BY <1>4, <1>5 DEF NothingBeforeRun, MigrationsInv
<1>12. Executed(m)'
  <2>1. TakenEffect(f)' = {} /\ 1 .. 1 - 1 = {}
    BY <1>5 DEF NothingBeforeRun, MigrationsInv
  <2>2. QED
    BY <1>1, <2>1 DEF Executed
<1>13. ExecutedSoFar'
  BY <1>2, <1>5, <1>12, OthersExecuted DEF ExecutedSoFar
<1>14. MigratedOnceInOrder'
  BY <1>3, <1>5
  DEF MigrationsInv, MigratedOnceInOrder, StatementOnce, BeginningOfFile, FilesInOrder
<1>15. QED
  BY <1>7, <1>8, <1>9, <1>10, <1>11, <1>13, <1>14 DEF MigrationsInv

\* The transaction begins: nothing is in it.
LEMMA BeginKeepsInv ==
  ASSUME MigrationsTypeOK, MigrationsTypeOK', MigrationsInv,
         NEW m \in Migrators, NEW f \in Files, BeginFile(m, f)
  PROVE  MigrationsInv'
<1>1. /\ migrator[m].at = "begin" /\ migrator[m].file = f
      /\ migrator[m].next = 1 /\ tx[m] = {} /\ m \notin open
      /\ \A g \in Files : g < f => g \in applied
      /\ \A g \in Files : ~ g < Away.file
  BY MigrationsAssumption
  DEF BeginFile, Migrating, OutsideAtRest, EarlierApplied, MigrationsInv, Away, Files
<1>2. TakenEffect(f) = {}
  <2>1. Executed(m) /\ 1 .. 1 - 1 = {}
    BY <1>1 DEF ExecutedSoFar, MigrationsInv
  <2>2. QED
    BY <1>1, <2>1 DEF Executed
<1>3. /\ OthersRest(m)
      /\ applied' = applied /\ effects' = effects /\ ledger' = ledger /\ tx' = tx
      /\ \/ /\ migrator'[m].at = "execute" /\ migrator'[m].file = f
            /\ migrator'[m].next = 1 /\ m \in open'
         \/ migrator'[m].at = "failed" /\ migrator'[m].file = f
         \/ migrator'[m] = Away /\ m \notin open'
  BY <1>1, Moved, Left DEF BeginFile, OthersRest, MigratorPlaces
<1>4. migrator'[m].at \in {"begin", "execute"} => Executed(m)'
  <2> SUFFICES ASSUME migrator'[m].at \in {"begin", "execute"} PROVE Executed(m)'
    OBVIOUS
  <2>1. /\ migrator'[m].file = f /\ migrator'[m].next = 1 /\ m \in open'
        /\ tx'[m] = {}
    BY <1>1, <1>3 DEF Away
  <2>2. TakenEffect(f)' = {} /\ 1 .. 1 - 1 = {}
    BY <1>2, <1>3 DEF TakenEffect
  <2>3. QED
    BY <2>1, <2>2 DEF Executed
<1>5. QED
  BY <1>1, <1>3, <1>4, MovingKeepsInv DEF InFile, Away

\* What the process in a file has executed, and what of it is durable: all, or
\* nothing while its transaction is open.
LEMMA SoFar ==
  ASSUME MigrationsTypeOK, MigrationsInv,
         NEW m \in Migrators, NEW f \in Files, Migrating(m, "execute", f)
  PROVE  /\ migrator[m].next \in 1 .. Finishing + 1 /\ migrator[m].next \in Nat
         /\ tx[m] \in SUBSET Steps
         /\ m \in open => tx[m] = 1 .. migrator[m].next - 1 /\ TakenEffect(f) = {}
         /\ m \notin open => tx[m] = {} /\ TakenEffect(f) = 1 .. migrator[m].next - 1
<1>1. migrator[m].next \in 1 .. Finishing + 1 /\ tx[m] \in SUBSET Steps
  BY DEF MigrationsTypeOK
<1>2. migrator[m].next \in Nat
  BY <1>1, StepsOfFile
<1>3. Executed(m) /\ migrator[m].file = f
  BY DEF Migrating, ExecutedSoFar, MigrationsInv
<1>4. QED
  BY <1>1, <1>2, <1>3 DEF Executed

\* A change of the schema is durable, and all that was executed before it.
LEMMA DdlKeepsInv ==
  ASSUME MigrationsTypeOK, MigrationsTypeOK', MigrationsInv,
         NEW m \in Migrators, NEW f \in Files, ExecuteDdl(m, f)
  PROVE  MigrationsInv'
<1> DEFINE k == migrator[m].next
           done == tx[m] \cup {k}
<1>1. /\ Migrating(m, "execute", f) /\ k \in Nat /\ k \in Steps
      /\ tx[m] \in SUBSET Steps
      /\ m \in open => tx[m] = 1 .. k - 1 /\ TakenEffect(f) = {}
      /\ m \notin open => tx[m] = {} /\ TakenEffect(f) = 1 .. k - 1
  <2>1. Migrating(m, "execute", f) /\ k \in Statements
    BY MigrationsAssumption DEF ExecuteDdl, Statements
  <2>2. QED
    BY <2>1, SoFar, StepsOfFile
<1>2. /\ migrator'[m].at \in {"execute", "failed"} /\ migrator'[m].file = f
      /\ migrator'[m].at = "execute" => migrator'[m].next = k + 1
      /\ \A n \in Migrators : n # m => migrator'[n] = migrator[n]
  BY <1>1, MigratorWentOn DEF ExecuteDdl
<1>3. OthersRest(m) /\ tx'[m] = {} /\ m \notin open'
  BY <1>2, Closed DEF OthersRest, ExecuteDdl
<1>4. done \in SUBSET Steps /\ Durable(f, done)
  BY <1>1 DEF ExecuteDdl
<1>5. TakenEffect(f) \cup done = 1 .. k
  <2>1. TakenEffect(f) \cup done = (1 .. k - 1) \cup {k}
    BY <1>1
  <2>2. (1 .. k - 1) \cup {k} = 1 .. k
    BY <1>1 DEF Steps
  <2>3. QED
    BY <2>1, <2>2
<1>6. \A s \in done :
        s \notin TakenEffect(f) /\ 1 .. s - 1 \subseteq TakenEffect(f) \cup done
  <2> SUFFICES ASSUME NEW s \in done
               PROVE  s \notin TakenEffect(f) /\ 1 .. s - 1 \subseteq 1 .. k
    BY <1>5
  <2>1. s \in 1 .. k /\ s \in Nat
    BY <1>1, <1>5
  <2>2. s \notin TakenEffect(f)
    BY <1>1
  <2>3. QED
    BY <1>1, <2>1, <2>2
<1>7. TakenEffect(f)' = 1 .. k
  <2>1. TakenEffect(f)' = TakenEffect(f) \cup done
    BY <1>4, DurableAdds
  <2>2. QED
    BY <1>5, <2>1
<1> HIDE DEF done
<1>8. migrator'[m].at = "execute" => Executed(m)'
  BY <1>1, <1>2, <1>3, <1>7 DEF Executed
<1>9. QED
  BY <1>1, <1>2, <1>3, <1>4, <1>6, <1>8, StepKeepsInv

\* Another step is in the transaction, or durable if there is none any more.
LEMMA DmlKeepsInv ==
  ASSUME MigrationsTypeOK, MigrationsTypeOK', MigrationsInv,
         NEW m \in Migrators, NEW f \in Files, ExecuteDml(m, f)
  PROVE  MigrationsInv'
<1> DEFINE k == migrator[m].next
<1>1. /\ Migrating(m, "execute", f) /\ k \in Nat /\ k \in Steps
      /\ m \in open => tx[m] = 1 .. k - 1 /\ TakenEffect(f) = {}
      /\ m \notin open => tx[m] = {} /\ TakenEffect(f) = 1 .. k - 1
  BY SoFar, StepsOfFile DEF ExecuteDml
<1>2. /\ migrator'[m].at \in {"execute", "failed"} /\ migrator'[m].file = f
      /\ migrator'[m].at = "execute" => migrator'[m].next = k + 1
      /\ \A n \in Migrators : n # m => migrator'[n] = migrator[n]
  BY <1>1, MigratorWentOn DEF ExecuteDml
<1>3. OthersRest(m) /\ open' = open
  BY <1>2 DEF OthersRest, ExecuteDml, MigrationsTypeOK
<1>4. (1 .. k - 1) \cup {k} = 1 .. k /\ 1 .. (k + 1) - 1 = 1 .. k
  BY <1>1 DEF Steps
<1>5. CASE m \in open
  <2>1. /\ applied' = applied /\ effects' = effects /\ ledger' = ledger
        /\ tx'[m] = 1 .. k
    BY <1>1, <1>4, <1>5 DEF ExecuteDml, MigrationsTypeOK
  <2>2. TakenEffect(f)' = {}
    BY <1>1, <1>5, <2>1 DEF TakenEffect
  <2>3. migrator'[m].at = "execute" => Executed(m)'
    BY <1>2, <1>3, <1>4, <1>5, <2>1, <2>2 DEF Executed
  <2>4. \A g \in Files : g < migrator'[m].file => g \in applied
    BY <1>1, <1>2 DEF Migrating, EarlierApplied, MigrationsInv
  <2>5. QED
    BY <1>1, <1>2, <1>3, <2>1, <2>3, <2>4, MovingKeepsInv DEF InFile, Migrating
<1>6. CASE m \notin open
  <2>1. /\ {k} \in SUBSET Steps /\ Durable(f, {k}) /\ tx'[m] = {}
        /\ TakenEffect(f) = 1 .. k - 1
    BY <1>1, <1>6 DEF ExecuteDml
  <2>2. TakenEffect(f)' = 1 .. k
    <3>1. TakenEffect(f)' = TakenEffect(f) \cup {k}
      BY <2>1, DurableAdds
    <3>2. QED
      BY <1>4, <2>1, <3>1
  <2>3. migrator'[m].at = "execute" => Executed(m)'
    BY <1>2, <1>3, <1>4, <1>6, <2>1, <2>2 DEF Executed
  <2>4. \A s \in {k} :
          s \notin TakenEffect(f) /\ 1 .. s - 1 \subseteq TakenEffect(f) \cup {k}
    BY <1>1, <2>1
  <2>5. QED
    BY <1>1, <1>2, <1>3, <2>1, <2>3, <2>4, StepKeepsInv
<1>7. QED
  BY <1>5, <1>6

\* A refused step makes at most what came before it durable.
LEMMA RefusalKeepsInv ==
  ASSUME MigrationsTypeOK, MigrationsTypeOK', MigrationsInv,
         NEW m \in Migrators, NEW f \in Files, StepRefused(m, f)
  PROVE  MigrationsInv'
<1>1. /\ Migrating(m, "execute", f) /\ migrator[m].next \in Nat
      /\ tx[m] \in SUBSET Steps
      /\ m \in open => tx[m] = 1 .. migrator[m].next - 1 /\ TakenEffect(f) = {}
      /\ m \notin open => tx[m] = {}
  BY SoFar DEF StepRefused
<1>2. /\ migrator'[m].at = "failed" /\ migrator'[m].file = f
      /\ \A n \in Migrators : n # m => migrator'[n] = migrator[n]
  BY <1>1, Moved DEF StepRefused, Migrating, MigratorPlaces
<1>3. CASE Durable(f, tx[m]) /\ CloseTransaction(m)
  <2>1. OthersRest(m)
    BY <1>2, <1>3, Closed DEF OthersRest
  <2>2. \A s \in tx[m] :
          s \notin TakenEffect(f) /\ 1 .. s - 1 \subseteq TakenEffect(f) \cup tx[m]
    BY <1>1
  <2>3. QED
    BY <1>1, <1>2, <1>3, <2>1, <2>2, StepKeepsInv
<1>4. CASE UNCHANGED <<applied, ledger, effects, open, tx>>
  <2>1. OthersRest(m)
    BY <1>2, <1>4 DEF OthersRest
  <2>2. \A g \in Files : g < migrator'[m].file => g \in applied
    BY <1>1, <1>2 DEF Migrating, EarlierApplied, MigrationsInv
  <2>3. QED
    BY <1>1, <1>2, <1>4, <2>1, <2>2, MovingKeepsInv DEF InFile, Migrating
<1>5. QED
  BY <1>3, <1>4 DEF StepRefused

\* The COMMIT makes durable what is left of the file, if it has been left any:
\* either way the file is recorded then, with all of its statements.
LEMMA CommitKeepsInv ==
  ASSUME MigrationsTypeOK, MigrationsTypeOK', MigrationsInv,
         NEW m \in Migrators, NEW f \in Files, CommitFile(m, f)
  PROVE  MigrationsInv'
<1>1. /\ Migrating(m, "execute", f) /\ migrator[m].next = Finishing + 1
      /\ tx[m] \in SUBSET Steps /\ (Finishing + 1) - 1 = Finishing
      /\ m \in open => tx[m] = 1 .. migrator[m].next - 1 /\ TakenEffect(f) = {}
      /\ m \notin open => tx[m] = {} /\ TakenEffect(f) = 1 .. migrator[m].next - 1
  BY SoFar, StepsOfFile DEF CommitFile
<1>2. /\ \/ /\ migrator'[m].at = "file" /\ migrator'[m].file = f + 1
            /\ migrator'[m].next = 1
         \/ migrator'[m].at = "failed" /\ migrator'[m].file = f
      /\ \A n \in Migrators : n # m => migrator'[n] = migrator[n]
  <2>1. CASE NextFile(m)
    BY <1>1, <2>1, WentToNextFile DEF Migrating
  <2>2. CASE Move(m, "failed")
    BY <1>1, <2>2, Moved DEF Migrating, MigratorPlaces
  <2>3. QED
    BY <2>1, <2>2 DEF CommitFile
<1>3. OthersRest(m) /\ tx'[m] = {} /\ m \notin open' /\ Durable(f, tx[m])
  BY <1>2, Closed DEF OthersRest, CommitFile
<1>4. \A s \in tx[m] :
        s \notin TakenEffect(f) /\ 1 .. s - 1 \subseteq TakenEffect(f) \cup tx[m]
  BY <1>1, StepsOfFile
<1>5. f \in applied'
  <2>1. TakenEffect(f)' = TakenEffect(f) \cup tx[m]
    BY <1>1, <1>3, DurableAdds
  <2>2. Recording \in TakenEffect(f) \cup tx[m]
    BY <1>1, StepsOfFile DEF Steps
  <2>3. Recording \in TakenEffect(f)' <=> f \in applied'
    BY WhatTookEffect, StepsOfFile DEF TakenEffect
  <2>4. QED
    BY <2>1, <2>2, <2>3
<1>6. QED
  BY <1>1, <1>2, <1>3, <1>4, <1>5, StepKeepsInv

\* The run is FAILED and the transaction undone: nothing durable is undone but
\* the end of the run.
LEMMA FailKeepsInv ==
  ASSUME MigrationsTypeOK, MigrationsTypeOK', MigrationsInv,
         NEW m \in Migrators, NEW f \in Files, FailFile(m, f)
  PROVE  MigrationsInv'
<1>1. /\ InFile(m) /\ migrator[m].file = f
      /\ migrator'[m] = Away /\ tx'[m] = {} /\ m \notin open'
      /\ applied' = applied /\ effects' = effects
      /\ \A g \in Files : ~ g < Away.file
  BY Left, Closed, MigrationsAssumption
  DEF FailFile, Migrating, InFile, Away, Files
<1>2. OthersRest(m)
  BY Left, Closed DEF FailFile, OthersRest
<1>3. /\ ledger'[f] = "FAILED"
      /\ \A g \in Files \ {f} : ledger'[g] = ledger[g]
  BY DEF FailFile, MigrationsTypeOK
<1>4. \A g \in Files \ {f} : TakenEffect(g)' = TakenEffect(g)
  BY <1>1, <1>3 DEF TakenEffect
<1>5. TakenEffect(f)' = TakenEffect(f) \ {Finishing}
  <2>1. Finishing # Recording /\ Finishing \notin Statements
    BY StepsOfFile
  <2>2. QED
    BY <1>1, <1>3, <2>1 DEF TakenEffect
<1>6. \A n \in Migrators :
        InFile(n)' => InFile(n) /\ migrator'[n].file = migrator[n].file
  BY <1>1, <1>2 DEF OthersRest, InFile, Away
<1>7. OutsideAtRest' /\ EarlierApplied'
  BY <1>1, <1>2 DEF OutsideAtRest, EarlierApplied, OthersRest, MigrationsInv, Away
<1>8. RunIsTaken'
  BY <1>3, <1>6 DEF RunIsTaken, MigrationsInv
<1>9. AloneInFile'
  BY <1>6 DEF AloneInFile, MigrationsInv
<1>10. NothingBeforeRun'
  BY <1>3, <1>4 DEF NothingBeforeRun, MigrationsInv
<1>11. ExecutedSoFar'
  <2>1. ASSUME NEW n \in Migrators \ {m}, NEW g \in Files,
               InFile(n), g = migrator[n].file
        PROVE  TakenEffect(g)' = TakenEffect(g)
    <3>1. g # f
      BY <1>1, <2>1 DEF AloneInFile, MigrationsInv
    <3>2. QED
      BY <1>4, <3>1
  <2>2. migrator'[m].at \notin {"begin", "execute"}
    BY <1>1 DEF Away
  <2>3. QED
    BY <1>2, <2>1, <2>2, OthersExecuted DEF ExecutedSoFar
<1>12. StatementOnce'
  BY <1>1 DEF StatementOnce, MigratedOnceInOrder, MigrationsInv
<1>13. BeginningOfFile'
  <2> SUFFICES ASSUME NEW g \in Files, NEW s \in TakenEffect(g)',
                      NEW t \in 1 .. s - 1
               PROVE  t \in TakenEffect(g)'
    BY DEF BeginningOfFile
  <2>1. s \in TakenEffect(g)
    BY <1>4, <1>5
  <2>2. t \in TakenEffect(g)
    BY <2>1 DEF BeginningOfFile, MigratedOnceInOrder, MigrationsInv
  <2>3. t # Finishing
    <3>1. s \in 1 .. Finishing
      BY <2>1, WhatTookEffect DEF Steps
    <3>2. QED
      BY <3>1, StepsOfFile
  <2>4. QED
    BY <1>4, <1>5, <2>2, <2>3
<1>14. FilesInOrder'
  BY <1>1, <1>4, <1>5 DEF FilesInOrder, MigratedOnceInOrder, MigrationsInv
<1>15. QED
  BY <1>7, <1>8, <1>9, <1>10, <1>11, <1>12, <1>13, <1>14
  DEF MigrationsInv, MigratedOnceInOrder

(***************************************************************************)
(* However many processes migrate, die or lose the lock, and whichever     *)
(* statements commit by themselves: no statement takes effect twice, what  *)
(* has taken effect of a file is a beginning of it, its record in          *)
(* schema_migrations and the end of its run included, and no file takes    *)
(* effect before the earlier ones are applied.                             *)
(***************************************************************************)
THEOREM MigratedOnceAndInOrder == MigrationsSpec => []MigratedOnceInOrder
<1>1. ASSUME MigrationsTypeOK, MigrationsTypeOK', MigrationsInv,
             [MigrationsNext]_migrationVars
      PROVE  MigrationsInv'
  <2> USE <1>1
  <2> DEFINE Rest(m) ==
        /\ applied' = applied /\ effects' = effects /\ OthersRest(m)
        /\ ledger' = ledger
  <2>1. ASSUME NEW m \in Migrators PROVE
          /\ migrator[m].at \notin {"execute", "failed"} =>
               migrator[m].next = 1 /\ tx[m] = {} /\ m \notin open
          /\ \A g \in Files : g < migrator[m].file => g \in applied
          /\ \A g \in Files : ~ g < Away.file
    BY MigrationsAssumption
    DEF MigrationsInv, OutsideAtRest, EarlierApplied, Away, Files
  <2>2. CASE UNCHANGED migrationVars \/ LockConnectionDies
    BY <2>2
    DEF migrationVars, LockConnectionDies, MigrationsInv, InFile, Executed,
        OutsideAtRest, EarlierApplied, RunIsTaken, AloneInFile, NothingBeforeRun,
        ExecutedSoFar, MigratedOnceInOrder, StatementOnce, BeginningOfFile,
        FilesInOrder, TakenEffect
  <2>3. ASSUME NEW m \in Migrators, AcquireLock(m) PROVE MigrationsInv'
    <3>1. Rest(m)
      BY <2>3, Moved DEF AcquireLock, OthersRest, MigratorPlaces
    <3>2. /\ migrator'[m].at = "file" /\ migrator'[m].file = migrator[m].file
          /\ migrator'[m].next = migrator[m].next /\ tx'[m] = tx[m] /\ open' = open
          /\ migrator[m].at \notin {"execute", "failed"}
      BY <2>3, Moved DEF AcquireLock, MigratorPlaces
    <3>3. QED
      BY <2>1, <3>1, <3>2, MovingKeepsInv DEF InFile, Away
  <2>4. ASSUME NEW m \in Migrators, AllDone(m) PROVE MigrationsInv'
    <3>1. Rest(m)
      BY <2>4, Left DEF AllDone, OthersRest
    <3>2. migrator'[m] = Away /\ tx'[m] = {} /\ m \notin open'
      BY <2>4, <2>1, Left DEF AllDone, MigrationsTypeOK
    <3>3. QED
      BY <2>1, <3>1, <3>2, MovingKeepsInv DEF InFile, Away
  <2>5. ASSUME NEW m \in Migrators, MigratorDies(m) PROVE MigrationsInv'
    <3>1. Rest(m)
      BY <2>5, Left, Closed DEF MigratorDies, OthersRest
    <3>2. migrator'[m] = Away /\ tx'[m] = {} /\ m \notin open'
      BY <2>5, Left, Closed DEF MigratorDies
    <3>3. QED
      BY <2>1, <3>1, <3>2, MovingKeepsInv DEF InFile, Away
  <2>6. ASSUME NEW m \in Migrators, NEW f \in Files, NotApplied(m, f)
        PROVE  MigrationsInv'
    <3>1. Rest(m)
      BY <2>6, Moved DEF NotApplied, OthersRest, MigratorPlaces
    <3>2. /\ migrator'[m].at = "run" /\ migrator'[m].file = migrator[m].file
          /\ migrator'[m].next = migrator[m].next /\ tx'[m] = tx[m] /\ open' = open
          /\ migrator[m].at \notin {"execute", "failed"}
      BY <2>6, Moved DEF NotApplied, Migrating, MigratorPlaces
    <3>3. QED
      BY <2>1, <3>1, <3>2, MovingKeepsInv DEF InFile, Away
  <2>7. ASSUME NEW m \in Migrators, NEW f \in Files, SkipApplied(m, f)
        PROVE  MigrationsInv'
    <3>1. Rest(m)
      BY <2>7, WentToNextFile DEF SkipApplied, Migrating, OthersRest
    <3>2. /\ migrator'[m].at = "file" /\ migrator'[m].file = f + 1
          /\ migrator'[m].next = 1 /\ tx'[m] = {} /\ m \notin open'
          /\ migrator[m].file = f /\ f \in applied
      BY <2>7, <2>1, WentToNextFile DEF SkipApplied, Migrating
    <3>3. \A g \in Files : g < f + 1 => g \in applied
      BY <2>1, <3>2, MigrationsAssumption DEF Files
    <3>4. QED
      BY <3>1, <3>2, <3>3, MovingKeepsInv DEF InFile
  <2>8. ASSUME NEW m \in Migrators, NEW f \in Files, CheckRun(m, f)
        PROVE  MigrationsInv'
    <3>1. Rest(m)
      BY <2>8, Moved, Left DEF CheckRun, OthersRest, MigratorPlaces
    <3>2. \/ /\ migrator'[m].at = "insert" /\ migrator'[m].file = migrator[m].file
             /\ migrator'[m].next = migrator[m].next
          \/ migrator'[m] = Away
      BY <2>8, Moved, Left DEF CheckRun, MigratorPlaces
    <3>3. migrator[m].at = "run" /\ tx'[m] = tx[m] /\ open' = open
      BY <2>8 DEF CheckRun, Migrating
    <3>4. QED
      BY <2>1, <3>1, <3>2, <3>3, MovingKeepsInv DEF InFile, Away
  <2>9. ASSUME NEW m \in Migrators, NEW f \in Files, InsertMigrationRun(m, f)
        PROVE  MigrationsInv'
    <3>1. CASE ledger[f] = "NONE"
      BY <2>9, <3>1, InsertKeepsInv
    <3>2. CASE ledger[f] # "NONE"
      <4>1. Rest(m)
        BY <2>9, <3>2, Left DEF InsertMigrationRun, OthersRest
      <4>2. migrator'[m] = Away /\ tx'[m] = {} /\ m \notin open'
        BY <2>9, <2>1, <3>2, Left DEF InsertMigrationRun, Migrating
      <4>3. QED
        BY <2>1, <4>1, <4>2, MovingKeepsInv DEF InFile, Away
    <3>3. QED
      BY <3>1, <3>2
  <2>10. QED
    BY <2>2, <2>3, <2>4, <2>5, <2>6, <2>7, <2>8, <2>9, BeginKeepsInv,
       DdlKeepsInv, DmlKeepsInv, RefusalKeepsInv, CommitKeepsInv, FailKeepsInv
    DEF MigrationsNext
<1>2. MigrationsInv => MigratedOnceInOrder
  BY DEF MigrationsInv
<1>3. QED
  BY MigrationsTypeCorrect, MigrationsInvInit, <1>1, <1>2, PTL DEF MigrationsSpec
=============================================================================
