--------------------------- MODULE SageCollection ---------------------------
(***************************************************************************)
(* The connector reads the payroll of a job from Sage and the worker makes *)
(* payslips of it.  ReadPayrollAsync selects one table after the other,    *)
(* without an ORDER BY, cuts the rows into batches and sends each under    *)
(* the name of its table and a number; EventoGVigencia comes last, and     *)
(* only for the events met before.  normalizedInput puts the tables        *)
(* together again in the order of the numbers.                             *)
(*                                                                         *)
(* Sage does not change while it is read.  The same payroll is collected   *)
(* by several jobs, each time in any order of the rows.                    *)
(***************************************************************************)
EXTENDS PayrollNormalizer, FiniteSetsExt

CONSTANTS
  Contents,       \* what Sage may hold: records of sets of rows
  BatchSize,      \* rows of a batch
  MaxEventCodes,  \* 1800: events whose definitions are asked for
  MaxCollections  \* bound on the jobs

\* What a description may suggest.
Hints == {Blank, "PLAIN", "EARNING", "DEDUCTION", "BASE"}

ASSUME SageCollectionAssumption ==
  /\ BatchSize \in Nat \ {0} /\ MaxEventCodes \in Nat /\ MaxCollections \in Nat
  /\ Blank \notin Int /\ Blank \notin {"EARNING", "DEDUCTION", "BASE"}
  /\ \A c \in Contents :
       /\ \A t \in DOMAIN c : IsFiniteSet(c[t])
       /\ {"proc", "mov", "base", "definitions"} \subseteq DOMAIN c
       /\ \A r \in c.proc \cup c.mov :
            /\ r.event \in Int /\ r.amount \in Int \cup {Blank} /\ r.hint \in Hints
            /\ r.key # Unkeyed => r.key.competence \in Int
       /\ \A d \in c.definitions : d.from \in Int \cup {Blank} /\ d.hint \in Hints

VARIABLES
  sage,         \* the tables of Sage
  reading,      \* how many tables the job has read
  eventCodes,   \* the events met, in the order of the rows
  batches,      \* connector_raw_batches of the job, by table and number
  renders,      \* the payslips of each job that has been normalized
  collections   \* jobs left

collectionVars == <<sage, reading, eventCodes, batches, renders, collections>>

PayrollTables == <<"proc", "mov", "base", "definitions">>

NoBatches == [t \in ToSet(PayrollTables) |-> <<>>]

\* The rows that are read are in Sage, and each table has its own batches.
CollectionTypeOK ==
  /\ sage \in Contents
  /\ reading \in 0 .. Len(PayrollTables)
  /\ ToSet(eventCodes) \subseteq {r.event : r \in sage.proc \cup sage.mov}
  /\ \A t \in DOMAIN batches :
       ToSet(FlattenSeq(batches[t])) \subseteq sage[t]
  /\ \A payslips \in renders : \A p \in payslips : p.key.employee \in Targets
  /\ collections \in 0 .. MaxCollections

CollectionInit ==
  /\ sage \in Contents
  /\ reading = 0
  /\ eventCodes = <<>>
  /\ batches = NoBatches
  /\ renders = {}
  /\ collections = MaxCollections

\* The events of the rows are kept in the order in which they are met.
MeetEvents(codes, rows) ==
  FoldLeft(LAMBDA met, r : IF r.event \in ToSet(met) THEN met
                           ELSE Append(met, r.event), codes, rows)

\* ProcEvento and MovEvento name the events whose definitions are wanted.
EventsMet(t, codes, rows) ==
  IF t \in {"proc", "mov"} THEN MeetEvents(codes, rows) ELSE codes

\* The rows that the WHERE lets through.
Selected(t) ==
  IF t = "definitions"
  THEN {d \in sage[t] :
          d.event \in ToSet(SubSeq(eventCodes, 1,
                             Min({MaxEventCodes, Len(eventCodes)})))}
  ELSE {r \in sage[t] : r.key = Unkeyed \/ r.key.employee \in Targets}

\* Batches are numbered from 0; the last one may be short.
InBatches(rows) ==
  [n \in 1 .. (Len(rows) + BatchSize - 1) \div BatchSize |->
     SubSeq(rows, (n - 1) * BatchSize + 1, Min({n * BatchSize, Len(rows)}))]

\* One table is read, in any order, and its batches are stored.
ReadTable ==
  /\ reading < Len(PayrollTables) /\ collections > 0
  /\ LET t == PayrollTables[reading + 1] IN
     \E rows \in SetToSeqs(Selected(t)) :
       /\ batches' = [batches EXCEPT ![t] = InBatches(rows)]
       /\ eventCodes' = EventsMet(t, eventCodes, rows)
  /\ reading' = reading + 1
  /\ UNCHANGED <<sage, renders, collections>>

\* Reading or sending fails: the job fails, and nothing is made of it.
CollectionFails ==
  /\ 0 < reading /\ reading < Len(PayrollTables)
  /\ reading' = 0 /\ eventCodes' = <<>> /\ batches' = NoBatches
  /\ collections' = collections - 1
  /\ UNCHANGED <<sage, renders>>

\* The job is complete and the worker normalizes it.
NormalizedInput == [t \in DOMAIN batches |-> FlattenSeq(batches[t])]

Normalize ==
  /\ reading = Len(PayrollTables)
  /\ renders' = renders \cup {NormalizePayrollBatches(NormalizedInput)}
  /\ reading' = 0 /\ eventCodes' = <<>> /\ batches' = NoBatches
  /\ collections' = collections - 1
  /\ UNCHANGED sage

AllCollected ==
  /\ reading = 0 /\ collections = 0
  /\ UNCHANGED collectionVars

CollectionNext == ReadTable \/ CollectionFails \/ Normalize \/ AllCollected

CollectionSpec == CollectionInit /\ [][CollectionNext]_collectionVars

----------------------------------------------------------------------------
(* What Sage says a payslip is, stated of the sets of rows.                *)

PricedIn(t) ==
  {r \in sage[t] : r.key # Unkeyed /\ r.amount # Blank
                   /\ r.key.employee \in Targets}

Calculated == IF PricedIn("proc") # {} THEN PricedIn("proc") ELSE PricedIn("mov")

DefinitionsOf(event) ==
  {d \in sage.definitions : d.event = event}
  \cup {[event |-> event, from |-> Blank, nature |-> r.nature, hint |-> r.hint] :
        r \in {r \in sage.proc : r.key = Unkeyed /\ r.event = event}}

\* An event has at most one definition without a date, one for each date,
\* and a date or a definition without one, and all could be asked for.
Unambiguous ==
  /\ Cardinality({r.event : r \in Calculated \cup sage.mov \cup sage.proc})
       <= MaxEventCodes
  /\ \A r \in Calculated : \A d, e \in DefinitionsOf(r.event) :
       d.from = e.from => d = e

InForce(event, competence) ==
  LET all == DefinitionsOf(event)
      dated == {d \in all : d.from # Blank}
      begun == {d \in dated : d.from <= competence}
      Latest(S) == {d \in S : \A e \in S : e.from <= d.from}
  IN IF begun # {} THEN Latest(begun)
     ELSE IF dated # {} THEN Latest(dated) ELSE all

\* What Sage's column means: Desconto, Vencimento, a base.
ColumnMeans == [D |-> "DEDUCTION", V |-> "EARNING", BASE |-> "BASE"]

\* The meaning of the column where it has one, whatever is described; else the
\* word of the description; else a negative amount is taken off.
MeantNature(column, hint, amount) ==
  IF column \in DOMAIN ColumnMeans THEN ColumnMeans[column]
  ELSE IF hint \in {"EARNING", "DEDUCTION", "BASE"} THEN hint
  ELSE IF amount < 0 THEN "DEDUCTION" ELSE "OTHER"

\* The definition in force speaks first, and the row where it is silent.
NatureOf(r) ==
  LET defined == InForce(r.event, r.key.competence)
      Of(name) == IF \E d \in defined : d[name] # Blank
                  THEN (CHOOSE d \in defined : TRUE)[name] ELSE r[name]
  IN MeantNature(Of("nature"), Of("hint"), r.amount)

Sum(rows) == MapThenSumSet(LAMBDA r : IF r.amount < 0 THEN -r.amount ELSE r.amount, rows)

OrBlank(n) == IF n > 0 THEN n ELSE Blank

\* The payslips of a collection are those of Sage, whatever the order and
\* the cut of the rows: one for each key that is paid, every row of it an
\* item of the nature that the definition in force says, the earnings and
\* the deductions summed, and the net their difference.
PayslipsOfSage ==
  Unambiguous =>
    \A payslips \in renders :
      /\ {p.key : p \in payslips} = {r.key : r \in Calculated}
      /\ \A p \in payslips :
           LET rows == {r \in Calculated : r.key = p.key}
               earned == Sum({r \in rows : NatureOf(r) = "EARNING"})
               taken == Sum({r \in rows : NatureOf(r) = "DEDUCTION"})
           IN /\ Len(p.items) = Cardinality(rows)
              /\ ToSet(p.items) =
                   {[code |-> r.event, nature |-> NatureOf(r),
                     amount |-> IF r.amount < 0 THEN -r.amount ELSE r.amount] :
                    r \in rows}
              /\ p.gross = OrBlank(earned)
              /\ p.deductions = OrBlank(taken)
              /\ p.net = IF earned > 0 THEN earned - taken ELSE Blank

\* Rows of a payslip that Sage may return in either order and that the
\* sort does not tell apart.
Interchangeable(r, s) ==
  r # s /\ r.key = s.key /\ r.event = s.event /\ NatureOf(r) = NatureOf(s)

\* Two collections of the same payroll print the same payslip, so that the
\* second finds the render unchanged and makes no new version of it.
RenderStable ==
  Unambiguous =>
    \A first, second \in renders : \A p \in first, q \in second :
      /\ p.key = q.key
      /\ ~ \E r, s \in {r \in Calculated : r.key = p.key} : Interchangeable(r, s)
      /\ Cardinality({b \in sage.base : b.key = p.key}) <= 1
      => p = q
=============================================================================
