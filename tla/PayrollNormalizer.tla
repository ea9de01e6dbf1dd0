------------------------- MODULE PayrollNormalizer -------------------------
(***************************************************************************)
(* What normalizePayrollBatches makes of the rows that a job collected     *)
(* from Sage: one payslip for each employee, competence and type, its      *)
(* items with their natures, and the totals.  The tables come as           *)
(* sequences, in the order in which Sage happened to return the rows.      *)
(*                                                                         *)
(* A row has the columns that tell payslips apart: its key (Unkeyed when   *)
(* rowKey is null), the event, the amount in cents (Blank when it is no    *)
(* number), the nature, and what its description suggests.  Descriptions,  *)
(* references and the raw reference are left out, and so is sourceHash.    *)
(***************************************************************************)
EXTENDS Integers, Sequences, FiniteSets, SequencesExt

CONSTANTS
  Targets,      \* employees of the job: scope.employeeCodes
  Termination,  \* event 180
  Unkeyed,      \* the key of a row without employee, year, month or type
  Blank         \* a column without a value

Monthly == 2

\* The members of a finite set, in the order of Before: the n-th has n - 1
\* before it.
Ranked(S, Before(_, _)) ==
  [n \in 1 .. Cardinality(S) |->
     CHOOSE x \in S : Cardinality({y \in S : Before(y, x)}) = n - 1]

\* A sequence as an array: filter and map keep the order.
Map(s, Op(_)) == [i \in DOMAIN s |-> Op(s[i])]
Filter(s, Test(_)) ==
  Map(Ranked({i \in DOMAIN s : Test(s[i])}, LAMBDA i, j : i < j),
      LAMBDA i : s[i])

\* Array.prototype.sort is stable: equals keep the order they had.
StableSort(s, Before(_, _)) ==
  LET Precedes(i, j) ==
        \/ Before(s[i], s[j])
        \/ ~ Before(s[j], s[i]) /\ i < j
  IN Map(Ranked(DOMAIN s, Precedes), LAMBDA i : s[i])

Total(items, nature) ==
  FoldLeft(LAMBDA sum, item : sum + item.amount, 0,
           Filter(items, LAMBDA item : item.nature = nature))

\* The rows of the targets that have a key and an amount.
Priced(rows) ==
  Filter(rows, LAMBDA r : /\ r.key # Unkeyed
                          /\ r.key.employee \in Targets
                          /\ r.amount # Blank)

\* ProcEvento is what Sage has calculated; MovEvento stands in for it when
\* ProcEvento has nothing of any target.
FinancialEvents(tables) ==
  IF Priced(tables.proc) # <<>> THEN Priced(tables.proc) ELSE Priced(tables.mov)

\* EventoGVigencia, and the rows of a ProcEvento that only describes events.
Definitions(tables) ==
  tables.definitions
  \o Map(Filter(tables.proc, LAMBDA r : r.key = Unkeyed),
         LAMBDA r : [event |-> r.event, from |-> Blank, nature |-> r.nature,
                     hint |-> r.hint])

\* The definition in force in a competence: the latest that has begun, else
\* the latest, else the last row without a date.
ApplicableDefinition(definitions, event, competence) ==
  LET candidates == Filter(definitions, LAMBDA d : d.event = event)
      dated == StableSort(Filter(candidates, LAMBDA d : d.from # Blank),
                          LAMBDA a, b : a.from > b.from)
      begun == Filter(dated, LAMBDA d : d.from <= competence)
  IN CASE begun # <<>> -> <<Head(begun)>>
       [] begun = <<>> /\ dated # <<>> -> <<Head(dated)>>
       [] dated = <<>> /\ candidates # <<>> -> <<Last(candidates)>>
       [] OTHER -> <<>>

\* The nature by the column; by what the description suggests, if the column
\* has no value or none that is known; by the sign if that is nothing either.
KnownColumns == {"D", "V", "BASE"}

\* The description looked at only if the column is empty.
SuggestsIfEmpty(column, hint) == column = Blank /\ hint \notin {Blank, "PLAIN"}

Suggests(column, hint) ==
  column \notin KnownColumns /\ hint \notin {Blank, "PLAIN"}

Nature(column, hint, amount) ==
  CASE column = "D" -> "DEDUCTION"
    [] column = "V" -> "EARNING"
    [] column = "BASE" -> "BASE"
    [] Suggests(column, hint) -> hint
    [] OTHER -> IF amount < 0 THEN "DEDUCTION" ELSE "OTHER"

InferNature(row, definition) ==
  LET Column(name) ==
        IF definition # <<>> /\ definition[1][name] # Blank
        THEN definition[1][name] ELSE row[name]
  IN Nature(Column("nature"), Column("hint"), row.amount)

ItemNatureRank(nature) ==
  CASE nature = "EARNING" -> 0
    [] nature = "DEDUCTION" -> 1
    [] nature = "BASE" -> 2
    [] OTHER -> 3

\* A sort that leaves the codes of a nature as they came.
ItemBeforeByNature(a, b) ==
  ItemNatureRank(a.nature) < ItemNatureRank(b.nature)

\* By nature, then by code.
ItemBefore(a, b) ==
  \/ ItemNatureRank(a.nature) < ItemNatureRank(b.nature)
  \/ /\ ItemNatureRank(a.nature) = ItemNatureRank(b.nature)
     /\ a.code < b.code

SortPayrollItems(items) == StableSort(items, ItemBefore)

\* One item for each row of the payslip.
Items(tables, key) ==
  SortPayrollItems(
    Map(Filter(FinancialEvents(tables), LAMBDA r : r.key = key),
        LAMBDA r :
          [code |-> r.event,
           amount |-> IF r.amount < 0 THEN -r.amount ELSE r.amount,
           nature |-> InferNature(r, ApplicableDefinition(
                        Definitions(tables), r.event, key.competence))]))

\* A total that is not above zero is no total, and then there is no net.
Gross(items) ==
  IF Total(items, "EARNING") > 0 THEN Total(items, "EARNING") ELSE Blank

Deductions(items) ==
  IF Total(items, "DEDUCTION") > 0 THEN Total(items, "DEDUCTION") ELSE Blank

Net(items) ==
  IF Gross(items) = Blank THEN Blank
  ELSE Gross(items) - (IF Deductions(items) = Blank THEN 0 ELSE Deductions(items))

\* The bases are printed from the first row of the payslip in ProcBase.
BaseOf(tables, key) ==
  LET rows == Filter(tables.base, LAMBDA r : r.key = key)
  IN IF rows = <<>> THEN Blank ELSE rows[1].base

Label(key, items) ==
  IF key.type = Monthly /\ (\E i \in DOMAIN items : items[i].code = Termination)
  THEN "RESCISAO" ELSE key.type

\* What renderHash is the hash of, and the label that goes with it.
Payslip(tables, key) ==
  LET items == Items(tables, key)
  IN [key |-> key, items |-> items, gross |-> Gross(items),
      deductions |-> Deductions(items), net |-> Net(items),
      base |-> BaseOf(tables, key), label |-> Label(key, items)]

\* The payslips, as a set: the list is sorted by key.
NormalizePayrollBatches(tables) ==
  LET events == FinancialEvents(tables)
  IN {Payslip(tables, events[i].key) : i \in DOMAIN events}
=============================================================================
