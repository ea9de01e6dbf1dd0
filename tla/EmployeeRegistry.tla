-------------------------- MODULE EmployeeRegistry --------------------------
(***************************************************************************)
(* Employees come from Sage: a lookup by CPF is a job of the connector,    *)
(* which finds the code of the contract and then reads its rows, one table *)
(* after the other and without a transaction, while Sage may change; the   *)
(* API registers the employee, or updates her, from the stored result, at  *)
(* any time after and from any lookup.  A person has one identity, with    *)
(* the date of birth that opens her first access, and an employee in each  *)
(* company; she may have several contracts in Sage with one company.       *)
(***************************************************************************)
EXTENDS Naturals, SequencesExt

CONSTANTS
  Contracts,     \* codes of employees in Sage
  CompanyOf,     \* the company of each contract
  PersonOf,      \* the CPF of each contract
  Cards,         \* what Sage may hold of a contract
  MaxLookups,    \* bound on the jobs
  MaxEdits,      \* bound on the changes made in Sage
  Absent,        \* no contract, no employee, no identity
  NoTitle        \* a description that is missing or not one

\* A card: a date of birth, the functions held, in the order of the query
\* (those that have not ended, then by date), the title on the card itself,
\* the situation, and whether a date of leaving is recorded anywhere.  In
\* which table a column is found depends on the installation.
ASSUME EmployeeRegistryAssumption ==
  /\ MaxLookups \in Nat /\ MaxEdits \in Nat
  /\ Absent \notin Cards
  /\ \A card \in Cards :
       /\ card.posts \in Seq({card.posts[i] : i \in DOMAIN card.posts})
       /\ \A i \in DOMAIN card.posts : card.posts[i].date \in Nat
  /\ DOMAIN CompanyOf = Contracts /\ DOMAIN PersonOf = Contracts

VARIABLES
  held,        \* the cards that Sage has held of a contract; the last is current
  lookups,     \* import_jobs of type EMPLOYEE_LOOKUP_BY_CPF and their results
  identities,  \* employee_identities: the date of birth
  employees,   \* employees: the last card that was written to the row
  edits        \* changes left

registryVars == <<held, lookups, identities, employees, edits>>

Persons == {PersonOf[c] : c \in Contracts}

Companies == {CompanyOf[c] : c \in Contracts}

Births == {card.birth : card \in Cards}

Titles ==
  {card.title : card \in Cards} \cup {NoTitle} \cup
    UNION {{card.posts[i].title : i \in DOMAIN card.posts} : card \in Cards}

Situations == {"ATIVO", "DEMITIDO", "OUTRA"}

\* job_title, birth_date and sage_status of an employee.
Row == [birth : Births, title : Titles, status : Situations]

\* The row of EmployeeLookup, with the history of functions in its raw part.
Result == [birth : Births, title : Titles, status : Situations,
           history : {card.posts : card \in Cards}]

Lookup == [company : Companies, person : Persons,
           status : {"QUEUED", "FOUND_CODE", "COMPLETED", "FAILED"},
           code : Contracts \cup {Absent}, since : Nat,
           result : Result \cup {Absent}]

\* Rows hold what their columns say.
RegistryTypeOK ==
  /\ held \in [Contracts -> Seq(Cards)]
  /\ lookups \in Seq(Lookup) /\ Len(lookups) <= MaxLookups
  /\ identities \in [Persons -> Births \cup {Absent}]
  /\ employees \in [Contracts -> Row \cup {Absent}]
  /\ edits \in 0 .. MaxEdits

RegistryInit ==
  /\ held \in [Contracts -> {<<>>} \cup {<<card>> : card \in Cards}]
  /\ lookups = <<>>
  /\ identities = [p \in Persons |-> Absent]
  /\ employees = [c \in Contracts |-> Absent]
  /\ edits = MaxEdits

----------------------------------------------------------------------------
(* What a lookup makes of a card.                                          *)

\* LatestByDate: the last date; of several, the first row of the query.
LatestPost(posts, among) ==
  CHOOSE i \in among : \A j \in among :
    posts[j].date < posts[i].date \/ (posts[j].date = posts[i].date /\ i <= j)

\* The description of the latest function, or what the card says.
JobTitle(card) ==
  LET latest == LatestPost(card.posts, DOMAIN card.posts)
  IN IF card.posts # <<>> /\ card.posts[latest].title # NoTitle
     THEN card.posts[latest].title
     ELSE card.title

\* What Sage writes, as it is.
SituationAsWritten(card) == card.situation

\* NormalizeStatus: whoever has a date of leaving has left; a situation that
\* contains "ativ" is ATIVO, "Inativo" too.
Situation(card) ==
  CASE card.left -> "DEMITIDO"
    [] ~ card.left /\ card.situation \in {"", "A", "Ativo", "Inativo"} -> "ATIVO"
    [] ~ card.left /\ card.situation \in {"Demitido", "Desligado"} -> "DEMITIDO"
    [] OTHER -> "OUTRA"

ResultOf(card) ==
  [birth |-> card.birth, title |-> JobTitle(card), status |-> Situation(card),
   history |-> card.posts]

(***************************************************************************)
(* What the API makes of a result.  One without a title gets that of the   *)
(* latest function that has one, ended as it may be.                       *)
(***************************************************************************)
Titled(history) == {i \in DOMAIN history : history[i].title # NoTitle}

InferSageJobTitle(history) ==
  IF Titled(history) = {} THEN NoTitle
  ELSE history[LatestPost(history, Titled(history))].title

SageEmployeePatch(result) ==
  [birth |-> result.birth, status |-> result.status,
   title |-> IF result.title # NoTitle THEN result.title
             ELSE InferSageJobTitle(result.history)]

----------------------------------------------------------------------------
SageEdits ==
  /\ edits > 0 /\ edits' = edits - 1
  /\ \E c \in Contracts, card \in Cards :
       held' = [held EXCEPT ![c] = Append(@, card)]
  /\ UNCHANGED <<lookups, identities, employees>>

\* An employee of that CPF is registered with that company.
Registered(company, person) ==
  \E c \in Contracts :
    /\ CompanyOf[c] = company /\ PersonOf[c] = person
    /\ employees[c] # Absent

Asks(company, person) ==
  /\ Len(lookups) < MaxLookups
  /\ lookups' = Append(lookups,
       [company |-> company, person |-> person, status |-> "QUEUED",
        code |-> Absent, since |-> 0, result |-> Absent])
  /\ UNCHANGED <<held, identities, employees, edits>>

\* startLookup for someone who is not registered, startSync for who is.
StartLookup ==
  \E company \in Companies, person \in Persons :
    ~ Registered(company, person) /\ Asks(company, person)

StartSync ==
  \E company \in Companies, person \in Persons :
    Registered(company, person) /\ Asks(company, person)

Answers(j, status, code, since, result) ==
  /\ lookups' = [lookups EXCEPT ![j].status = status, ![j].code = code,
                                ![j].since = since, ![j].result = result]
  /\ UNCHANGED <<held, identities, employees, edits>>

\* SELECT TOP 1 without an order: any contract of that CPF with that company.
\* What it holds from now on may be read.
FindCode(j) ==
  /\ lookups[j].status = "QUEUED"
  /\ \E c \in Contracts :
       /\ held[c] # <<>>
       /\ CompanyOf[c] = lookups[j].company /\ PersonOf[c] = lookups[j].person
       /\ Answers(j, "FOUND_CODE", c, Len(held[c]), Absent)

NothingFound(j) ==
  /\ lookups[j].status = "QUEUED"
  /\ \A c \in Contracts :
       CompanyOf[c] = lookups[j].company /\ PersonOf[c] = lookups[j].person
         => held[c] = <<>>
  /\ Answers(j, "COMPLETED", Absent, 0, Absent)

\* What a read that met these cards may have put together: each column is of
\* one of them.
Readings(cards) ==
  {[birth |-> b.birth, posts |-> p.posts, title |-> t.title,
    situation |-> s.situation, left |-> l.left] : b, p, t, s, l \in cards}

\* What that contract has held since its code was found.
Meanwhile(j) ==
  LET all == held[lookups[j].code]
  IN ToSet(SubSeq(all, lookups[j].since, Len(all)))

\* The SELECTs of the rows of that code, each of its own moment: an edit may
\* fall between any two.  Nobody sees what was read before all are done; then
\* the batch, then complete.
ReadCard(j) ==
  /\ lookups[j].status = "FOUND_CODE"
  /\ \E read \in Readings(Meanwhile(j)) :
       Answers(j, "COMPLETED", lookups[j].code, 0, ResultOf(read))

LookupFails(j) ==
  /\ lookups[j].status \in {"QUEUED", "FOUND_CODE"}
  /\ Answers(j, "FAILED", Absent, 0, Absent)

\* lookupResult: FOUND.
Found(j, company) ==
  /\ lookups[j].company = company
  /\ lookups[j].status = "COMPLETED" /\ lookups[j].result # Absent

\* createFromLookup: the identity, unless there is one; then the employee,
\* whose CPF and code are unique in the company.  One transaction.
CreateFromLookup(j) ==
  LET row == SageEmployeePatch(lookups[j].result)
      person == lookups[j].person
      company == lookups[j].company
      birth == IF identities[person] = Absent THEN row.birth
               ELSE identities[person]
  IN /\ Found(j, company)
     /\ birth = row.birth
     /\ ~ Registered(company, person)
     /\ identities' = [identities EXCEPT ![person] = birth]
     /\ employees' = [employees EXCEPT ![lookups[j].code] = row]
     /\ UNCHANGED <<held, lookups, edits>>

\* The comparison of applySync without the code.
SamePerson(j, c) == lookups[j].person = PersonOf[c]

\* applySync: the result must be of the CPF and of the code of the employee.
SameEmployee(j, c) ==
  lookups[j].person = PersonOf[c] /\ lookups[j].code = c

\* The row is written whole; the identity keeps its date of birth.
ApplySync(j) ==
  \E c \in Contracts :
    /\ employees[c] # Absent
    /\ Found(j, CompanyOf[c]) /\ SameEmployee(j, c)
    /\ employees' = [employees EXCEPT ![c] =
                      SageEmployeePatch(lookups[j].result)]
    /\ UNCHANGED <<held, lookups, identities, edits>>

\* deleteEmployee leaves the identity.
RemoveEmployee ==
  /\ \E c \in Contracts :
       employees[c] # Absent /\ employees' = [employees EXCEPT ![c] = Absent]
  /\ UNCHANGED <<held, lookups, identities, edits>>

RegistryNext ==
  \/ SageEdits \/ StartLookup \/ StartSync \/ RemoveEmployee
  \/ \E j \in DOMAIN lookups :
       \/ FindCode(j) \/ NothingFound(j) \/ ReadCard(j) \/ LookupFails(j)
       \/ CreateFromLookup(j) \/ ApplySync(j)

RegistrySpec == RegistryInit /\ [][RegistryNext]_registryVars

----------------------------------------------------------------------------
\* An employee's row is made of columns that Sage has each held of that very
\* contract, however old the lookup it was written from, whoever asked for it,
\* whichever contract of the person the search for a code met, and whatever
\* changed in Sage while the tables were read: createFromLookup and applySync
\* check the result against the row before they write.  It need not be what
\* Sage said at any one time.
RowsComeFromTheirContract ==
  \A c \in Contracts :
    employees[c] # Absent =>
      \E read \in Readings(ToSet(held[c])) :
        employees[c] = SageEmployeePatch(ResultOf(read))
=============================================================================
