----------------------- MODULE PeopleAndDocumentsProofs -----------------------
(***************************************************************************)
(* Theorems about how a company comes into being, about the accounts of    *)
(* the earlier API tree, the phone's session and the evidence of a         *)
(* signature, for any number of requests, companies and devices; and that  *)
(* all that people do, employees and browsers included, keeps to its type. *)
(***************************************************************************)
EXTENDS MCPeopleAndDocuments, EmployeeProofs, SequenceTheorems, FiniteSetTheorems,
        TLAPS

-----------------------------------------------------------------------------
(***************************************************************************)
(* How a company comes into being.                                         *)
(***************************************************************************)

\* What a request was before it was made.
NoOrder == CHOOSE o \in Order : o.tenant = NoTenant

CompanyRow == [id : Nat, tenant : Tenants \cup {NoTenant}, slug : Slugs]

ProvisionerMemory ==
  [at : ProvisioningPlaces, order : Order \cup {NoOrder}, company : Nat]

\* The types, without the bound on the ids.
ProvisioningTypes ==
  /\ companies \subseteq CompanyRow
  /\ users \subseteq
       [email : UserEmails, company : Nat, role : {"MASTER", "ANALISTA"}]
  /\ masters \subseteq Nat \X UserEmails
  /\ lastCompany \in Nat
  /\ provisioner \in [Provisioners -> ProvisionerMemory]
  /\ \A b \in Provisioners : provisioner[b].at # "away" => provisioner[b].order \in Order

\* Rows that belong together are there together, and their keys are unique.
RowsHold ==
  /\ \A c \in companies : c.id \in 1 .. lastCompany
  /\ \A u \in users : \E c \in companies : c.id = u.company
  /\ \A m \in masters : \E c \in companies : c.id = m[1]
  /\ \A c, d \in companies :
       c.id = d.id \/ (c.tenant = d.tenant /\ c.tenant # NoTenant) => c = d
  /\ \A u, v \in users : u.email = v.email => u = v
  /\ \A u \in users : u.role = "MASTER" => <<u.company, u.email>> \in masters
  /\ \A m \in masters :
       \E u \in users : u.role = "MASTER" /\ u.company = m[1] /\ u.email = m[2]

\* A transaction that has inserted its company.
Inserted(b) == provisioner[b].at \in {"user", "rest"}

\* What a transaction has written is still what no committed row has; what a
\* request was answered with is there.
ProvisionerHolds(b) ==
  LET order == provisioner[b].order  id == provisioner[b].company IN
  /\ Inserted(b) =>
       /\ id \in 1 .. lastCompany
       /\ \A c \in companies :
            /\ c.id # id /\ c.slug # order.slug
            /\ order.tenant # NoTenant => c.tenant # order.tenant
  /\ provisioner[b].at = "rest" => ~ EmailTaken(order.email)
  /\ provisioner[b].at = "answered" =>
       /\ [id |-> id, tenant |-> order.tenant, slug |-> order.slug] \in companies
       /\ <<id, order.email>> \in masters

\* Two open transactions have not written the same key.
ProvisionersApart(a, b) ==
  a # b /\ Inserted(a) /\ Inserted(b) =>
    /\ provisioner[a].company # provisioner[b].company
    /\ provisioner[a].order.slug # provisioner[b].order.slug
    /\ provisioner[a].order.tenant # NoTenant =>
         provisioner[a].order.tenant # provisioner[b].order.tenant
    /\ provisioner[a].at = "rest" /\ provisioner[b].at = "rest" =>
         provisioner[a].order.email # provisioner[b].order.email

ProvisioningInv ==
  /\ ProvisioningTypes
  /\ RowsHold
  /\ \A b \in Provisioners : ProvisionerHolds(b)
  /\ \A a, b \in Provisioners : ProvisionersApart(a, b)

\* A step of a request that touches no row and is not at an insertion keeps
\* the invariant, if what it says of an answer is so.
LEMMA RequestMoves ==
  ASSUME ProvisioningInv, NEW b \in Provisioners, NEW next \in ProvisionerMemory,
         provisioner' = [provisioner EXCEPT ![b] = next],
         next.at # "away" => next.order \in Order,
         next.at \notin {"user", "rest"},
         next.at = "answered" =>
           /\ [id |-> next.company, tenant |-> next.order.tenant,
               slug |-> next.order.slug] \in companies
           /\ <<next.company, next.order.email>> \in masters,
         UNCHANGED <<companies, users, masters, lastCompany>>
  PROVE  ProvisioningInv'
<1>1. /\ provisioner \in [Provisioners -> ProvisionerMemory]
      /\ provisioner'[b] = next
      /\ \A a \in Provisioners \ {b} : provisioner'[a] = provisioner[a]
  BY DEF ProvisioningInv, ProvisioningTypes
<1>2. ProvisioningTypes'
  BY <1>1 DEF ProvisioningInv, ProvisioningTypes
<1>3. RowsHold'
  BY DEF ProvisioningInv, RowsHold
<1>4. ASSUME NEW a \in Provisioners PROVE ProvisionerHolds(a)'
  <2>1. CASE a = b
    BY <1>1, <2>1 DEF ProvisionerHolds, Inserted, EmailTaken
  <2>2. CASE a # b
    BY <1>1, <2>2 DEF ProvisioningInv, ProvisionerHolds, Inserted, EmailTaken
  <2> QED BY <2>1, <2>2
<1>5. ASSUME NEW a \in Provisioners, NEW c \in Provisioners PROVE ProvisionersApart(a, c)'
  BY <1>1 DEF ProvisioningInv, ProvisionersApart, Inserted
<1> QED BY <1>2, <1>3, <1>4, <1>5 DEF ProvisioningInv

\* The statements of a request that look for rows, and its beginning and end.
LEMMA LookingKeepsInv ==
  ASSUME ProvisioningInv, NEW b \in Provisioners,
         \/ BridgeAsks(b) \/ BootstrapAsks(b) \/ FindTenant(b) \/ FindEmail(b)
         \/ ProvisioningFails(b)
  PROVE  ProvisioningInv'
<1> DEFINE p == provisioner[b]
<1>1. /\ p \in ProvisionerMemory /\ provisioner \in [Provisioners -> ProvisionerMemory]
      /\ p.at # "away" => p.order \in Order
      /\ UNCHANGED <<companies, users, masters, lastCompany>>
  BY DEF ProvisioningInv, ProvisioningTypes, BridgeAsks, BootstrapAsks, Asked,
         FindTenant, FindEmail, ProvisioningFails
<1>2. ASSUME NEW order \in Order, NEW where \in {"tenant", "email"}, Asked(b, order, where)
      PROVE  ProvisioningInv'
  <2> DEFINE next == [at |-> where, order |-> order, company |-> 0]
  <2>1. next \in ProvisionerMemory
    BY DEF ProvisionerMemory, ProvisioningPlaces
  <2>2. next.at = where /\ next.order = order
    OBVIOUS
  <2>3. provisioner' = [provisioner EXCEPT ![b] = next]
    BY <1>2 DEF Asked
  <2> HIDE DEF next
  <2> QED BY <1>1, <2>1, <2>2, <2>3, RequestMoves
<1>3. ASSUME NEW where \in ProvisioningPlaces, where \notin {"user", "rest", "answered"},
             p.at # "away", Places(b, where)
      PROVE  ProvisioningInv'
  <2> DEFINE next == [p EXCEPT !.at = where]
  <2>1. next \in ProvisionerMemory /\ next.at = where /\ next.order = p.order
    BY <1>1, <1>3 DEF ProvisionerMemory
  <2>2. provisioner' = [provisioner EXCEPT ![b] = next]
    BY <1>3 DEF Places
  <2> HIDE DEF next
  <2> QED BY <1>1, <1>3, <2>1, <2>2, RequestMoves
<1>4. ASSUME NEW where \in {"answered", "refused"}, NEW id \in Nat, p.at # "away",
             provisioner' = [provisioner EXCEPT ![b].at = where, ![b].company = id],
             where = "answered" =>
               /\ [id |-> id, tenant |-> p.order.tenant, slug |-> p.order.slug] \in companies
               /\ <<id, p.order.email>> \in masters
      PROVE  ProvisioningInv'
  <2> DEFINE next == [p EXCEPT !.at = where, !.company = id]
  <2>1. /\ next \in ProvisionerMemory
        /\ next.at = where /\ next.order = p.order /\ next.company = id
    BY <1>1, <1>4 DEF ProvisionerMemory, ProvisioningPlaces
  <2>2. provisioner' = [provisioner EXCEPT ![b] = next]
    BY <1>4
  <2> HIDE DEF next
  <2> QED BY <1>1, <1>4, <2>1, <2>2, RequestMoves
<1>5. CASE BridgeAsks(b)
  BY <1>2, <1>5 DEF BridgeAsks
<1>6. CASE BootstrapAsks(b)
  BY <1>2, <1>6 DEF BootstrapAsks
<1>7. CASE FindTenant(b)
  <2>1. p.at # "away" /\ p.order \in Order
    BY <1>1, <1>7 DEF FindTenant
  <2>2. CASE Places(b, "email")
    BY <1>3, <2>1, <2>2 DEF ProvisioningPlaces
  <2>3. ASSUME NEW company \in companies, company.tenant = p.order.tenant,
               provisioner' = [provisioner EXCEPT
                 ![b].at = IF Matches(p.order, company) THEN "answered" ELSE "refused",
                 ![b].company = IF Matches(p.order, company) THEN company.id ELSE 0]
        PROVE  ProvisioningInv'
    <3>1. company \in CompanyRow
      BY DEF ProvisioningInv, ProvisioningTypes
    <3>2. CASE Matches(p.order, company)
      <4>1. [id |-> company.id, tenant |-> p.order.tenant, slug |-> p.order.slug]
              = company
        BY <2>3, <3>1, <3>2 DEF Matches, CompanyRow
      <4>2. <<company.id, p.order.email>> \in masters /\ company.id \in Nat
        BY <3>1, <3>2 DEF Matches, CompanyRow
      <4>3. provisioner' = [provisioner EXCEPT ![b].at = "answered",
                                               ![b].company = company.id]
        BY <2>3, <3>2
      <4> QED BY <1>4, <2>1, <4>1, <4>2, <4>3
    <3>3. CASE ~ Matches(p.order, company)
      BY <1>4, <2>1, <2>3, <3>3
    <3> QED BY <3>2, <3>3
  <2> QED BY <1>7, <2>2, <2>3 DEF FindTenant
<1>8. CASE FindEmail(b)
  BY <1>3, <1>8 DEF FindEmail, ProvisioningPlaces
<1>9. CASE ProvisioningFails(b)
  BY <1>4, <1>9 DEF ProvisioningFails, Refused
<1> QED BY <1>5, <1>6, <1>7, <1>8, <1>9

\* InsertCompany: the new id is greater than every id, and the keys that the
\* transaction now holds are in no row and in no other transaction.
LEMMA InsertCompanyKeepsInv ==
  ASSUME ProvisioningInv, NEW b \in Provisioners, InsertCompany(b)
  PROVE  ProvisioningInv'
<1> DEFINE p == provisioner[b]
<1>1. /\ p \in ProvisionerMemory /\ provisioner \in [Provisioners -> ProvisionerMemory]
      /\ p.order \in Order /\ lastCompany \in Nat
      /\ UNCHANGED <<companies, users, masters>>
  BY DEF ProvisioningInv, ProvisioningTypes, InsertCompany
<1>2. CASE Places(b, "refused") /\ UNCHANGED lastCompany
  <2> DEFINE next == [p EXCEPT !.at = "refused"]
  <2>1. next \in ProvisionerMemory /\ next.at = "refused" /\ next.order = p.order
    BY <1>1 DEF ProvisionerMemory, ProvisioningPlaces
  <2>2. provisioner' = [provisioner EXCEPT ![b] = next]
    BY <1>2 DEF Places
  <2> HIDE DEF next
  <2> QED BY <1>1, <1>2, <2>1, <2>2, RequestMoves
<1>3. CASE lastCompany' = lastCompany + 1
  <2>1. /\ \A c \in companies : c.slug # p.order.slug
        /\ \A c \in companies : p.order.tenant # NoTenant => c.tenant # p.order.tenant
        /\ provisioner' = [provisioner EXCEPT ![b].at = "user",
                                              ![b].company = lastCompany + 1]
        /\ TenantFree(b) /\ SlugFree(b)
    BY <1>1, <1>3 DEF InsertCompany, Places
  <2> DEFINE id == lastCompany + 1
  <2>2. id \in Nat
    BY <1>1
  <2> HIDE DEF id
  <2> DEFINE next == [p EXCEPT !.at = "user", !.company = id]
  <2>3. /\ next \in ProvisionerMemory /\ next.at = "user" /\ next.order = p.order
        /\ next.company = id
    BY <1>1, <2>2 DEF ProvisionerMemory, ProvisioningPlaces
  <2>4. provisioner' = [provisioner EXCEPT ![b] = next]
    BY <2>1 DEF id
  <2> HIDE DEF next
  <2>5. /\ provisioner'[b] = next
        /\ \A a \in Provisioners \ {b} : provisioner'[a] = provisioner[a]
    BY <1>1, <2>4
  <2>6. ProvisioningTypes'
    BY <1>1, <1>3, <2>2, <2>3, <2>4 DEF ProvisioningInv, ProvisioningTypes, id
  <2>7. RowsHold'
    BY <1>1, <1>3 DEF ProvisioningInv, RowsHold
  <2>8. ASSUME NEW a \in Provisioners PROVE ProvisionerHolds(a)'
    <3>1. CASE a = b
      <4>1. \A c \in companies : c.id # lastCompany + 1
        BY <1>1 DEF ProvisioningInv, RowsHold
      <4> QED BY <1>1, <1>3, <2>1, <2>3, <2>5, <3>1, <4>1
              DEF ProvisionerHolds, Inserted, EmailTaken, id
    <3>2. CASE a # b
      BY <1>1, <1>3, <2>5, <3>2
      DEF ProvisioningInv, ProvisionerHolds, Inserted, EmailTaken
    <3> QED BY <3>1, <3>2
  <2>9. ASSUME NEW a \in Provisioners, a # b, Inserted(a)
        PROVE  /\ provisioner[a].company # lastCompany + 1
               /\ provisioner[a].order.slug # p.order.slug
               /\ provisioner[a].order.tenant # NoTenant =>
                    provisioner[a].order.tenant # p.order.tenant
    <3>1. CompanyHeldBy(a, b)
      BY <2>9 DEF CompanyHeldBy, Inserted
    <3>2. provisioner[a].company \in 1 .. lastCompany
      BY <2>9 DEF ProvisioningInv, ProvisionerHolds
    <3> QED BY <1>1, <2>1, <3>1, <3>2 DEF TenantFree, SlugFree
  <2>10. ASSUME NEW a \in Provisioners, NEW c \in Provisioners PROVE ProvisionersApart(a, c)'
    <3>1. CASE a # b /\ c # b
      BY <2>5, <3>1 DEF ProvisioningInv, ProvisionersApart, Inserted
    <3>2. CASE a = b
      BY <2>3, <2>5, <2>9, <3>2 DEF ProvisionersApart, Inserted, id
    <3>3. CASE c = b
      BY <2>3, <2>5, <2>9, <3>3 DEF ProvisionersApart, Inserted, id
    <3> QED BY <3>1, <3>2, <3>3
  <2> QED BY <2>6, <2>7, <2>8, <2>10 DEF ProvisioningInv
<1> QED BY <1>2, <1>3 DEF InsertCompany

\* InsertUser: nobody who is committed or open has the e-mail.
LEMMA InsertUserKeepsInv ==
  ASSUME ProvisioningInv, NEW b \in Provisioners, InsertUser(b)
  PROVE  ProvisioningInv'
<1> DEFINE p == provisioner[b]
<1>1. /\ p \in ProvisionerMemory /\ provisioner \in [Provisioners -> ProvisionerMemory]
      /\ p.order \in Order /\ p.at = "user" /\ lastCompany \in Nat
      /\ UNCHANGED <<companies, users, masters, lastCompany>>
  BY DEF ProvisioningInv, ProvisioningTypes, InsertUser
<1>2. CASE Refused(b)
  <2> DEFINE next == [p EXCEPT !.at = "refused", !.company = 0]
  <2>1. next \in ProvisionerMemory /\ next.at = "refused" /\ next.order = p.order
    BY <1>1 DEF ProvisionerMemory, ProvisioningPlaces
  <2>2. provisioner' = [provisioner EXCEPT ![b] = next]
    BY <1>2 DEF Refused
  <2> HIDE DEF next
  <2> QED BY <1>1, <1>2, <2>1, <2>2, RequestMoves
<1>3. CASE Places(b, "rest") /\ ~ EmailTaken(p.order.email)
  <2> DEFINE next == [p EXCEPT !.at = "rest"]
  <2>1. /\ next \in ProvisionerMemory /\ next.at = "rest" /\ next.order = p.order
        /\ next.company = p.company
    BY <1>1 DEF ProvisionerMemory, ProvisioningPlaces
  <2>2. provisioner' = [provisioner EXCEPT ![b] = next]
    BY <1>3 DEF Places
  <2> HIDE DEF next
  <2>3. /\ provisioner'[b] = next
        /\ \A a \in Provisioners \ {b} : provisioner'[a] = provisioner[a]
    BY <1>1, <2>2
  <2>4. ProvisioningTypes'
    BY <1>1, <2>1, <2>2 DEF ProvisioningInv, ProvisioningTypes
  <2>5. RowsHold'
    BY <1>1 DEF ProvisioningInv, RowsHold
  <2>6. ASSUME NEW a \in Provisioners PROVE ProvisionerHolds(a)'
    <3>1. CASE a = b
      BY <1>1, <1>3, <2>1, <2>3, <3>1
      DEF ProvisioningInv, ProvisionerHolds, Inserted, EmailTaken
    <3>2. CASE a # b
      BY <1>1, <2>3, <3>2 DEF ProvisioningInv, ProvisionerHolds, Inserted, EmailTaken
    <3> QED BY <3>1, <3>2
  <2>7. EmailFree(b, p.order.email)
    BY DEF InsertUser
  <2>8. ASSUME NEW a \in Provisioners, NEW c \in Provisioners PROVE ProvisionersApart(a, c)'
    <3>1. /\ Inserted(a)' <=> Inserted(a)
          /\ Inserted(c)' <=> Inserted(c)
          /\ provisioner'[a].company = provisioner[a].company
          /\ provisioner'[c].company = provisioner[c].company
          /\ provisioner'[a].order = provisioner[a].order
          /\ provisioner'[c].order = provisioner[c].order
      BY <1>1, <2>1, <2>3 DEF Inserted
    <3>2. ASSUME a # c, provisioner'[a].at = "rest", provisioner'[c].at = "rest",
                 ProvisionersApart(a, c)
          PROVE  provisioner[a].order.email # provisioner[c].order.email
      BY <2>3, <2>7, <3>2 DEF EmailFree, EmailHeldBy, ProvisionersApart, Inserted
    <3>3. ProvisionersApart(a, c)
      BY DEF ProvisioningInv
    <3> QED BY <3>1, <3>2, <3>3 DEF ProvisionersApart
  <2> QED BY <2>4, <2>5, <2>6, <2>8 DEF ProvisioningInv
<1> QED BY <1>2, <1>3 DEF InsertUser

\* CommitCompany: the rows of the transaction appear together; whether its
\* answer comes or not, what the others have written is still no row's.
LEMMA CommitCompanyKeepsInv ==
  ASSUME ProvisioningInv, NEW b \in Provisioners, CommitCompany(b)
  PROVE  ProvisioningInv'
<1> DEFINE p == provisioner[b]
           row == [id |-> p.company, tenant |-> p.order.tenant, slug |-> p.order.slug]
           user == [email |-> p.order.email, company |-> p.company, role |-> "MASTER"]
<1>1. /\ p \in ProvisionerMemory /\ provisioner \in [Provisioners -> ProvisionerMemory]
      /\ p.order \in Order /\ p.at = "rest" /\ lastCompany \in Nat
      /\ p.company \in 1 .. lastCompany
      /\ companies' = companies \cup {row} /\ users' = users \cup {user}
      /\ masters' = masters \cup {<<p.company, p.order.email>>}
      /\ lastCompany' = lastCompany
  BY DEF ProvisioningInv, ProvisioningTypes, CommitCompany, ProvisionerHolds, Inserted
<1>2. PICK next \in ProvisionerMemory :
        /\ provisioner' = [provisioner EXCEPT ![b] = next]
        /\ next.order = p.order
        /\ next.at \in {"answered", "refused"}
        /\ next.at = "answered" => next.company = p.company
  <2>1. CASE Places(b, "answered")
    <3> DEFINE next == [p EXCEPT !.at = "answered"]
    <3>1. /\ next \in ProvisionerMemory /\ next.at = "answered"
          /\ next.order = p.order /\ next.company = p.company
      BY <1>1 DEF ProvisionerMemory, ProvisioningPlaces
    <3>2. provisioner' = [provisioner EXCEPT ![b] = next]
      BY <2>1 DEF Places
    <3> HIDE DEF next
    <3> QED BY <3>1, <3>2
  <2>2. CASE Refused(b)
    <3> DEFINE next == [p EXCEPT !.at = "refused", !.company = 0]
    <3>1. next \in ProvisionerMemory /\ next.at = "refused" /\ next.order = p.order
      BY <1>1 DEF ProvisionerMemory, ProvisioningPlaces
    <3>2. provisioner' = [provisioner EXCEPT ![b] = next]
      BY <2>2 DEF Refused
    <3> HIDE DEF next
    <3> QED BY <3>1, <3>2
  <2> QED BY <2>1, <2>2 DEF CommitCompany
<1>3. /\ provisioner'[b] = next
      /\ \A a \in Provisioners \ {b} : provisioner'[a] = provisioner[a]
  BY <1>1, <1>2
<1>4. /\ row \in CompanyRow /\ row.id = p.company
      /\ row.tenant = p.order.tenant /\ row.slug = p.order.slug
      /\ user \in [email : UserEmails, company : Nat, role : {"MASTER", "ANALISTA"}]
      /\ user.email = p.order.email /\ user.company = p.company /\ user.role = "MASTER"
      /\ p.company \in Nat /\ p.order.email \in UserEmails
  BY <1>1 DEF CompanyRow, ProvisionerMemory, Order
<1>5. /\ \A c \in companies :
           /\ c.id # p.company /\ c.slug # p.order.slug
           /\ p.order.tenant # NoTenant => c.tenant # p.order.tenant
      /\ \A u \in users : u.email # p.order.email
  BY <1>1 DEF ProvisioningInv, ProvisionerHolds, Inserted, EmailTaken
<1> HIDE DEF row, user
<1>6. ProvisioningTypes'
  BY <1>1, <1>2, <1>3, <1>4 DEF ProvisioningInv, ProvisioningTypes
<1>7. RowsHold'
  <2>1. /\ \A c \in companies' : c.id \in 1 .. lastCompany'
        /\ \A c, d \in companies' :
             c.id = d.id \/ (c.tenant = d.tenant /\ c.tenant # NoTenant) => c = d
        /\ \A u, v \in users' : u.email = v.email => u = v
    BY <1>1, <1>4, <1>5 DEF ProvisioningInv, RowsHold
  <2>2. \A u \in users' : \E c \in companies' : c.id = u.company
    BY <1>1, <1>4 DEF ProvisioningInv, RowsHold
  <2>3. \A m \in masters' : \E c \in companies' : c.id = m[1]
    BY <1>1, <1>4 DEF ProvisioningInv, RowsHold
  <2>4. \A u \in users' : u.role = "MASTER" => <<u.company, u.email>> \in masters'
    BY <1>1, <1>4 DEF ProvisioningInv, RowsHold
  <2>5. \A m \in masters' :
          \E u \in users' : u.role = "MASTER" /\ u.company = m[1] /\ u.email = m[2]
    BY <1>1, <1>4 DEF ProvisioningInv, RowsHold
  <2> QED BY <2>1, <2>2, <2>3, <2>4, <2>5 DEF RowsHold
<1>8. ASSUME NEW a \in Provisioners PROVE ProvisionerHolds(a)'
  <2>1. CASE a = b
    <3>1. row = [id |-> p.company, tenant |-> p.order.tenant, slug |-> p.order.slug]
      BY DEF row
    <3> QED BY <1>1, <1>2, <1>3, <2>1, <3>1 DEF ProvisionerHolds, Inserted, EmailTaken
  <2>2. CASE a # b
    <3>1. provisioner'[a] = provisioner[a] /\ ProvisionerHolds(a) /\ ProvisionersApart(a, b)
      BY <1>3, <2>2 DEF ProvisioningInv
    <3>2. ASSUME Inserted(a)
          PROVE  /\ provisioner[a].company # p.company
                 /\ provisioner[a].order.slug # p.order.slug
                 /\ provisioner[a].order.tenant # NoTenant =>
                      p.order.tenant # provisioner[a].order.tenant
                 /\ provisioner[a].at = "rest" => p.order.email # provisioner[a].order.email
      BY <1>1, <2>2, <3>1, <3>2 DEF ProvisionersApart, Inserted
    <3>3. Inserted(a) =>
            /\ provisioner[a].company \in 1 .. lastCompany
            /\ \A c \in companies' :
                 /\ c.id # provisioner[a].company /\ c.slug # provisioner[a].order.slug
                 /\ provisioner[a].order.tenant # NoTenant =>
                      c.tenant # provisioner[a].order.tenant
      BY <1>1, <1>4, <3>1, <3>2 DEF ProvisionerHolds
    <3>4. provisioner[a].at = "rest" =>
            ~ \E u \in users' : u.email = provisioner[a].order.email
      BY <1>1, <1>4, <3>1, <3>2 DEF ProvisionerHolds, Inserted, EmailTaken
    <3> QED BY <1>1, <3>1, <3>3, <3>4 DEF ProvisionerHolds, Inserted, EmailTaken
  <2> QED BY <2>1, <2>2
<1>9. ASSUME NEW a \in Provisioners, NEW c \in Provisioners PROVE ProvisionersApart(a, c)'
  BY <1>2, <1>3 DEF ProvisioningInv, ProvisionersApart, Inserted
<1> QED BY <1>6, <1>7, <1>8, <1>9 DEF ProvisioningInv

\* CreateAnalyst: the e-mail is in no row and in no open transaction, and the
\* new user is no MASTER.
LEMMA CreateAnalystKeepsInv ==
  ASSUME ProvisioningInv, CreateAnalyst
  PROVE  ProvisioningInv'
<1>1. PICK company \in companies, email \in UserEmails :
        /\ \A a \in Provisioners : ~ EmailHeldBy(a, email)
        /\ ~ EmailTaken(email)
        /\ users' = users \cup
             {[email |-> email, company |-> company.id, role |-> "ANALISTA"]}
  BY DEF CreateAnalyst
<1>2. UNCHANGED <<companies, masters, lastCompany, provisioner>>
  BY DEF CreateAnalyst
<1> DEFINE user == [email |-> email, company |-> company.id, role |-> "ANALISTA"]
<1>3. company \in CompanyRow /\ company.id \in Nat
  BY DEF ProvisioningInv, ProvisioningTypes, CompanyRow
<1>4. /\ user.email = email /\ user.company = company.id /\ user.role # "MASTER"
      /\ user \in [email : UserEmails, company : Nat, role : {"MASTER", "ANALISTA"}]
      /\ users' = users \cup {user}
  BY <1>1, <1>3
<1> HIDE DEF user
<1>5. ProvisioningTypes'
  BY <1>2, <1>4 DEF ProvisioningInv, ProvisioningTypes
<1>6. RowsHold'
  BY <1>1, <1>2, <1>4 DEF ProvisioningInv, RowsHold, EmailTaken
<1>7. ASSUME NEW a \in Provisioners PROVE ProvisionerHolds(a)'
  <2>1. provisioner[a].at = "rest" => provisioner[a].order.email # email
    BY <1>1 DEF EmailHeldBy
  <2> QED BY <1>2, <1>4, <2>1 DEF ProvisioningInv, ProvisionerHolds, Inserted, EmailTaken
<1>8. ASSUME NEW a \in Provisioners, NEW c \in Provisioners PROVE ProvisionersApart(a, c)'
  BY <1>2 DEF ProvisioningInv, ProvisionersApart, Inserted
<1> QED BY <1>5, <1>6, <1>7, <1>8 DEF ProvisioningInv

\* Every step keeps the invariant.
LEMMA ProvisioningInvKept ==
  ASSUME ProvisioningInv, [ProvisioningNext]_provisioningVars
  PROVE  ProvisioningInv'
<1>1. CASE UNCHANGED provisioningVars
  BY <1>1 DEF ProvisioningInv, ProvisioningTypes, RowsHold, ProvisionerHolds,
              ProvisionersApart, Inserted, EmailTaken, provisioningVars
<1>2. CASE ProvisioningNext
  BY <1>2, LookingKeepsInv, InsertCompanyKeepsInv, InsertUserKeepsInv,
     CommitCompanyKeepsInv, CreateAnalystKeepsInv
  DEF ProvisioningNext
<1> QED BY <1>1, <1>2

\* The invariant of the provisioning in every state of a behaviour.
LEMMA ProvisioningInvHolds == ProvisioningSpec => []ProvisioningInv
<1>1. ProvisioningInit => ProvisioningInv
  <2> SUFFICES ASSUME ProvisioningInit PROVE ProvisioningInv
    OBVIOUS
  <2>1. \A b \in Provisioners :
          provisioner[b] = [at |-> "away", company |-> 0, order |-> NoOrder]
    BY DEF ProvisioningInit, NoOrder
  <2>2. ProvisioningTypes
    BY <2>1 DEF ProvisioningInit, ProvisioningTypes, ProvisionerMemory, NoOrder,
                ProvisioningPlaces
  <2>3. RowsHold
    BY DEF ProvisioningInit, RowsHold
  <2>4. \A b \in Provisioners : ProvisionerHolds(b)
    BY <2>1 DEF ProvisionerHolds, Inserted
  <2>5. \A a, b \in Provisioners : ProvisionersApart(a, b)
    BY <2>1 DEF ProvisionersApart, Inserted
  <2> QED BY <2>2, <2>3, <2>4, <2>5 DEF ProvisioningInv
<1> QED BY <1>1, ProvisioningInvKept, PTL DEF ProvisioningSpec

(***************************************************************************)
(* Whoever is answered with a company has got the one that was asked for,  *)
(* with its MASTER; no tenant has two companies, no e-mail two users, and  *)
(* a company has one MASTER, its registered holder.  It holds for any      *)
(* number of calls of provision that race for rows that are not there yet, *)
(* beside the creation of analysts.                                        *)
(***************************************************************************)
THEOREM AlwaysProvisionedAsAsked == ProvisioningSpec => []ProvisionedAsAsked
<1>1. ProvisioningInv => ProvisionedAsAsked
  <2> SUFFICES ASSUME ProvisioningInv PROVE ProvisionedAsAsked
    OBVIOUS
  <2>1. ASSUME NEW c \in companies
        PROVE  {<<c.id, u.email>> :
                      u \in {v \in users : v.company = c.id /\ v.role = "MASTER"}}
                 = {m \in masters : m[1] = c.id}
    <3>1. ASSUME NEW m \in masters, m[1] = c.id
          PROVE  \E u \in users :
                      u.company = c.id /\ u.role = "MASTER" /\ m = <<c.id, u.email>>
      <4>1. PICK u \in users : u.role = "MASTER" /\ u.company = m[1] /\ u.email = m[2]
        BY DEF ProvisioningInv, RowsHold
      <4>2. m = <<m[1], m[2]>>
        BY DEF ProvisioningInv, ProvisioningTypes
      <4> QED BY <3>1, <4>1, <4>2
    <3>2. ASSUME NEW u \in users, u.company = c.id, u.role = "MASTER"
          PROVE  <<c.id, u.email>> \in masters /\ <<c.id, u.email>>[1] = c.id
      BY <3>2 DEF ProvisioningInv, RowsHold
    <3> QED BY <3>1, <3>2
  <2>2. ASSUME NEW b \in Provisioners, provisioner[b].at = "answered"
        PROVE  /\ [id |-> provisioner[b].company, tenant |-> provisioner[b].order.tenant,
                   slug |-> provisioner[b].order.slug] \in companies
               /\ <<provisioner[b].company, provisioner[b].order.email>> \in masters
    BY <2>2 DEF ProvisioningInv, ProvisionerHolds
  <2>3. /\ \A c, d \in companies : c.tenant = d.tenant /\ c.tenant # NoTenant => c = d
        /\ \A u, v \in users : u.email = v.email => u = v
    BY DEF ProvisioningInv, RowsHold
  <2> QED BY <2>1, <2>2, <2>3 DEF ProvisionedAsAsked
<1> QED BY <1>1, ProvisioningInvHolds, PTL

\* The requests that have yet to take the id of a company, or to do without.
Waiting == {b \in Provisioners : provisioner[b].at \in {"tenant", "email", "company"}}

\* An id is taken for a request, and by it alone.
IdsHold ==
  /\ asked \in 0 .. MaxProvisionings
  /\ IsFiniteSet(Waiting)
  /\ lastCompany + Cardinality(Waiting) <= asked
  /\ \A b \in Provisioners : provisioner[b].company <= lastCompany

\* Who does not wait any more makes room for an id.
LEMMA WaitersLeave ==
  ASSUME IdsHold, lastCompany \in Nat, NEW gone \in SUBSET Waiting,
         Waiting' = Waiting \ gone
  PROVE  /\ IsFiniteSet(Waiting')
         /\ lastCompany + Cardinality(Waiting') <= asked
         /\ gone # {} => lastCompany + 1 + Cardinality(Waiting') <= asked
<1>1. /\ IsFiniteSet(Waiting) /\ Cardinality(Waiting) \in Nat
      /\ lastCompany + Cardinality(Waiting) <= asked /\ asked \in Nat
  BY FS_CardinalityType, ProvisioningAssumption DEF IdsHold
<1>2. PICK waiting : waiting = Waiting'
  OBVIOUS
<1>3. waiting \in SUBSET Waiting /\ (gone # {} => waiting # Waiting)
  BY <1>2
<1>4. /\ IsFiniteSet(waiting) /\ Cardinality(waiting) <= Cardinality(Waiting)
      /\ waiting # Waiting => Cardinality(waiting) < Cardinality(Waiting)
  <2>1. /\ IsFiniteSet(waiting) /\ Cardinality(waiting) <= Cardinality(Waiting)
        /\ Cardinality(Waiting) = Cardinality(waiting) => Waiting = waiting
    BY <1>1, <1>3, FS_Subset
  <2>2. Cardinality(waiting) \in Nat
    BY <2>1, FS_CardinalityType
  <2> QED BY <1>1, <2>1, <2>2
<1>5. Cardinality(waiting) \in Nat
  BY <1>4, FS_CardinalityType
<1> QED BY <1>1, <1>2, <1>3, <1>4, <1>5

\* A step of one request, which waits no more or as before, for no new id.
LEMMA OneMoves ==
  ASSUME ProvisioningInv, IdsHold, NEW b \in Provisioners,
         DOMAIN provisioner' = DOMAIN provisioner,
         \A a \in Provisioners \ {b} : provisioner'[a] = provisioner[a],
         provisioner'[b].at \in {"tenant", "email", "company"} => b \in Waiting,
         provisioner'[b].company <= lastCompany',
         UNCHANGED asked,
         \/ UNCHANGED lastCompany
         \/ /\ lastCompany' = lastCompany + 1
            /\ b \in Waiting /\ provisioner'[b].at = "user"
  PROVE  IdsHold'
<1> DEFINE gone == {a \in {b} \cap Waiting :
                      provisioner'[b].at \notin {"tenant", "email", "company"}}
<1>1. lastCompany \in Nat /\ \A a \in Provisioners : provisioner[a].company \in Nat
  BY DEF ProvisioningInv, ProvisioningTypes, ProvisionerMemory
<1>2. gone \in SUBSET Waiting /\ Waiting' = Waiting \ gone
  BY DEF Waiting
<1>3. lastCompany' # lastCompany => gone # {}
  BY <1>1
<1> HIDE DEF gone
<1>4. /\ IsFiniteSet(Waiting')
      /\ lastCompany + Cardinality(Waiting') <= asked
      /\ gone # {} => lastCompany + 1 + Cardinality(Waiting') <= asked
  BY <1>1, <1>2, WaitersLeave
<1>5. lastCompany' + Cardinality(Waiting') <= asked'
  BY <1>1, <1>3, <1>4
<1>6. \A a \in Provisioners : provisioner'[a].company <= lastCompany'
  <2>1. lastCompany <= lastCompany' /\ lastCompany' \in Nat
    BY <1>1
  <2>2. ASSUME NEW a \in Provisioners, a # b
        PROVE  provisioner'[a].company <= lastCompany'
    <3>1. provisioner'[a] = provisioner[a] /\ provisioner[a].company <= lastCompany
      BY <2>2 DEF IdsHold
    <3>2. QED
      BY <1>1, <2>1, <3>1
  <2>3. QED
    BY <2>2
<1> QED BY <1>4, <1>5, <1>6 DEF IdsHold

(***************************************************************************)
(* Rows and requests hold what their names say: an id of a company is      *)
(* taken at most once for each request that is made, so that no table      *)
(* knows of more companies than requests.                                  *)
(***************************************************************************)
THEOREM ProvisioningTypeCorrect == ProvisioningSpec => []ProvisioningTypeOK
<1>1. ProvisioningInit => IdsHold
  <2> SUFFICES ASSUME ProvisioningInit PROVE IdsHold
    OBVIOUS
  <2>1. \A b \in Provisioners : provisioner[b].at = "away" /\ provisioner[b].company = 0
    BY DEF ProvisioningInit
  <2>2. Waiting = {}
    BY <2>1 DEF Waiting
  <2>3. lastCompany = 0 /\ asked = 0 /\ MaxProvisionings \in Nat
    BY ProvisioningAssumption DEF ProvisioningInit
  <2>4. IsFiniteSet(Waiting) /\ Cardinality(Waiting) = 0
    BY <2>2, FS_EmptySet
  <2> QED BY <2>1, <2>3, <2>4 DEF IdsHold
<1>2. ASSUME ProvisioningInv, IdsHold, [ProvisioningNext]_provisioningVars
      PROVE  IdsHold'
  <2>1. /\ provisioner \in [Provisioners -> ProvisionerMemory]
        /\ lastCompany \in Nat /\ asked \in Nat
    BY <1>2, ProvisioningAssumption DEF ProvisioningInv, ProvisioningTypes, IdsHold
  <2>2. CASE CreateAnalyst \/ UNCHANGED provisioningVars
    BY <1>2, <2>2 DEF CreateAnalyst, provisioningVars, IdsHold, Waiting
  <2>3. ASSUME NEW b \in Provisioners, BridgeAsks(b) \/ BootstrapAsks(b)
        PROVE  IdsHold'
    <3>1. PICK order \in Order, first \in {"tenant", "email"} : Asked(b, order, first)
      BY <2>3 DEF BridgeAsks, BootstrapAsks
    <3>2. /\ b \notin Waiting /\ asked < MaxProvisionings /\ asked' = asked + 1
          /\ lastCompany' = lastCompany
          /\ provisioner' = [provisioner EXCEPT ![b] =
                               [at |-> first, order |-> order, company |-> 0]]
      BY <3>1 DEF Asked, Waiting
    <3>3. Waiting' = Waiting \cup {b}
      BY <2>1, <3>2 DEF Waiting
    <3>4. IsFiniteSet(Waiting) /\ Cardinality(Waiting) \in Nat
      BY <1>2, FS_CardinalityType DEF IdsHold
    <3>5. /\ IsFiniteSet(Waiting \cup {b})
          /\ Cardinality(Waiting \cup {b}) = Cardinality(Waiting) + 1
      BY <3>2, <3>4, FS_AddElement
    <3>6. \A a \in Provisioners : provisioner'[a].company <= lastCompany'
      BY <1>2, <2>1, <3>2 DEF IdsHold
    <3> QED BY <1>2, <2>1, <3>2, <3>3, <3>4, <3>5, <3>6, ProvisioningAssumption DEF IdsHold
  <2>4. ASSUME NEW b \in Provisioners,
               \/ FindEmail(b) \/ InsertCompany(b) \/ InsertUser(b)
               \/ CommitCompany(b) \/ ProvisioningFails(b)
        PROVE  IdsHold'
    <3>1. /\ UNCHANGED asked
          /\ DOMAIN provisioner' = DOMAIN provisioner
          /\ \A a \in Provisioners \ {b} : provisioner'[a] = provisioner[a]
      BY <2>1, <2>4 DEF FindEmail, InsertCompany, InsertUser, CommitCompany,
                        ProvisioningFails, Places, Refused
    <3>2. /\ provisioner'[b].at \in {"tenant", "email", "company"} => b \in Waiting
          /\ \/ UNCHANGED lastCompany
             \/ /\ lastCompany' = lastCompany + 1
                /\ b \in Waiting /\ provisioner'[b].at = "user"
          /\ provisioner'[b].company \in {0, provisioner[b].company, lastCompany'}
      BY <2>1, <2>4 DEF FindEmail, InsertCompany, InsertUser, CommitCompany,
                        ProvisioningFails, Places, Refused, Waiting, ProvisionerMemory
    <3>3. provisioner'[b].company <= lastCompany'
      BY <1>2, <2>1, <3>2 DEF IdsHold, ProvisionerMemory
    <3> QED BY <1>2, <3>1, <3>2, <3>3, OneMoves
  <2>5. ASSUME NEW b \in Provisioners, FindTenant(b)
        PROVE  IdsHold'
    <3>1. /\ UNCHANGED <<asked, lastCompany>>
          /\ DOMAIN provisioner' = DOMAIN provisioner
          /\ \A a \in Provisioners \ {b} : provisioner'[a] = provisioner[a]
          /\ b \in Waiting
      BY <2>1, <2>5 DEF FindTenant, Places, Waiting
    <3>2. \/ provisioner'[b].company \in {0, provisioner[b].company}
          \/ \E c \in companies : provisioner'[b].company = c.id
      <4>1. CASE Places(b, "email")
        BY <2>1, <4>1 DEF Places, ProvisionerMemory
      <4>2. ASSUME NEW c \in companies,
                   provisioner' = [provisioner EXCEPT
                     ![b].at = IF Matches(provisioner[b].order, c) THEN "answered"
                               ELSE "refused",
                     ![b].company = IF Matches(provisioner[b].order, c) THEN c.id ELSE 0]
            PROVE  provisioner'[b].company \in {0, c.id}
        BY <2>1, <4>2 DEF ProvisionerMemory
      <4>3. QED
        BY <2>5, <4>1, <4>2 DEF FindTenant
    <3>3. provisioner'[b].company <= lastCompany'
      BY <1>2, <2>1, <3>1, <3>2
         DEF IdsHold, ProvisionerMemory, ProvisioningInv, RowsHold
    <3> QED BY <1>2, <3>1, <3>3, OneMoves
  <2> QED BY <1>2, <2>2, <2>3, <2>4, <2>5 DEF ProvisioningNext
<1>3. ASSUME ProvisioningInv, IdsHold
      PROVE  ProvisioningTypeOK
  <2>1. /\ lastCompany \in 0 .. MaxProvisionings /\ asked \in 0 .. MaxProvisionings
        /\ MaxProvisionings \in Nat
    <3>1. Cardinality(Waiting) \in Nat
      BY <1>3, FS_CardinalityType DEF IdsHold
    <3> QED BY <1>3, <3>1, ProvisioningAssumption
            DEF IdsHold, ProvisioningInv, ProvisioningTypes
  <2>2. ASSUME NEW c \in companies
        PROVE  c \in [id : CompanyIds, tenant : Tenants \cup {NoTenant}, slug : Slugs]
    <3>1. c \in CompanyRow /\ c.id \in 1 .. lastCompany
      BY <1>3 DEF ProvisioningInv, ProvisioningTypes, RowsHold
    <3>2. c.id \in CompanyIds
      BY <2>1, <3>1 DEF CompanyIds
    <3> QED BY <3>1, <3>2 DEF CompanyRow
  <2>3. \A c \in companies : c.id \in CompanyIds
    BY <2>2
  <2>4. ASSUME NEW u \in users
        PROVE  u \in [email : UserEmails, company : CompanyIds,
                      role : {"MASTER", "ANALISTA"}]
    BY <1>3, <2>3 DEF ProvisioningInv, ProvisioningTypes, RowsHold
  <2>5. ASSUME NEW m \in masters
        PROVE  m \in CompanyIds \X UserEmails
    <3>1. m \in Nat \X UserEmails /\ \E c \in companies : c.id = m[1]
      BY <1>3 DEF ProvisioningInv, ProvisioningTypes, RowsHold
    <3> QED BY <2>3, <3>1
  <2>6. NoOrder \in Order
    <3>1. \E o \in Order : o.tenant = NoTenant
      <4>1. PICK slug \in Slugs, email \in UserEmails : TRUE
        BY ProvisioningAssumption
      <4>2. [tenant |-> NoTenant, slug |-> slug, email |-> email] \in Order
        BY DEF Order
      <4> QED BY <4>2
    <3> QED BY <3>1 DEF NoOrder
  <2>7. ASSUME NEW b \in Provisioners
        PROVE  provisioner[b] \in
                 [at : ProvisioningPlaces, order : Order, company : CompanyIds \cup {0}]
    <3>1. provisioner[b] \in ProvisionerMemory /\ provisioner[b].company <= lastCompany
      BY <1>3 DEF ProvisioningInv, ProvisioningTypes, IdsHold
    <3>2. provisioner[b].company \in CompanyIds \cup {0}
      BY <2>1, <3>1 DEF CompanyIds, ProvisionerMemory
    <3>3. provisioner[b].order \in Order
      BY <2>6, <3>1 DEF ProvisionerMemory
    <3> QED BY <3>1, <3>2, <3>3 DEF ProvisionerMemory
  <2>8. provisioner \in [Provisioners ->
          [at : ProvisioningPlaces, order : Order, company : CompanyIds \cup {0}]]
    BY <1>3, <2>7 DEF ProvisioningInv, ProvisioningTypes
  <2> QED BY <2>1, <2>2, <2>4, <2>5, <2>8 DEF ProvisioningTypeOK
<1> QED BY <1>1, <1>2, <1>3, ProvisioningInvHolds, PTL DEF ProvisioningSpec

-----------------------------------------------------------------------------
(***************************************************************************)
(* The accounts of the earlier API tree.                                   *)
(***************************************************************************)

AccountRow ==
  [email : Emails \cup {AnEmail}, role : {"MASTER", "ANALISTA"}, active : BOOLEAN]

SessionOfAccount == [account : Nat, revoked : BOOLEAN]

RequestRow ==
  [kind : {"LOGIN", "ME", "CREATE", "LOGOUT", "BOOTSTRAP"},
   at : {"SENT", "FOUND", "KNOWN", "RESOLVED", "CHECKED", "ANSWERED", "REFUSED"},
   session : Nat, csrf : Nat, read : SessionOfAccount, user : Nat,
   email : Emails \cup {AnEmail}, late : BOOLEAN]

\* A session is of an account that there is.
AccountRows ==
  /\ accounts \in Seq(AccountRow)
  /\ earlierSessions \in Seq(SessionOfAccount)
  /\ \A s \in DOMAIN earlierSessions : earlierSessions[s].account \in DOMAIN accounts

\* The session that a request names is there; what it has read of the account
\* is that session's; and one that was sent late is of a session that has
\* ended, by its account if the session itself was found.
RequestHolds(r) ==
  /\ r.session \in 0 .. Len(earlierSessions)
  /\ r.kind = "LOGIN" /\ r.at = "CHECKED" => r.user \in DOMAIN accounts
  /\ r.kind \in Guarded /\ r.at \in {"FOUND", "KNOWN", "RESOLVED", "CHECKED"}
       => r.session # 0
  /\ r.kind \in Guarded /\ r.at = "FOUND"
       => r.user = earlierSessions[r.session].account
  /\ r.late => Ended(r.session)
  /\ r.late /\ r.kind \in Guarded => r.at \in {"SENT", "FOUND"}
  /\ r.late /\ r.kind \in Guarded /\ r.at = "FOUND" => ~ accounts[r.user].active

\* The browser has the two cookies of one login or none.
CookiesHold ==
  /\ cookies \in [session : Nat, csrf : Nat]
  /\ cookies.session \in 0 .. Len(earlierSessions)
  /\ cookies.session = cookies.csrf

AccountsInv ==
  /\ AccountRows
  /\ CookiesHold
  /\ requests \in [Windows -> RequestRow \cup {NoRequest}]
  /\ \A w \in Windows : requests[w] # NoRequest => RequestHolds(requests[w])

\* What a step may do to the rows: more of them, and no end is taken back.
RowsOnlyEnd ==
  /\ Len(accounts) <= Len(accounts')
  /\ \A a \in DOMAIN accounts : ~ accounts[a].active => ~ accounts'[a].active
  /\ Len(earlierSessions) <= Len(earlierSessions')
  /\ \A s \in DOMAIN earlierSessions :
       /\ earlierSessions'[s].account = earlierSessions[s].account
       /\ earlierSessions[s].revoked => earlierSessions'[s].revoked

\* A request that does not move is still as the invariant says.
LEMMA RequestStillHolds ==
  ASSUME AccountRows, AccountRows', RowsOnlyEnd,
         NEW r \in RequestRow, RequestHolds(r)
  PROVE  RequestHolds(r)'
<1>1. /\ Len(accounts) \in Nat /\ DOMAIN accounts = 1 .. Len(accounts)
      /\ Len(accounts') \in Nat /\ DOMAIN accounts' = 1 .. Len(accounts')
      /\ Len(earlierSessions) \in Nat /\ DOMAIN earlierSessions = 1 .. Len(earlierSessions)
      /\ Len(earlierSessions') \in Nat
      /\ DOMAIN earlierSessions' = 1 .. Len(earlierSessions')
  BY DEF AccountRows
<1>2. /\ Len(accounts) <= Len(accounts')
      /\ Len(earlierSessions) <= Len(earlierSessions')
  BY DEF RowsOnlyEnd
<1>3. r.session \in 0 .. Len(earlierSessions')
  BY <1>1, <1>2 DEF RequestHolds
<1>4. r.kind = "LOGIN" /\ r.at = "CHECKED" => r.user \in DOMAIN accounts'
  BY <1>1, <1>2 DEF RequestHolds
<1>5. ASSUME r.session # 0
      PROVE  /\ r.session \in DOMAIN earlierSessions
             /\ earlierSessions[r.session].account \in DOMAIN accounts
             /\ earlierSessions'[r.session].account = earlierSessions[r.session].account
             /\ earlierSessions[r.session].revoked => earlierSessions'[r.session].revoked
  <2>1. r.session \in DOMAIN earlierSessions
    BY <1>1, <1>5 DEF RequestHolds
  <2> QED BY <2>1 DEF AccountRows, RowsOnlyEnd
<1>6. r.kind \in Guarded /\ r.at = "FOUND"
        => /\ r.user = earlierSessions'[r.session].account
           /\ r.user \in DOMAIN accounts
  BY <1>5 DEF RequestHolds
<1>7. r.late => Ended(r.session)'
  BY <1>5 DEF RequestHolds, Ended, RowsOnlyEnd
<1>8. r.late /\ r.kind \in Guarded /\ r.at = "FOUND" => ~ accounts'[r.user].active
  BY <1>6 DEF RequestHolds, RowsOnlyEnd
<1> QED BY <1>3, <1>4, <1>6, <1>7, <1>8 DEF RequestHolds

\* A step of one window keeps the invariant if the rows only end, and what
\* the window has next is as the invariant says.
LEMMA WindowMoves ==
  ASSUME AccountsInv, NEW w \in Windows, NEW next \in RequestRow \cup {NoRequest},
         requests' = [requests EXCEPT ![w] = next],
         AccountRows', RowsOnlyEnd, CookiesHold',
         next # NoRequest => RequestHolds(next)'
  PROVE  AccountsInv'
<1>1. requests' \in [Windows -> RequestRow \cup {NoRequest}]
  BY DEF AccountsInv
<1>2. ASSUME NEW o \in Windows, (requests[o] # NoRequest)'
      PROVE  RequestHolds(requests[o])'
  <2>1. CASE o = w
    <3>1. requests'[o] = next
      BY <2>1 DEF AccountsInv
    <3> QED BY <1>2, <3>1 DEF RequestHolds, Ended
  <2>2. CASE o # w
    <3>1. PICK r \in RequestRow : r = requests[o] /\ r = requests'[o]
      BY <1>2, <2>2 DEF AccountsInv
    <3>2. AccountRows /\ RequestHolds(r)
      BY <1>2, <2>2, <3>1 DEF AccountsInv
    <3>3. RequestHolds(r)'
      BY <3>2, RequestStillHolds
    <3> QED BY <3>1, <3>3 DEF RequestHolds, Ended
  <2> QED BY <2>1, <2>2
<1> QED BY <1>1, <1>2 DEF AccountsInv

\* The same for a step that reads the rows.
LEMMA WindowReads ==
  ASSUME AccountsInv, NEW w \in Windows, NEW next \in RequestRow \cup {NoRequest},
         requests' = [requests EXCEPT ![w] = next],
         UNCHANGED <<accounts, earlierSessions, cookies>>,
         next # NoRequest => RequestHolds(next)
  PROVE  AccountsInv'
<1>1. AccountRows'
  BY DEF AccountsInv, AccountRows
<1>2. RowsOnlyEnd
  BY DEF AccountsInv, AccountRows, RowsOnlyEnd
<1>3. CookiesHold'
  BY DEF AccountsInv, CookiesHold
<1>4. next # NoRequest => RequestHolds(next)'
  BY DEF RequestHolds, Ended
<1> QED BY <1>1, <1>2, <1>3, <1>4, WindowMoves

\* What a request that is over remembers.
LEMMA OverRequest ==
  ASSUME AccountsInv, NEW w \in Windows, requests[w] # NoRequest,
         NEW at \in {"CHECKED", "ANSWERED", "REFUSED"}, NEW session \in Nat, NEW user \in Nat
  PROVE  /\ requests[w] \in RequestRow /\ RequestHolds(requests[w])
         /\ Over(w, at) \in RequestRow
         /\ at # "CHECKED" => RequestHolds(Over(w, at))
         /\ [Over(w, at) EXCEPT !.user = user] \in RequestRow
         /\ [Over(w, at) EXCEPT !.session = session] \in RequestRow
<1>1. requests[w] \in RequestRow /\ RequestHolds(requests[w])
  BY DEF AccountsInv
<1>2. Unread \in SessionOfAccount
  BY DEF Unread, SessionOfAccount
<1>3. Over(w, at) \in RequestRow /\ Over(w, at).late = FALSE /\ Over(w, at).session = 0
      /\ Over(w, at).at = at
  BY <1>1, <1>2 DEF Over, RequestRow
<1>4. Len(earlierSessions) \in Nat
  BY DEF AccountsInv, AccountRows
<1>5. at # "CHECKED" => RequestHolds(Over(w, at))
  BY <1>3, <1>4 DEF RequestHolds
<1>6. /\ [Over(w, at) EXCEPT !.user = user] \in RequestRow
      /\ [Over(w, at) EXCEPT !.session = session] \in RequestRow
  BY <1>3 DEF RequestRow
<1> QED BY <1>1, <1>3, <1>5, <1>6

\* A request refused or answered by a step that reads.
LEMMA OverKeepsInv ==
  ASSUME AccountsInv, NEW w \in Windows, requests[w] # NoRequest,
         NEW at \in {"ANSWERED", "REFUSED"},
         requests' = [requests EXCEPT ![w] = Over(w, at)],
         UNCHANGED <<accounts, earlierSessions, cookies>>
  PROVE  AccountsInv'
<1> DEFINE next == Over(w, at)
<1>1. next \in RequestRow /\ RequestHolds(next)
  BY OverRequest, 0 \in Nat
<1> HIDE DEF next
<1>2. requests' = [requests EXCEPT ![w] = next]
  BY DEF next
<1> QED BY <1>1, <1>2, WindowReads

\* A request is sent with the cookies that the browser has.
LEMMA SendingKeepsInv ==
  ASSUME AccountsInv, NEW w \in Windows,
         NEW kind \in {"LOGIN", "ME", "CREATE", "LOGOUT", "BOOTSTRAP"},
         NEW email \in Emails \cup {AnEmail}, Sends(w, kind, email)
  PROVE  AccountsInv'
<1> DEFINE late == Ended(cookies.session)
           next == [kind |-> kind, at |-> "SENT", session |-> cookies.session,
                    csrf |-> cookies.csrf, read |-> Unread, user |-> 0,
                    email |-> email, late |-> late]
<1>1. late \in BOOLEAN
  BY Zenon DEF Ended
<1>2. cookies.session \in Nat /\ cookies.csrf \in Nat
      /\ cookies.session \in 0 .. Len(earlierSessions)
  BY DEF AccountsInv, CookiesHold
<1>3. Unread \in SessionOfAccount
  BY DEF Unread, SessionOfAccount
<1>4. late => Ended(cookies.session)
  OBVIOUS
<1> HIDE DEF late
<1>5. next \in RequestRow
  BY <1>1, <1>2, <1>3 DEF RequestRow
<1>6. RequestHolds(next)
  BY <1>2, <1>4 DEF RequestHolds
<1>7. requests' = [requests EXCEPT ![w] = next]
      /\ UNCHANGED <<accounts, earlierSessions, cookies>>
  BY DEF Sends, late
<1> HIDE DEF next
<1> QED BY <1>5, <1>6, <1>7, WindowReads

\* login: the account, and its session.
LEMMA LoginKeepsInv ==
  ASSUME AccountsInv, NEW w \in Windows, FindLogin(w) \/ CreateSession(w)
  PROVE  AccountsInv'
<1> DEFINE r == requests[w]
<1>1. r # NoRequest /\ r.kind = "LOGIN" /\ r \in RequestRow /\ RequestHolds(r)
  BY DEF FindLogin, CreateSession, Is, AccountsInv
<1>2. /\ accounts \in Seq(AccountRow) /\ earlierSessions \in Seq(SessionOfAccount)
      /\ DOMAIN accounts = 1 .. Len(accounts) /\ Len(accounts) \in Nat
      /\ DOMAIN earlierSessions = 1 .. Len(earlierSessions) /\ Len(earlierSessions) \in Nat
  BY DEF AccountsInv, AccountRows
<1>3. CASE FindLogin(w)
  <2>1. ASSUME Moves(w, Over(w, "REFUSED")) PROVE AccountsInv'
    BY <1>1, <2>1, OverKeepsInv DEF Moves
  <2>2. ASSUME NEW a \in FindByEmail(r.email),
               Moves(w, [Over(w, "CHECKED") EXCEPT !.user = a])
        PROVE  AccountsInv'
    <3> DEFINE next == [Over(w, "CHECKED") EXCEPT !.user = a]
    <3>1. a \in DOMAIN accounts /\ a \in Nat
      BY <1>2 DEF FindByEmail
    <3>2. next \in RequestRow
      BY <1>1, <3>1, OverRequest, 0 \in Nat
    <3>3. next.session = 0 /\ next.late = FALSE /\ next.user = a /\ next.kind = "LOGIN"
      BY <1>1 DEF Over
    <3> HIDE DEF next
    <3>4. RequestHolds(next)
      BY <1>2, <3>1, <3>3 DEF RequestHolds, Guarded
    <3>5. requests' = [requests EXCEPT ![w] = next]
          /\ UNCHANGED <<accounts, earlierSessions, cookies>>
      BY <2>2 DEF Moves, next
    <3> QED BY <3>2, <3>4, <3>5, WindowReads
  <2>3. \/ \E a \in FindByEmail(r.email) :
             RefuseUnless(w, accounts[a].active, [Over(w, "CHECKED") EXCEPT !.user = a])
        \/ Moves(w, Over(w, "REFUSED"))
    BY <1>3 DEF FindLogin
  <2>4. ASSUME NEW a \in FindByEmail(r.email),
               RefuseUnless(w, accounts[a].active, [Over(w, "CHECKED") EXCEPT !.user = a])
        PROVE  AccountsInv'
    <3>1. CASE accounts[a].active
      BY <2>2, <2>4, <3>1 DEF RefuseUnless
    <3>2. CASE ~ accounts[a].active
      BY <2>1, <2>4, <3>2 DEF RefuseUnless
    <3> QED BY <3>1, <3>2
  <2> QED BY <2>1, <2>3, <2>4
<1>4. CASE CreateSession(w)
  <2> DEFINE row == [account |-> r.user, revoked |-> FALSE]
             id == Len(earlierSessions) + 1
             next == [Over(w, "ANSWERED") EXCEPT !.session = id]
  <2>1. r.user \in DOMAIN accounts /\ r.user \in Nat
    BY <1>1, <1>2, <1>4 DEF CreateSession, Is, RequestHolds
  <2>2. row \in SessionOfAccount /\ row.account = r.user
    BY <2>1 DEF SessionOfAccount
  <2> HIDE DEF row
  <2>3. earlierSessions' = Append(earlierSessions, row)
        /\ UNCHANGED <<accounts, cookies>>
    BY <1>4 DEF CreateSession, row
  <2>4. /\ earlierSessions' \in Seq(SessionOfAccount) /\ Len(earlierSessions') = id
        /\ DOMAIN earlierSessions' = 1 .. id
        /\ \A s \in DOMAIN earlierSessions : earlierSessions'[s] = earlierSessions[s]
        /\ earlierSessions'[id] = row
    BY <1>2, <2>2, <2>3
  <2>5. AccountRows'
    BY <1>2, <2>1, <2>2, <2>3, <2>4 DEF AccountsInv, AccountRows
  <2>6. RowsOnlyEnd
    BY <1>2, <2>3, <2>4 DEF RowsOnlyEnd
  <2>7. CookiesHold'
    BY <1>2, <2>3, <2>4 DEF AccountsInv, CookiesHold
  <2>8. id \in Nat
    BY <1>2
  <2> HIDE DEF id
  <2>9. next \in RequestRow
    BY <1>1, <2>8, OverRequest
  <2>10. /\ next.session = id /\ next.late = FALSE /\ next.kind = "LOGIN"
         /\ next.at = "ANSWERED"
    BY <1>1 DEF Over
  <2>11. requests' = [requests EXCEPT ![w] = next]
    BY <1>4 DEF CreateSession, id
  <2> HIDE DEF next
  <2>12. PICK n \in RequestRow :
           /\ n.session = id /\ n.late = FALSE /\ n.kind = "LOGIN" /\ n.at = "ANSWERED"
           /\ requests' = [requests EXCEPT ![w] = n]
    BY <2>9, <2>10, <2>11
  <2>13. RequestHolds(n)'
    BY <2>4, <2>8, <2>12 DEF RequestHolds, Guarded
  <2> QED BY <2>5, <2>6, <2>7, <2>12, <2>13, WindowMoves
<1> QED BY <1>3, <1>4

\* A request that gets further with what it has.
LEMMA PlaceKeepsInv ==
  ASSUME AccountsInv, NEW w \in Windows, requests[w] # NoRequest,
         NEW at \in {"KNOWN", "CHECKED"},
         requests[w].kind \in Guarded \cup {"BOOTSTRAP"},
         requests[w].kind \in Guarded => requests[w].session # 0 /\ ~ requests[w].late,
         requests' = [requests EXCEPT ![w] = [requests[w] EXCEPT !.at = at]],
         UNCHANGED <<accounts, earlierSessions, cookies>>
  PROVE  AccountsInv'
<1> DEFINE r == requests[w]
           next == [r EXCEPT !.at = at]
<1>1. r \in RequestRow /\ RequestHolds(r)
  BY DEF AccountsInv
<1>2. /\ next \in RequestRow /\ next.at = at /\ next.kind = r.kind
      /\ next.session = r.session /\ next.late = r.late
  BY <1>1 DEF RequestRow
<1>3. requests' = [requests EXCEPT ![w] = next]
  OBVIOUS
<1> HIDE DEF next
<1>4. RequestHolds(next)
  BY <1>1, <1>2 DEF RequestHolds, Guarded
<1> QED BY <1>2, <1>3, <1>4, WindowReads

\* resolveSession: a session that is found has not ended by itself.
LEMMA ResolvingKeepsInv ==
  ASSUME AccountsInv, NEW w \in Windows,
         FindSession(w) \/ FindUser(w) \/ TouchSession(w)
  PROVE  AccountsInv'
<1> DEFINE r == requests[w]  s == r.session
<1>1. r # NoRequest /\ r.kind \in Guarded /\ r \in RequestRow /\ RequestHolds(r)
  BY DEF FindSession, FindUser, TouchSession, Is, AccountsInv
<1>2. /\ earlierSessions \in Seq(SessionOfAccount) /\ Len(earlierSessions) \in Nat
      /\ DOMAIN earlierSessions = 1 .. Len(earlierSessions)
      /\ \A n \in DOMAIN earlierSessions : earlierSessions[n].account \in DOMAIN accounts
      /\ s \in 0 .. Len(earlierSessions)
  BY <1>1 DEF AccountsInv, AccountRows, RequestHolds
<1>3. s # 0 => /\ s \in DOMAIN earlierSessions
               /\ earlierSessions[s] \in SessionOfAccount
               /\ earlierSessions[s].account \in Nat
  <2>1. s # 0 => s \in DOMAIN earlierSessions /\ earlierSessions[s] \in SessionOfAccount
    BY <1>2
  <2> QED BY <2>1 DEF SessionOfAccount
<1>4. ASSUME Moves(w, Over(w, "REFUSED")) PROVE AccountsInv'
  BY <1>1, <1>4, OverKeepsInv DEF Moves
<1>5. CASE FindSession(w)
  <2>1. CASE FindActiveByTokenHash(s)
    <3> DEFINE found == earlierSessions[s]
               next == [r EXCEPT !.at = "FOUND", !.read = found,
                                 !.user = found.account]
    <3>1. s # 0 /\ ~ found.revoked /\ found \in SessionOfAccount /\ found.account \in Nat
      BY <1>3, <2>1 DEF FindActiveByTokenHash
    <3>2. requests' = [requests EXCEPT ![w] = next]
          /\ UNCHANGED <<accounts, earlierSessions, cookies>>
      BY <1>5, <2>1 DEF FindSession, Moves
    <3>3. r.late => ~ accounts[found.account].active
      BY <1>1, <3>1 DEF RequestHolds, Ended
    <3>4. found.account = earlierSessions[s].account
      OBVIOUS
    <3> HIDE DEF found
    <3>5. /\ next \in RequestRow /\ next.at = "FOUND" /\ next.kind = r.kind
          /\ next.session = s /\ next.late = r.late /\ next.user = found.account
      BY <1>1, <3>1 DEF RequestRow
    <3> HIDE DEF next
    <3>6. RequestHolds(next)
      BY <1>1, <3>1, <3>3, <3>4, <3>5 DEF RequestHolds, Guarded
    <3> QED BY <3>2, <3>5, <3>6, WindowReads
  <2>2. CASE ~ FindActiveByTokenHash(s)
    BY <1>4, <1>5, <2>2 DEF FindSession
  <2> QED BY <2>1, <2>2
<1>6. CASE FindUser(w)
  <2>1. CASE accounts[r.user].active
    <3>1. s # 0 /\ ~ r.late
      BY <1>1, <1>6, <2>1 DEF FindUser, Is, RequestHolds
    <3>2. requests' = [requests EXCEPT ![w] = [r EXCEPT !.at = "KNOWN"]]
          /\ UNCHANGED <<accounts, earlierSessions, cookies>>
      BY <1>6, <2>1 DEF FindUser, RefuseUnless, Moves
    <3> QED BY <1>1, <3>1, <3>2, PlaceKeepsInv
  <2>2. CASE ~ accounts[r.user].active
    BY <1>4, <1>6, <2>2 DEF FindUser, RefuseUnless
  <2> QED BY <2>1, <2>2
<1>7. CASE TouchSession(w)
  <2>1. s # 0 /\ ~ r.late
    BY <1>1, <1>7 DEF TouchSession, Is, RequestHolds
  <2>2. earlierSessions' = earlierSessions
    BY <1>2, <1>3, <1>7, <2>1 DEF TouchSession, Touched
  <2> DEFINE next == [r EXCEPT !.at = "RESOLVED", !.read = Unread]
  <2>3. Unread \in SessionOfAccount
    BY DEF Unread, SessionOfAccount
  <2>4. /\ next \in RequestRow /\ next.at = "RESOLVED" /\ next.kind = r.kind
        /\ next.session = s /\ next.late = r.late
    BY <1>1, <2>3 DEF RequestRow
  <2>5. requests' = [requests EXCEPT ![w] = next]
        /\ UNCHANGED <<accounts, earlierSessions, cookies>>
    BY <1>7, <2>2 DEF TouchSession
  <2> HIDE DEF next
  <2>6. RequestHolds(next)
    BY <1>1, <2>1, <2>4 DEF RequestHolds, Guarded
  <2> QED BY <2>4, <2>5, <2>6, WindowReads
<1> QED BY <1>5, <1>6, <1>7

\* What is checked before a route does its work.
LEMMA CheckingKeepsInv ==
  ASSUME AccountsInv, NEW w \in Windows,
         CheckMe(w) \/ CheckAnalyst(w) \/ CheckLogout(w) \/ CheckBootstrap(w)
  PROVE  AccountsInv'
<1> DEFINE r == requests[w]
<1>1. /\ r # NoRequest /\ r.kind \in Guarded \cup {"BOOTSTRAP"}
      /\ r \in RequestRow /\ RequestHolds(r)
  BY DEF CheckMe, CheckAnalyst, CheckLogout, CheckBootstrap, Is, AccountsInv, Guarded
<1>2. r.kind \in Guarded => r.session # 0 /\ ~ r.late
  BY <1>1 DEF CheckMe, CheckAnalyst, CheckLogout, CheckBootstrap, Is, RequestHolds,
              Guarded
<1>3. ASSUME NEW at \in {"ANSWERED", "REFUSED"}, Moves(w, Over(w, at)) PROVE AccountsInv'
  BY <1>1, <1>3, OverKeepsInv DEF Moves
<1>4. ASSUME Moves(w, [r EXCEPT !.at = "CHECKED"]) PROVE AccountsInv'
  BY <1>1, <1>2, <1>4, PlaceKeepsInv DEF Moves
<1>5. \/ Moves(w, Over(w, "ANSWERED")) \/ Moves(w, Over(w, "REFUSED"))
      \/ Moves(w, [r EXCEPT !.at = "CHECKED"])
  BY DEF CheckMe, CheckAnalyst, CheckLogout, CheckBootstrap, RefuseUnless
<1> QED BY <1>3, <1>4, <1>5

\* logout revokes the row, whoever else has it.
LEMMA RevokingKeepsInv ==
  ASSUME AccountsInv, NEW w \in Windows, RevokeSession(w)
  PROVE  AccountsInv'
<1> DEFINE r == requests[w]  s == r.session
           row == [earlierSessions[s] EXCEPT !.revoked = TRUE]
<1>1. /\ r # NoRequest /\ r.kind = "LOGOUT" /\ r.at = "CHECKED" /\ r \in RequestRow
      /\ RequestHolds(r)
  BY DEF RevokeSession, Is, AccountsInv
<1>2. /\ earlierSessions \in Seq(SessionOfAccount) /\ Len(earlierSessions) \in Nat
      /\ DOMAIN earlierSessions = 1 .. Len(earlierSessions)
      /\ s \in 0 .. Len(earlierSessions) /\ s # 0
      /\ accounts \in Seq(AccountRow) /\ Len(accounts) \in Nat
  BY <1>1 DEF AccountsInv, AccountRows, RequestHolds, Guarded
<1>3. s \in DOMAIN earlierSessions /\ earlierSessions[s] \in SessionOfAccount
  BY <1>2
<1>4. /\ row \in SessionOfAccount /\ row.account = earlierSessions[s].account
      /\ row.revoked = TRUE
  BY <1>3 DEF SessionOfAccount
<1>5. earlierSessions' = [earlierSessions EXCEPT ![s] = row]
      /\ UNCHANGED <<accounts, cookies>>
  BY DEF RevokeSession, RevokedRow
<1> HIDE DEF row
<1>6. /\ earlierSessions' \in Seq(SessionOfAccount)
      /\ Len(earlierSessions') = Len(earlierSessions)
      /\ DOMAIN earlierSessions' = DOMAIN earlierSessions
      /\ earlierSessions'[s] = row
      /\ \A n \in DOMAIN earlierSessions \ {s} : earlierSessions'[n] = earlierSessions[n]
  BY <1>2, <1>3, <1>4, <1>5
<1>7. AccountRows'
  BY <1>4, <1>5, <1>6 DEF AccountsInv, AccountRows
<1>8. RowsOnlyEnd
  BY <1>2, <1>4, <1>5, <1>6 DEF RowsOnlyEnd
<1>9. CookiesHold'
  BY <1>5, <1>6 DEF AccountsInv, CookiesHold
<1>10. PICK n \in RequestRow :
         /\ n.session = 0 /\ n.late = FALSE /\ n.at = "ANSWERED"
         /\ requests' = [requests EXCEPT ![w] = n]
  <2>1. Over(w, "ANSWERED") \in RequestRow
    BY <1>1, OverRequest, 0 \in Nat
  <2>2. /\ Over(w, "ANSWERED").session = 0 /\ Over(w, "ANSWERED").late = FALSE
        /\ Over(w, "ANSWERED").at = "ANSWERED"
    BY DEF Over
  <2> QED BY <2>1, <2>2 DEF RevokeSession
<1>11. RequestHolds(n)'
  BY <1>2, <1>6, <1>10 DEF RequestHolds
<1> QED BY <1>7, <1>8, <1>9, <1>10, <1>11, WindowMoves

\* bootstrap-master, and an analyst that a MASTER creates.
LEMMA CreatingKeepsInv ==
  ASSUME AccountsInv, NEW w \in Windows, CreateAccount(w)
  PROVE  AccountsInv'
<1> DEFINE r == requests[w]
<1>1. r # NoRequest /\ r \in RequestRow /\ RequestHolds(r)
  BY DEF CreateAccount, Is, AccountsInv
<1>2. /\ accounts \in Seq(AccountRow) /\ Len(accounts) \in Nat
      /\ DOMAIN accounts = 1 .. Len(accounts)
      /\ earlierSessions \in Seq(SessionOfAccount) /\ Len(earlierSessions) \in Nat
  BY DEF AccountsInv, AccountRows
<1>3. UNCHANGED <<earlierSessions, cookies>>
  BY DEF CreateAccount
<1>4. CASE UNCHANGED accounts
  BY <1>1, <1>3, <1>4, OverKeepsInv DEF CreateAccount
<1>5. CASE MemoryCreates(r.email, RoleOf(r.kind)) \/ MySqlCreates(r.email, RoleOf(r.kind))
  <2> DEFINE row == NewAccount(r.email, RoleOf(r.kind))
  <2>1. row \in AccountRow
    BY <1>1 DEF NewAccount, RoleOf, AccountRow, RequestRow
  <2> HIDE DEF row
  <2>2. accounts' = Append(accounts, row)
    BY <1>5 DEF MemoryCreates, MySqlCreates, row
  <2>3. /\ accounts' \in Seq(AccountRow) /\ Len(accounts') = Len(accounts) + 1
        /\ \A a \in DOMAIN accounts : accounts'[a] = accounts[a]
        /\ DOMAIN accounts \subseteq DOMAIN accounts'
    BY <1>2, <2>1, <2>2
  <2>4. AccountRows'
    BY <1>3, <2>3 DEF AccountsInv, AccountRows
  <2>5. RowsOnlyEnd
    BY <1>2, <1>3, <2>3 DEF RowsOnlyEnd
  <2>6. CookiesHold'
    BY <1>3 DEF AccountsInv, CookiesHold
  <2>7. PICK n \in RequestRow :
          /\ n.session = 0 /\ n.late = FALSE /\ n.at \in {"ANSWERED", "REFUSED"}
          /\ requests' = [requests EXCEPT ![w] = n]
    <3>1. Over(w, "ANSWERED") \in RequestRow /\ Over(w, "REFUSED") \in RequestRow
      BY <1>1, OverRequest, 0 \in Nat
    <3>2. \A at \in {"ANSWERED", "REFUSED"} :
            Over(w, at).session = 0 /\ Over(w, at).late = FALSE /\ Over(w, at).at = at
      BY DEF Over
    <3> QED BY <3>1, <3>2 DEF CreateAccount
  <2>8. RequestHolds(n)'
    BY <1>2, <1>3, <2>7 DEF RequestHolds
  <2> QED BY <2>4, <2>5, <2>6, <2>7, <2>8, WindowMoves
<1> QED BY <1>4, <1>5 DEF CreateAccount

\* Answers, in whatever order they come, or not at all.
LEMMA AnswersKeepInv ==
  ASSUME AccountsInv, NEW w \in Windows, TakeAnswer(w) \/ AnswerLost(w)
  PROVE  AccountsInv'
<1> DEFINE r == requests[w]
<1>1. r # NoRequest /\ r \in RequestRow /\ RequestHolds(r)
  BY DEF TakeAnswer, AnswerLost, AccountsInv
<1>2. UNCHANGED <<accounts, earlierSessions>>
      /\ requests' = [requests EXCEPT ![w] = NoRequest]
  BY DEF TakeAnswer, AnswerLost
<1>3. AccountRows' /\ RowsOnlyEnd
  BY <1>2 DEF AccountsInv, AccountRows, RowsOnlyEnd
<1>4. CookiesHold'
  <2>1. r.session \in 0 .. Len(earlierSessions) /\ r.session \in Nat
        /\ Len(earlierSessions) \in Nat
    BY <1>1 DEF RequestHolds, RequestRow, AccountsInv, AccountRows
  <2>2. \/ cookies' = cookies
        \/ cookies' = [session |-> r.session, csrf |-> r.session]
        \/ cookies' = [session |-> 0, csrf |-> 0]
    BY DEF TakeAnswer, AnswerLost
  <2> QED BY <1>2, <2>1, <2>2 DEF AccountsInv, CookiesHold
<1> QED BY <1>2, <1>3, <1>4, WindowMoves

\* An account is disabled while requests of it are under way.
LEMMA DisablingKeepsInv ==
  ASSUME AccountsInv, DisableAccount
  PROVE  AccountsInv'
<1>1. PICK a \in DOMAIN accounts :
        accounts' = [accounts EXCEPT ![a].active = FALSE]
  BY DEF DisableAccount
<1> DEFINE row == [accounts[a] EXCEPT !.active = FALSE]
<1>2. UNCHANGED <<earlierSessions, cookies, requests>>
  BY DEF DisableAccount
<1>3. accounts \in Seq(AccountRow) /\ accounts[a] \in AccountRow
  BY DEF AccountsInv, AccountRows
<1>4. row \in AccountRow /\ row.active = FALSE
  BY <1>3 DEF AccountRow
<1>5. accounts' = [accounts EXCEPT ![a] = row]
  BY <1>1
<1> HIDE DEF row
<1>6. /\ accounts' \in Seq(AccountRow) /\ Len(accounts') = Len(accounts)
      /\ DOMAIN accounts' = DOMAIN accounts /\ accounts'[a] = row
      /\ \A o \in DOMAIN accounts \ {a} : accounts'[o] = accounts[o]
      /\ Len(accounts) \in Nat
  BY <1>3, <1>4, <1>5
<1>7. AccountRows'
  BY <1>2, <1>6 DEF AccountsInv, AccountRows
<1>8. RowsOnlyEnd
  <2>1. Len(earlierSessions) \in Nat
    BY DEF AccountsInv, AccountRows
  <2> QED BY <1>2, <1>4, <1>6, <2>1 DEF RowsOnlyEnd
<1>9. CookiesHold'
  BY <1>2 DEF AccountsInv, CookiesHold
<1>10. ASSUME NEW w \in Windows, (requests[w] # NoRequest)'
       PROVE  RequestHolds(requests[w])'
  <2>1. PICK r \in RequestRow : r = requests[w] /\ r = requests'[w]
    BY <1>2, <1>10 DEF AccountsInv
  <2>2. AccountRows /\ RequestHolds(r)
    BY <1>2, <1>10, <2>1 DEF AccountsInv
  <2>3. RequestHolds(r)'
    BY <1>7, <1>8, <2>2, RequestStillHolds
  <2> QED BY <2>1, <2>3 DEF RequestHolds, Ended
<1> QED BY <1>2, <1>7, <1>9, <1>10 DEF AccountsInv

\* Every step keeps the invariant.
LEMMA AccountsInvKept ==
  ASSUME AccountsInv, [AccountsNext]_accountVars
  PROVE  AccountsInv'
<1>1. CASE UNCHANGED accountVars
  BY <1>1 DEF AccountsInv, AccountRows, CookiesHold, RequestHolds, Ended, accountVars
<1>2. ASSUME NEW w \in Windows, SendRequest(w) \/ RunBootstrap(w) PROVE AccountsInv'
  BY <1>2, SendingKeepsInv DEF SendRequest, RunBootstrap
<1> QED BY <1>1, <1>2, LoginKeepsInv, ResolvingKeepsInv, CheckingKeepsInv,
           RevokingKeepsInv, CreatingKeepsInv, AnswersKeepInv, DisablingKeepsInv
        DEF AccountsNext

\* The invariant of the accounts in every state of a behaviour.
LEMMA AccountsInvHolds == AccountsSpec => []AccountsInv
<1>1. AccountsInit => AccountsInv
  <2> SUFFICES ASSUME AccountsInit PROVE AccountsInv
    OBVIOUS
  <2>1. AccountRows
    <3>1. NewAccount(AnEmail, "MASTER") \in AccountRow
      BY DEF NewAccount, AccountRow
    <3>2. <<>> \in Seq(AccountRow) /\ <<>> \in Seq(SessionOfAccount)
      OBVIOUS
    <3>3. accounts \in Seq(AccountRow)
      <4> DEFINE master == NewAccount(AnEmail, "MASTER")
      <4>1. accounts = <<master>> \/ accounts = <<>>
        BY DEF AccountsInit
      <4> HIDE DEF master
      <4>2. master \in AccountRow
        BY <3>1 DEF master
      <4>3. <<master>> = Append(<<>>, master)
        OBVIOUS
      <4>4. Append(<<>>, master) \in Seq(AccountRow)
        BY <3>2, <4>2, AppendProperties
      <4> QED BY <3>2, <4>1, <4>3, <4>4
    <3>4. earlierSessions \in Seq(SessionOfAccount) /\ DOMAIN earlierSessions = {}
      BY <3>2 DEF AccountsInit
    <3> QED BY <3>3, <3>4 DEF AccountRows
  <2>2. CookiesHold
    BY DEF AccountsInit, CookiesHold
  <2> QED BY <2>1, <2>2 DEF AccountsInit, AccountsInv
<1> QED BY <1>1, AccountsInvKept, PTL DEF AccountsSpec

(***************************************************************************)
(* In the earlier tree a request that is sent after a log-out, or after    *)
(* its account was disabled, gets no further than its session and its      *)
(* account, whatever older requests are resolving and touching; and the    *)
(* browser has the two cookies of one login or none.                       *)
(***************************************************************************)
THEOREM EndedAlwaysStaysEnded == AccountsSpec => []EndedStaysEnded
<1>1. AccountsInv => EndedStaysEnded
  BY DEF AccountsInv, RequestHolds, CookiesHold, EndedStaysEnded, Is
<1> QED BY <1>1, AccountsInvHolds, PTL

\* What the bounds on accounts and sessions say of a request.
RequestBounded(r) ==
  /\ r.user \in 0 .. MaxAccounts
  /\ r.csrf \in 0 .. MaxEarlierSessions
  /\ r.read.account \in 1 .. MaxAccounts

AccountsBounded ==
  /\ keptIn \in {"memory", "mysql"}
  /\ Len(accounts) <= MaxAccounts
  /\ Len(earlierSessions) <= MaxEarlierSessions
  /\ \A w \in Windows : requests[w] # NoRequest => RequestBounded(requests[w])

\* A session is of one of the accounts that there may be, and so are cookies.
LEMMA BoundedRows ==
  ASSUME AccountsInv, AccountsBounded
  PROVE  /\ \A s \in DOMAIN earlierSessions :
              earlierSessions[s].account \in 1 .. MaxAccounts
         /\ DOMAIN accounts \subseteq 1 .. MaxAccounts
         /\ cookies.session \in 0 .. MaxEarlierSessions
         /\ cookies.csrf \in 0 .. MaxEarlierSessions
<1>1. /\ DOMAIN accounts = 1 .. Len(accounts) /\ Len(accounts) \in Nat
      /\ Len(earlierSessions) \in Nat
  BY DEF AccountsInv, AccountRows
<1>2. DOMAIN accounts \subseteq 1 .. MaxAccounts
  BY <1>1, EarlierAccountsAssumption DEF AccountsBounded
<1>3. /\ cookies.session \in 0 .. Len(earlierSessions)
      /\ cookies.csrf = cookies.session
  BY DEF AccountsInv, CookiesHold
<1>4. cookies.session \in 0 .. MaxEarlierSessions
  BY <1>1, <1>3, EarlierAccountsAssumption DEF AccountsBounded
<1> QED BY <1>2, <1>3, <1>4 DEF AccountsInv, AccountRows

\* A request that is over names no account.
LEMMA OverBounded ==
  ASSUME NEW w \in Windows, NEW at
  PROVE  /\ RequestBounded(Over(w, at))
         /\ \A a \in 1 .. MaxAccounts : RequestBounded([Over(w, at) EXCEPT !.user = a])
         /\ \A s \in Nat : RequestBounded([Over(w, at) EXCEPT !.session = s])
BY EarlierAccountsAssumption DEF Over, Unread, RequestBounded

\* What a window has next under way.
LEMMA RequestsBounded ==
  ASSUME AccountsInv, AccountsBounded, NEW w \in Windows, NEW next,
         RequestBounded(next) \/ next = NoRequest,
         requests' = [requests EXCEPT ![w] = next]
  PROVE  \A v \in Windows : requests'[v] # NoRequest => RequestBounded(requests'[v])
BY DEF AccountsInv, AccountsBounded, RequestBounded

LEMMA AccountsBoundedKept ==
  ASSUME AccountsInv, AccountsInv', AccountsBounded, [AccountsNext]_accountVars
  PROVE  AccountsBounded'
<1>1. /\ requests \in [Windows -> RequestRow \cup {NoRequest}]
      /\ accounts \in Seq(AccountRow) /\ earlierSessions \in Seq(SessionOfAccount)
      /\ Len(accounts) \in Nat /\ Len(earlierSessions) \in Nat
      /\ \A w \in Windows : requests[w] # NoRequest => RequestBounded(requests[w])
      /\ \A w \in Windows : requests[w] # NoRequest => RequestHolds(requests[w])
  BY DEF AccountsInv, AccountRows, AccountsBounded
<1>2. /\ \A s \in DOMAIN earlierSessions :
           earlierSessions[s].account \in 1 .. MaxAccounts
      /\ DOMAIN accounts \subseteq 1 .. MaxAccounts
      /\ cookies.csrf \in 0 .. MaxEarlierSessions
  BY BoundedRows
<1>3. CASE DisableAccount \/ UNCHANGED accountVars
  BY <1>1, <1>3 DEF DisableAccount, accountVars, AccountsBounded, RequestBounded
<1>4. ASSUME NEW w \in Windows, NEW next,
             RequestBounded(next) \/ next = NoRequest,
             requests' = [requests EXCEPT ![w] = next],
             keptIn' = keptIn,
             Len(accounts') <= MaxAccounts,
             Len(earlierSessions') <= MaxEarlierSessions
      PROVE  AccountsBounded'
  <2>1. \A v \in Windows : requests'[v] # NoRequest => RequestBounded(requests'[v])
    BY <1>4, RequestsBounded
  <2>2. \A v \in Windows : requests'[v] # NoRequest => RequestBounded(requests[v])'
    BY <2>1 DEF RequestBounded
  <2> QED BY <1>4, <2>2 DEF AccountsBounded
<1>5. ASSUME NEW w \in Windows, NEW next, Moves(w, next),
             RequestBounded(next) \/ next = NoRequest
      PROVE  AccountsBounded'
  BY <1>4, <1>5 DEF Moves, AccountsBounded
<1>6. ASSUME NEW w \in Windows, NEW condition, NEW next,
             RefuseUnless(w, condition, next), RequestBounded(next)
      PROVE  AccountsBounded'
  BY <1>5, <1>6, OverBounded DEF RefuseUnless
<1>7. ASSUME NEW w \in Windows, SendRequest(w) \/ RunBootstrap(w)
      PROVE  AccountsBounded'
  <2>1. PICK kind, email : Sends(w, kind, email)
    BY <1>7 DEF SendRequest, RunBootstrap
  <2> DEFINE next == [kind |-> kind, at |-> "SENT", session |-> cookies.session,
        csrf |-> cookies.csrf, read |-> Unread, user |-> 0, email |-> email,
        late |-> Ended(cookies.session)]
  <2>2. RequestBounded(next)
    BY <1>2, EarlierAccountsAssumption DEF RequestBounded, Unread
  <2>3. Moves(w, next)
    BY <2>1 DEF Sends, Moves
  <2> HIDE DEF next
  <2> QED BY <1>5, <2>2, <2>3
<1>8. ASSUME NEW w \in Windows, FindLogin(w)
      PROVE  AccountsBounded'
  <2>1. \A a \in FindByEmail(requests[w].email) :
          RequestBounded([Over(w, "CHECKED") EXCEPT !.user = a])
    BY <1>2, OverBounded DEF FindByEmail
  <2> QED BY <1>5, <1>6, <1>8, <2>1, OverBounded DEF FindLogin
<1>9. ASSUME NEW w \in Windows, CreateSession(w)
      PROVE  AccountsBounded'
  <2> DEFINE next == [Over(w, "ANSWERED") EXCEPT !.session = Len(earlierSessions) + 1]
             row == [account |-> requests[w].user, revoked |-> FALSE]
  <2>1. RequestBounded(next)
    BY EarlierAccountsAssumption DEF Over, Unread, RequestBounded
  <2>2. /\ requests' = [requests EXCEPT ![w] = next]
        /\ UNCHANGED <<keptIn, accounts, cookies>>
        /\ earlierSessions' = Append(earlierSessions, row)
        /\ Len(earlierSessions) < MaxEarlierSessions
    BY <1>9 DEF CreateSession
  <2> HIDE DEF next, row
  <2>3. Len(earlierSessions') = Len(earlierSessions) + 1
    BY <1>1, <2>2
  <2>4. Len(earlierSessions') <= MaxEarlierSessions /\ Len(accounts') <= MaxAccounts
    BY <1>1, <2>2, <2>3, EarlierAccountsAssumption DEF AccountsBounded
  <2> QED BY <1>4, <2>1, <2>2, <2>4
<1>10. ASSUME NEW w \in Windows, FindSession(w)
       PROVE  AccountsBounded'
  <2> DEFINE s == requests[w].session
             next == [requests[w] EXCEPT !.at = "FOUND", !.read = earlierSessions[s],
                                         !.user = earlierSessions[s].account]
  <2>1. /\ requests[w] \in RequestRow /\ requests[w] # NoRequest
        /\ s \in 0 .. Len(earlierSessions)
        /\ RequestBounded(requests[w])
    BY <1>1, <1>10 DEF FindSession, Is, RequestHolds
  <2>2. ASSUME s # 0
        PROVE  RequestBounded(next)
    <3>1. s \in DOMAIN earlierSessions
      BY <1>1, <2>1, <2>2
    <3>2. earlierSessions[s].account \in 1 .. MaxAccounts
      BY <1>2, <3>1
    <3> HIDE DEF s
    <3>3. /\ next.user = earlierSessions[s].account
          /\ next.read.account = earlierSessions[s].account
          /\ next.csrf = requests[w].csrf
      BY <2>1 DEF RequestRow
    <3> QED BY <2>1, <3>2, <3>3 DEF RequestBounded
  <2> HIDE DEF next
  <2>3. \/ s # 0 /\ Moves(w, next)
        \/ Moves(w, Over(w, "REFUSED"))
    BY <1>10 DEF FindSession, FindActiveByTokenHash, next
  <2> HIDE DEF s
  <2> QED BY <1>5, <2>2, <2>3, OverBounded
<1>11. ASSUME NEW w \in Windows, NEW at, requests[w] # NoRequest
       PROVE  RequestBounded([requests[w] EXCEPT !.at = at])
  BY <1>1, <1>11 DEF RequestBounded, RequestRow
<1>12. ASSUME NEW w \in Windows,
              FindUser(w) \/ CheckMe(w) \/ CheckAnalyst(w) \/ CheckBootstrap(w)
       PROVE  AccountsBounded'
  BY <1>6, <1>11, <1>12, OverBounded
     DEF FindUser, CheckMe, CheckAnalyst, CheckBootstrap, Is
<1>13. ASSUME NEW w \in Windows, CheckLogout(w)
       PROVE  AccountsBounded'
  BY <1>6, <1>11, <1>13, OverBounded DEF CheckLogout, Is
<1>14. ASSUME NEW w \in Windows, TouchSession(w) \/ RevokeSession(w)
       PROVE  AccountsBounded'
  <2>1. /\ keptIn' = keptIn /\ accounts' = accounts
        /\ Len(earlierSessions') = Len(earlierSessions)
    BY <1>1, <1>14 DEF TouchSession, RevokeSession
  <2>2. CASE TouchSession(w)
    <3> DEFINE next == [requests[w] EXCEPT !.at = "RESOLVED", !.read = Unread]
    <3>1. requests[w] # NoRequest /\ requests' = [requests EXCEPT ![w] = next]
      BY <2>2 DEF TouchSession, Is
    <3>2. requests[w] \in RequestRow /\ RequestBounded(requests[w])
      BY <1>1, <3>1
    <3>3. RequestBounded(next)
      BY <3>2, EarlierAccountsAssumption DEF RequestBounded, RequestRow, Unread
    <3> HIDE DEF next
    <3> QED BY <1>4, <2>1, <3>1, <3>3 DEF AccountsBounded
  <2>3. CASE RevokeSession(w)
    BY <1>4, <2>1, <2>3, OverBounded DEF RevokeSession, AccountsBounded
  <2> QED BY <1>14, <2>2, <2>3
<1>15. ASSUME NEW w \in Windows, CreateAccount(w)
       PROVE  AccountsBounded'
  <2>1. PICK at \in {"ANSWERED", "REFUSED"} :
          /\ requests' = [requests EXCEPT ![w] = Over(w, at)]
          /\ UNCHANGED <<keptIn, earlierSessions>>
          /\ \/ accounts' = accounts
             \/ /\ Len(accounts) < MaxAccounts
                /\ \E row : accounts' = Append(accounts, row)
    BY <1>15 DEF CreateAccount, MemoryCreates, MySqlCreates
  <2>2. Len(accounts') <= MaxAccounts
    <3>1. ASSUME NEW row, accounts' = Append(accounts, row), Len(accounts) < MaxAccounts
          PROVE  Len(accounts') <= MaxAccounts
      BY <1>1, <3>1, EarlierAccountsAssumption
    <3> QED BY <2>1, <3>1 DEF AccountsBounded
  <2> QED BY <1>4, <2>1, <2>2, OverBounded DEF AccountsBounded
<1>16. ASSUME NEW w \in Windows, TakeAnswer(w) \/ AnswerLost(w)
       PROVE  AccountsBounded'
  BY <1>4, <1>16 DEF TakeAnswer, AnswerLost, AccountsBounded
<1> QED BY <1>3, <1>7, <1>8, <1>9, <1>10, <1>12, <1>13, <1>14, <1>15, <1>16
        DEF AccountsNext

(***************************************************************************)
(* In the earlier tree every row, cookie and request holds what its name   *)
(* says: a session is of an account that there is, and a request names no  *)
(* session but one that was opened.                                        *)
(***************************************************************************)
THEOREM AccountsTypeCorrect == AccountsSpec => []AccountsTypeOK
<1>1. AccountsInit => AccountsBounded
  <2> SUFFICES ASSUME AccountsInit PROVE AccountsBounded
    OBVIOUS
  <2>1. Len(accounts) \in {0, 1} /\ Len(earlierSessions) = 0
    BY DEF AccountsInit
  <2>2. Len(accounts) <= MaxAccounts /\ Len(earlierSessions) <= MaxEarlierSessions
    BY <2>1, EarlierAccountsAssumption
  <2>3. keptIn \in {"memory", "mysql"} /\ \A w \in Windows : requests[w] = NoRequest
    BY DEF AccountsInit
  <2> QED BY <2>2, <2>3 DEF AccountsBounded
<1>2. ASSUME AccountsInv, AccountsBounded
      PROVE  AccountsTypeOK
  <2>1. AnEmail \in Emails
    BY EarlierAccountsAssumption DEF AnEmail
  <2>2. /\ \A s \in DOMAIN earlierSessions :
             earlierSessions[s].account \in 1 .. MaxAccounts
        /\ cookies.session \in 0 .. MaxEarlierSessions
        /\ cookies.csrf \in 0 .. MaxEarlierSessions
    BY <1>2, BoundedRows
  <2>3. AccountRow = Account
    BY <2>1 DEF AccountRow, Account
  <2>4. accounts \in Seq(Account) /\ Len(accounts) <= MaxAccounts
    BY <1>2, <2>3 DEF AccountsInv, AccountRows, AccountsBounded
  <2>5. earlierSessions \in Seq(EarlierSession)
    <3>1. earlierSessions \in Seq(SessionOfAccount)
      BY <1>2 DEF AccountsInv, AccountRows
    <3>2. ASSUME NEW s \in DOMAIN earlierSessions
          PROVE  earlierSessions[s] \in EarlierSession
      <4>1. earlierSessions[s] \in SessionOfAccount
        BY <3>1
      <4> QED BY <2>2, <4>1 DEF SessionOfAccount, EarlierSession
    <3> QED BY <3>1, <3>2
  <2>6. cookies \in [session : 0 .. MaxEarlierSessions, csrf : 0 .. MaxEarlierSessions]
    BY <1>2, <2>2 DEF AccountsInv, CookiesHold
  <2>7. ASSUME NEW w \in Windows, requests[w] # NoRequest
        PROVE  requests[w] \in Request
    <3>1. /\ requests[w] \in RequestRow /\ RequestHolds(requests[w])
          /\ RequestBounded(requests[w])
      BY <1>2, <2>7 DEF AccountsInv, AccountsBounded
    <3>2. requests[w].session \in 0 .. MaxEarlierSessions
      <4>1. requests[w].session \in 0 .. Len(earlierSessions)
        BY <3>1 DEF RequestHolds
      <4>2. Len(earlierSessions) \in Nat /\ Len(earlierSessions) <= MaxEarlierSessions
        BY <1>2, <2>5 DEF AccountsBounded
      <4> QED BY <4>1, <4>2, EarlierAccountsAssumption
    <3>3. requests[w].read \in EarlierSession
      BY <3>1 DEF RequestRow, SessionOfAccount, RequestBounded, EarlierSession
    <3>4. /\ requests[w].user \in 0 .. MaxAccounts
          /\ requests[w].csrf \in 0 .. MaxEarlierSessions
          /\ requests[w].email \in Emails
      BY <2>1, <3>1 DEF RequestRow, RequestBounded
    <3> QED BY <3>1, <3>2, <3>3, <3>4 DEF RequestRow, Request
  <2>8. requests \in [Windows -> Request \cup {NoRequest}]
    BY <1>2, <2>7 DEF AccountsInv
  <2> QED BY <1>2, <2>4, <2>5, <2>6, <2>8 DEF AccountsBounded, AccountsTypeOK
<1>3. AccountsInv /\ AccountsInv' /\ AccountsBounded /\ [AccountsNext]_accountVars
        => AccountsBounded'
  BY AccountsBoundedKept
<1> QED BY <1>1, <1>2, <1>3, AccountsInvHolds, PTL DEF AccountsSpec

-----------------------------------------------------------------------------
(***************************************************************************)
(* The evidence of a signature.                                            *)
(***************************************************************************)

Steps == Appends \cup Others

\* The steps of those that write the original again.
Rewrites ==
  {"original.pdf", "original_sha256", "FOR UPDATE", "repaired.pdf", "repaired_sha256"}

Visit ==
  [todo : Seq(Steps), link : Nat, name : Nat, last : Nat, read : BOOLEAN,
   original : Nat]

EvidenceTypes ==
  /\ links \in Seq({"LIVE", "USED", "EXPIRED"})
  /\ events \in [stored : Nat, whole : BOOLEAN]
  /\ sealed \in Seals
  /\ signedFile \in Nat \cup {NoFile, Broken}
  /\ originalFile \in Nat \cup {Broken} /\ originalHash \in Nat
  /\ visit \in [Visitors -> Visit]
  /\ visits \in Nat /\ crowded \in BOOLEAN /\ secret \in Nat

Owes(todo, name) == \E i \in DOMAIN todo : todo[i] = name

\* Steps that are taken for a payslip that nobody has signed.
Unsigned == {"COMMIT", "signed.pdf"} \cup Rewrites

\* The file is written before the transaction, which comes once; and who
\* signs does not write the original.
InOrder(todo) ==
  /\ \A i, j \in DOMAIN todo :
       todo[i] = "COMMIT" /\ todo[j] \in {"COMMIT", "signed.pdf"} => j <= i
  /\ \A i, j \in DOMAIN todo : todo[i] = "COMMIT" => todo[j] \notin Rewrites

\* What a request has done when it still has those steps to take.
VisitHolds(v) ==
  LET todo == visit[v].todo IN
  /\ InOrder(todo)
  /\ visit[v].read => todo # <<>> /\ Head(todo) \in Appends
  /\ Owes(todo, "COMMIT") /\ Head(todo) # "IDENTITY_VERIFIED" => events.stored > 0

\* A row that is read as signed is the row for good.
SealHolds ==
  /\ Signed => events.stored > 0
  /\ verifying # NoFile /\ verifying.seal.file # NoFile => verifying.seal = sealed

\* While requests do not overlap, the one that is under way has read the last
\* event, the file that is there is its own from the time it is written, and
\* the hash of the original is still the one that it read, if it signs: who
\* writes the original does so before there is a signature.
AloneHolds ==
  ~ crowded =>
    /\ \A v, w \in Visitors : v = w \/ visit[v].todo = <<>> \/ visit[w].todo = <<>>
    /\ events.whole
    /\ \A v \in Visitors :
         LET todo == visit[v].todo IN
         /\ visit[v].read => visit[v].last = events.stored
         /\ (\E name \in Unsigned : Owes(todo, name)) => ~ Signed
         /\ Owes(todo, "COMMIT") => visit[v].original = originalHash
         /\ Owes(todo, "COMMIT") /\ ~ Owes(todo, "signed.pdf")
              => signedFile \in {visit[v].name, Broken}
    /\ Signed => signedFile \in {sealed.file, Broken} /\ sealed.original = originalHash

EvidenceInv ==
  /\ EvidenceTypes
  /\ \A v \in Visitors : VisitHolds(v)
  /\ SealHolds
  /\ AloneHolds

\* What is left of the steps when the first is done.
LEMMA StepsLeft ==
  ASSUME NEW todo \in Seq(Steps), todo # <<>>, InOrder(todo)
  PROVE  /\ Tail(todo) \in Seq(Steps) /\ InOrder(Tail(todo))
         /\ \A name \in Steps : Owes(Tail(todo), name) => Owes(todo, name)
         /\ \A name \in Steps :
               Owes(todo, name) => Owes(Tail(todo), name) \/ Head(todo) = name
         /\ Head(todo) = "COMMIT" => \A name \in Unsigned : ~ Owes(Tail(todo), name)
         /\ Head(todo) \in Rewrites => ~ Owes(Tail(todo), "COMMIT")
<1>1. /\ Tail(todo) \in Seq(Steps) /\ Len(todo) \in Nat /\ DOMAIN todo = 1 .. Len(todo)
      /\ DOMAIN Tail(todo) = 1 .. Len(todo) - 1 /\ Len(todo) >= 1
      /\ \A i \in 1 .. Len(todo) - 1 : Tail(todo)[i] = todo[i + 1]
      /\ Head(todo) = todo[1]
  OBVIOUS
<1>2. \A i \in DOMAIN Tail(todo) : i + 1 \in DOMAIN todo /\ Tail(todo)[i] = todo[i + 1]
  BY <1>1
<1>3. InOrder(Tail(todo))
  BY <1>1, <1>2 DEF InOrder
<1>4. \A name \in Steps : Owes(Tail(todo), name) => Owes(todo, name)
  BY <1>2 DEF Owes
<1>5. ASSUME NEW name \in Steps, Owes(todo, name), Head(todo) # name
      PROVE  Owes(Tail(todo), name)
  <2>1. PICK i \in DOMAIN todo : todo[i] = name
    BY <1>5 DEF Owes
  <2>2. i # 1 /\ i - 1 \in DOMAIN Tail(todo) /\ Tail(todo)[i - 1] = name
    BY <1>1, <1>5, <2>1
  <2> QED BY <2>2 DEF Owes
<1>6. ASSUME Head(todo) = "COMMIT", NEW i \in DOMAIN Tail(todo)
      PROVE  Tail(todo)[i] \notin Unsigned
  BY <1>1, <1>2, <1>6 DEF InOrder, Unsigned
<1>7. ASSUME Head(todo) \in Rewrites, NEW i \in DOMAIN Tail(todo)
      PROVE  Tail(todo)[i] # "COMMIT"
  BY <1>1, <1>2, <1>7 DEF InOrder
<1> QED BY <1>1, <1>3, <1>4, <1>5, <1>6, <1>7 DEF Owes

\* The steps of a signature, as the code takes them.
LEMMA SigningInOrder ==
  /\ Signing \in Seq(Steps) /\ InOrder(Signing) /\ Signing # <<>>
  /\ Head(Signing) = "IDENTITY_VERIFIED" /\ Owes(Signing, "signed.pdf")
  /\ Append(Signing, "used_at") \in Seq(Steps) /\ InOrder(Append(Signing, "used_at"))
  /\ Head(Append(Signing, "used_at")) = "IDENTITY_VERIFIED"
  /\ Append(Signing, "used_at") # <<>> /\ Owes(Append(Signing, "used_at"), "signed.pdf")
<1>1. Signing \in Seq(Steps) /\ Len(Signing) = 8 /\ DOMAIN Signing = 1 .. 8
      /\ Signing[1] = "IDENTITY_VERIFIED" /\ Signing[5] = "signed.pdf"
      /\ \A i \in 1 .. 8 : (Signing[i] = "COMMIT" => i = 6)
                           /\ (Signing[i] = "signed.pdf" => i = 5)
                           /\ Signing[i] \notin Rewrites
  BY DEF Signing, Steps, Appends, Others, Rewrites
<1>2. InOrder(Signing) /\ Owes(Signing, "signed.pdf")
  BY <1>1 DEF InOrder, Owes
<1> DEFINE longer == Append(Signing, "used_at")
<1>3. /\ longer \in Seq(Steps) /\ DOMAIN longer = 1 .. 9 /\ longer[9] = "used_at"
      /\ longer # <<>> /\ \A i \in 1 .. 8 : longer[i] = Signing[i]
  <2>1. "used_at" \in Steps
    BY DEF Steps, Others
  <2>2. /\ longer \in Seq(Steps) /\ longer # <<>>
        /\ Len(longer) = Len(Signing) + 1
        /\ \A i \in 1 .. Len(Signing) : longer[i] = Signing[i]
        /\ longer[Len(Signing) + 1] = "used_at"
    <3>1. ASSUME NEW s \in Seq(Steps), NEW x \in Steps
          PROVE  /\ Append(s, x) \in Seq(Steps) /\ Append(s, x) # <<>>
                 /\ Len(Append(s, x)) = Len(s) + 1
                 /\ \A i \in 1 .. Len(s) : Append(s, x)[i] = s[i]
                 /\ Append(s, x)[Len(s) + 1] = x
      BY AppendProperties
    <3>2. Signing \in Seq(Steps)
      BY <1>1
    <3> QED BY <2>1, <3>1, <3>2
  <2>3. Len(longer) = 9 /\ DOMAIN longer = 1 .. Len(longer)
    BY <1>1, <2>2
  <2> QED BY <1>1, <2>2, <2>3
<1> HIDE DEF longer
<1>4. InOrder(longer) /\ Owes(longer, "signed.pdf") /\ longer # <<>>
  <2>1. ASSUME NEW i \in 1 .. 9, NEW j \in 1 .. 9,
               longer[i] = "COMMIT", longer[j] \in {"COMMIT", "signed.pdf"}
        PROVE  j <= i
    <3>1. i \in 1 .. 8 /\ j \in 1 .. 8
      BY <1>3, <2>1
    <3> QED BY <1>1, <1>3, <2>1, <3>1
  <2>2. 5 \in DOMAIN longer /\ longer[5] = "signed.pdf"
    BY <1>1, <1>3
  <2>3. \A j \in 1 .. 9 : longer[j] \notin Rewrites
    <3>1. \A j \in 1 .. 9 : j \in 1 .. 8 \/ j = 9
      OBVIOUS
    <3>2. "used_at" \notin Rewrites
      BY DEF Rewrites
    <3> QED BY <1>1, <1>3, <3>1, <3>2
  <2> QED BY <1>3, <2>1, <2>2, <2>3 DEF InOrder, Owes
<1>5. longer[1] = "IDENTITY_VERIFIED"
  BY <1>1, <1>3
<1> QED BY <1>1, <1>2, <1>3, <1>4, <1>5 DEF longer

\* A step taken by one request keeps the invariant, if what it does to the
\* rows and to the file agrees with the steps that are left.
LEMMA StepTaken ==
  ASSUME EvidenceInv, NEW v \in Visitors, visit[v].todo # <<>>, StepDone(v),
         UNCHANGED <<verifying, visits, secret, crowded>>,
         links' \in Seq({"LIVE", "USED", "EXPIRED"}),
         events' \in [stored : Nat, whole : BOOLEAN], sealed' \in Seals,
         signedFile' \in Nat \cup {NoFile, Broken},
         originalFile' \in Nat \cup {Broken}, originalHash' \in Nat,
         events.stored > 0 => events'.stored > 0,
         Head(visit[v].todo) = "IDENTITY_VERIFIED" => events'.stored > 0,
         SealHolds',
         NEW left, left = Tail(visit[v].todo),
         ~ crowded =>
           /\ events'.whole
           /\ (\E name \in Unsigned : Owes(left, name)) => ~ Signed'
           /\ Owes(left, "COMMIT") => visit[v].original = originalHash'
           /\ Owes(left, "COMMIT") /\ ~ Owes(left, "signed.pdf")
                => signedFile' \in {visit[v].name, Broken}
           /\ Signed' => /\ signedFile' \in {sealed'.file, Broken}
                         /\ sealed'.original = originalHash'
  PROVE  EvidenceInv'
<1>1. visit[v] \in Visit /\ visit[v].todo \in Seq(Steps) /\ InOrder(visit[v].todo)
      /\ visit \in [Visitors -> Visit]
  BY DEF EvidenceInv, EvidenceTypes, VisitHolds, Visit
<1>2. /\ left \in Seq(Steps) /\ InOrder(left)
      /\ \A name \in Steps : Owes(left, name) => Owes(visit[v].todo, name)
  BY <1>1, StepsLeft
<1> DEFINE next == [visit[v] EXCEPT !.todo = left, !.read = FALSE, !.last = 0]
<1>3. /\ next \in Visit /\ next.todo = left /\ next.read = FALSE /\ next.last = 0
      /\ next.name = visit[v].name /\ next.original = visit[v].original
  BY <1>1, <1>2 DEF Visit
<1>4. visit' = [visit EXCEPT ![v] = next]
  BY DEF StepDone
<1> HIDE DEF next
<1>5. visit'[v] = next /\ \A w \in Visitors \ {v} : visit'[w] = visit[w]
  BY <1>1, <1>4
<1>6. EvidenceTypes'
  BY <1>3, <1>4 DEF EvidenceInv, EvidenceTypes
<1>7. ASSUME NEW w \in Visitors PROVE VisitHolds(w)'
  <2>1. CASE w = v
    <3>1. "COMMIT" \in Steps
      BY DEF Steps, Others
    <3>2. Owes(left, "COMMIT") => events'.stored > 0
      BY <1>2, <3>1 DEF EvidenceInv, VisitHolds
    <3> QED BY <1>2, <1>3, <1>5, <2>1, <3>2 DEF VisitHolds
  <2>2. CASE w # v
    BY <1>5, <2>2 DEF EvidenceInv, VisitHolds
  <2> QED BY <2>1, <2>2
<1>8. AloneHolds'
  <2> SUFFICES ASSUME ~ crowded PROVE AloneHolds'
    BY DEF AloneHolds
  <2>1. \A w \in Visitors \ {v} : visit'[w].todo = <<>> /\ ~ visit'[w].read
    BY <1>5 DEF EvidenceInv, AloneHolds, VisitHolds
  <2>2. \A w \in Visitors \ {v}, name \in Steps : ~ Owes(visit'[w].todo, name)
    BY <2>1 DEF Owes
  <2>3. "COMMIT" \in Steps /\ "signed.pdf" \in Steps /\ Unsigned \subseteq Steps
    BY DEF Steps, Others, Unsigned, Rewrites
  <2>4. ASSUME NEW w \in Visitors
        PROVE  LET todo == visit'[w].todo IN
               /\ visit'[w].read => visit'[w].last = events'.stored
               /\ (\E name \in Unsigned : Owes(todo, name)) => ~ Signed'
               /\ Owes(todo, "COMMIT") => visit'[w].original = originalHash'
               /\ Owes(todo, "COMMIT") /\ ~ Owes(todo, "signed.pdf")
                    => signedFile' \in {visit'[w].name, Broken}
    <3>1. CASE w = v
      BY <1>3, <1>5, <3>1
    <3>2. CASE w # v
      BY <2>1, <2>2, <2>3, <3>2
    <3> QED BY <3>1, <3>2
  <2>5. \A w, o \in Visitors : w = o \/ visit'[w].todo = <<>> \/ visit'[o].todo = <<>>
    BY <2>1
  <2> QED BY <2>4, <2>5 DEF AloneHolds
<1> QED BY <1>6, <1>7, <1>8 DEF EvidenceInv

\* A request arrives: it overlaps with the others, or there is no other.
LEMMA Arriving ==
  ASSUME EvidenceInv, NEW v \in Visitors, NEW todo \in Seq(Steps), NEW link \in Nat,
         Arrives(v, todo, link), links' \in Seq({"LIVE", "USED", "EXPIRED"}),
         todo # <<>>, InOrder(todo),
         Owes(todo, "COMMIT") =>
           Head(todo) = "IDENTITY_VERIFIED" /\ Owes(todo, "signed.pdf"),
         (\E name \in Unsigned : Owes(todo, name)) => ~ Signed
  PROVE  EvidenceInv'
<1> DEFINE next == [Away EXCEPT !.todo = todo, !.link = link, !.name = visits + 1,
                                !.original = originalHash]
<1>1. /\ visit \in [Visitors -> Visit] /\ visits + 1 \in Nat /\ originalHash \in Nat
      /\ UNCHANGED <<events, sealed, signedFile, originalFile, originalHash, verifying,
                     secret>>
      /\ visits' = visits + 1
  BY DEF EvidenceInv, EvidenceTypes, Arrives, original
<1>2. next \in Visit /\ next.todo = todo /\ next.read = FALSE
      /\ next.original = originalHash
  BY <1>1 DEF Away, Visit
<1>3. visit' = [visit EXCEPT ![v] = next]
  BY DEF Arrives
<1> HIDE DEF next
<1>4. visit'[v] = next /\ \A w \in Visitors \ {v} : visit'[w] = visit[w]
  BY <1>1, <1>3
<1>5. EvidenceTypes'
  <2>1. crowded' \in BOOLEAN
    BY Zenon DEF EvidenceInv, EvidenceTypes, Arrives
  <2> QED BY <1>1, <1>2, <1>3, <2>1 DEF EvidenceInv, EvidenceTypes
<1>6. ASSUME NEW w \in Visitors PROVE VisitHolds(w)'
  <2>1. CASE w = v
    BY <1>2, <1>4, <2>1 DEF VisitHolds
  <2>2. CASE w # v
    BY <1>1, <1>4, <2>2 DEF EvidenceInv, VisitHolds
  <2> QED BY <2>1, <2>2
<1>7. SealHolds'
  BY <1>1 DEF EvidenceInv, SealHolds, Signed
<1>8. AloneHolds'
  <2> SUFFICES ASSUME ~ crowded' PROVE AloneHolds'
    BY DEF AloneHolds
  <2>1. ~ crowded /\ \A w \in Visitors \ {v} : visit[w].todo = <<>>
    BY DEF Arrives
  <2>2. \A w \in Visitors \ {v} : visit'[w].todo = <<>> /\ ~ visit'[w].read
    BY <1>4, <2>1 DEF EvidenceInv, VisitHolds
  <2>3. \A w \in Visitors \ {v}, name \in Steps : ~ Owes(visit'[w].todo, name)
    BY <2>2 DEF Owes
  <2>4. "COMMIT" \in Steps /\ "signed.pdf" \in Steps /\ Unsigned \subseteq Steps
    BY DEF Steps, Others, Unsigned, Rewrites
  <2>5. ASSUME NEW w \in Visitors
        PROVE  LET doing == visit'[w].todo IN
               /\ visit'[w].read => visit'[w].last = events'.stored
               /\ (\E name \in Unsigned : Owes(doing, name)) => ~ Signed'
               /\ Owes(doing, "COMMIT") => visit'[w].original = originalHash'
               /\ Owes(doing, "COMMIT") /\ ~ Owes(doing, "signed.pdf")
                    => signedFile' \in {visit'[w].name, Broken}
    <3>1. CASE w = v
      BY <1>1, <1>2, <1>4, <3>1 DEF Signed
    <3>2. CASE w # v
      BY <2>2, <2>3, <2>4, <3>2
    <3> QED BY <3>1, <3>2
  <2>6. \A w, o \in Visitors : w = o \/ visit'[w].todo = <<>> \/ visit'[o].todo = <<>>
    BY <2>2
  <2>7. /\ events'.whole
        /\ Signed' => /\ signedFile' \in {sealed'.file, Broken}
                      /\ sealed'.original = originalHash'
    BY <1>1, <2>1 DEF EvidenceInv, AloneHolds, Signed
  <2> QED BY <2>5, <2>6, <2>7 DEF AloneHolds
<1> QED BY <1>5, <1>6, <1>7, <1>8 DEF EvidenceInv

\* A short visit takes no step that needs the payslip unsigned.
LEMMA ShortVisits ==
  ASSUME NEW first \in Appends, NEW second \in Appends
  PROVE  /\ <<first>> \in Seq(Steps) /\ InOrder(<<first>>) /\ <<first>> # <<>>
         /\ \A name \in Unsigned : ~ Owes(<<first>>, name)
         /\ <<first, second>> \in Seq(Steps) /\ InOrder(<<first, second>>)
         /\ <<first, second>> # <<>>
         /\ \A name \in Unsigned : ~ Owes(<<first, second>>, name)
<1>1. /\ first \in Steps /\ second \in Steps
      /\ first \notin Unsigned /\ second \notin Unsigned
  BY DEF Appends, Steps, Unsigned, Rewrites
<1>2. /\ <<first>> \in Seq(Steps) /\ DOMAIN <<first>> = 1 .. 1 /\ <<first>>[1] = first
      /\ <<first>> # <<>>
  <2>1. <<first>> = Append(<<>>, first) /\ <<>> \in Seq(Steps) /\ Len(<<>>) = 0
    OBVIOUS
  <2>2. Append(<<>>, first) \in Seq(Steps) /\ Append(<<>>, first) # <<>>
        /\ Len(Append(<<>>, first)) = 1 /\ Append(<<>>, first)[1] = first
    BY <1>1, <2>1, AppendProperties
  <2> QED BY <2>1, <2>2
<1>3. /\ <<first, second>> \in Seq(Steps) /\ DOMAIN <<first, second>> = 1 .. 2
      /\ <<first, second>>[1] = first /\ <<first, second>>[2] = second
      /\ <<first, second>> # <<>>
  BY <1>1
<1>4. "COMMIT" \in Unsigned /\ "signed.pdf" \in Unsigned
  BY DEF Unsigned
<1> QED BY <1>1, <1>2, <1>3, <1>4 DEF InOrder, Owes

\* Three steps in a row.
LEMMA ThreeSteps ==
  ASSUME NEW a \in Steps, NEW b \in Steps, NEW c \in Steps,
         a # "COMMIT", b # "COMMIT", c # "COMMIT"
  PROVE  /\ <<a, b, c>> \in Seq(Steps) /\ <<a, b, c>> # <<>>
         /\ \A i \in DOMAIN <<a, b, c>> : <<a, b, c>>[i] \notin {"COMMIT"}
<1>1. /\ <<a, b, c>> \in Seq(Steps) /\ DOMAIN <<a, b, c>> = 1 .. 3
  OBVIOUS
<1>2. <<a, b, c>> # <<>>
  OBVIOUS
<1>3. \A i \in 1 .. 3 : i = 1 \/ i = 2 \/ i = 3
  OBVIOUS
<1> QED BY <1>1, <1>2, <1>3

\* Those that write the original do not sign.
LEMMA RewritingInOrder ==
  /\ Rewriting \in Seq(Steps) /\ InOrder(Rewriting) /\ Rewriting # <<>>
  /\ ~ Owes(Rewriting, "COMMIT")
  /\ Repairing \in Seq(Steps) /\ InOrder(Repairing) /\ Repairing # <<>>
  /\ ~ Owes(Repairing, "COMMIT")
<1>1. /\ Rewriting \in Seq(Steps) /\ Rewriting # <<>>
      /\ \A i \in DOMAIN Rewriting : Rewriting[i] \notin {"COMMIT"}
  BY DEF Rewriting, Steps, Others
<1>2. /\ Repairing \in Seq(Steps) /\ Repairing # <<>>
      /\ \A i \in DOMAIN Repairing : Repairing[i] \notin {"COMMIT"}
  <2>1. /\ "FOR UPDATE" \in Steps /\ "repaired.pdf" \in Steps
        /\ "repaired_sha256" \in Steps
    BY DEF Steps, Others
  <2>2. Repairing = <<"FOR UPDATE", "repaired.pdf", "repaired_sha256">>
    BY DEF Repairing
  <2> QED BY <2>1, <2>2, ThreeSteps
<1> QED BY <1>1, <1>2 DEF InOrder, Owes

\* Links are made and opened, signatures begun, and originals written again.
LEMMA ArrivalsKeepInv ==
  ASSUME EvidenceInv, NEW v \in Visitors,
         \/ CreateLink(v) \/ OpenLink(v) \/ VerifyIdentity(v)
         \/ SignFromPortal(v) \/ SignFromLink(v)
         \/ RewriteOriginal(v) \/ RepairOriginal(v)
  PROVE  EvidenceInv'
<1>1. {"LINK_CREATED", "LINK_OPENED", "IDENTITY_VERIFIED", "DOCUMENT_VIEWED"}
        \subseteq Appends
  BY DEF Appends
<1>2. /\ DOMAIN links \subseteq Nat
      /\ links' \in Seq({"LIVE", "USED", "EXPIRED"})
  <2>1. links \in Seq({"LIVE", "USED", "EXPIRED"})
    BY DEF EvidenceInv, EvidenceTypes
  <2>2. links' = links \/ links' = Append(links, "LIVE")
    BY DEF CreateLink, OpenLink, VerifyIdentity, SignFromPortal, SignFromLink,
           RewriteOriginal, RepairOriginal
  <2> QED BY <2>1, <2>2
<1>8. "COMMIT" \in Unsigned
  BY DEF Unsigned
<1>3. CASE CreateLink(v)
  BY <1>1, <1>2, <1>3, <1>8, ShortVisits, Arriving, 0 \in Nat DEF CreateLink
<1>4. CASE OpenLink(v)
  BY <1>1, <1>2, <1>4, <1>8, ShortVisits, Arriving DEF OpenLink
<1>5. CASE VerifyIdentity(v)
  BY <1>1, <1>2, <1>5, <1>8, ShortVisits, Arriving DEF VerifyIdentity
<1>6. CASE SignFromPortal(v)
  BY <1>2, <1>6, SigningInOrder, Arriving, 0 \in Nat DEF SignFromPortal
<1>7. CASE SignFromLink(v)
  BY <1>2, <1>7, SigningInOrder, Arriving DEF SignFromLink
<1>9. CASE RewriteOriginal(v) \/ RepairOriginal(v)
  BY <1>2, <1>9, RewritingInOrder, Arriving, 0 \in Nat
     DEF RewriteOriginal, RepairOriginal, Rewritable
<1> QED BY <1>3, <1>4, <1>5, <1>6, <1>7, <1>9

\* The last event is read, and the next one inserted after it.
LEMMA AppendingKeepsInv ==
  ASSUME EvidenceInv, NEW v \in Visitors, AppendReads(v) \/ AppendInserts(v)
  PROVE  EvidenceInv'
<1>1. /\ visit \in [Visitors -> Visit] /\ visit[v] \in Visit
      /\ visit[v].todo \in Seq(Steps) /\ InOrder(visit[v].todo)
      /\ events \in [stored : Nat, whole : BOOLEAN] /\ events.stored \in Nat
      /\ events.whole \in BOOLEAN
  BY DEF EvidenceInv, EvidenceTypes, VisitHolds, Visit
<1>2. CASE AppendReads(v)
  <2> DEFINE next == [visit[v] EXCEPT !.read = TRUE, !.last = events.stored]
  <2>1. /\ next \in Visit /\ next.todo = visit[v].todo /\ next.name = visit[v].name
        /\ next.last = events.stored /\ next.original = visit[v].original
    BY <1>1 DEF Visit
  <2>2. visit' = [visit EXCEPT ![v] = next]
    BY <1>2 DEF AppendReads, LastHash
  <2> HIDE DEF next
  <2>3. visit'[v] = next /\ \A w \in Visitors \ {v} : visit'[w] = visit[w]
    BY <1>1, <2>2
  <2>4. visit[v].todo # <<>> /\ Head(visit[v].todo) \in Appends
    BY <1>2 DEF AppendReads, Step
  <2>5. UNCHANGED <<events, links, sealed, signedFile, originalFile, originalHash,
                    verifying, visits, crowded, secret>>
    BY <1>2 DEF AppendReads, original
  <2>6. EvidenceTypes'
    BY <2>1, <2>2, <2>5 DEF EvidenceInv, EvidenceTypes
  <2>7. \A w \in Visitors : VisitHolds(w)'
    BY <2>1, <2>3, <2>4, <2>5 DEF EvidenceInv, VisitHolds
  <2>8. SealHolds'
    BY <2>5 DEF EvidenceInv, SealHolds, Signed
  <2>9. AloneHolds'
    BY <2>1, <2>3, <2>5 DEF EvidenceInv, AloneHolds, Signed
  <2> QED BY <2>6, <2>7, <2>8, <2>9 DEF EvidenceInv
<1>3. CASE AppendInserts(v)
  <2> DEFINE left == Tail(visit[v].todo)
  <2>1. visit[v].todo # <<>> /\ Head(visit[v].todo) \in Appends
    BY <1>3 DEF AppendInserts, EvidenceInv, VisitHolds
  <2>2. /\ events' = [stored |-> events.stored + 1,
                      whole |-> (events.whole /\ visit[v].last = events.stored)]
        /\ StepDone(v) /\ visit[v].read
        /\ UNCHANGED <<links, sealed, signedFile, originalFile, originalHash,
                       verifying, visits, crowded, secret>>
    BY <1>3 DEF AppendInserts, original
  <2>3. (events.whole /\ visit[v].last = events.stored) \in BOOLEAN
    BY Zenon
  <2>4. /\ events' \in [stored : Nat, whole : BOOLEAN] /\ events'.stored > 0
        /\ events'.whole = (events.whole /\ visit[v].last = events.stored)
    BY <1>1, <2>2, <2>3
  <2>5. SealHolds'
    BY <2>2, <2>4 DEF EvidenceInv, SealHolds, Signed
  <2>6. \A name \in {"COMMIT", "signed.pdf"} \cup Unsigned :
          Owes(left, name) <=> Owes(visit[v].todo, name)
    BY <1>1, <2>1, StepsLeft DEF Steps, Appends, Others, Unsigned, Rewrites
  <2>7. ~ crowded =>
          /\ events'.whole
          /\ (\E name \in Unsigned : Owes(left, name)) => ~ Signed'
          /\ Owes(left, "COMMIT") => visit[v].original = originalHash'
          /\ Owes(left, "COMMIT") /\ ~ Owes(left, "signed.pdf")
               => signedFile' \in {visit[v].name, Broken}
          /\ Signed' => /\ signedFile' \in {sealed'.file, Broken}
                        /\ sealed'.original = originalHash'
    BY <2>2, <2>4, <2>6 DEF EvidenceInv, AloneHolds, Signed
  <2>8. /\ sealed' \in Seals /\ signedFile' \in Nat \cup {NoFile, Broken}
        /\ originalFile' \in Nat \cup {Broken} /\ originalHash' \in Nat
        /\ links' \in Seq({"LIVE", "USED", "EXPIRED"})
    BY <2>2 DEF EvidenceInv, EvidenceTypes
  <2> QED BY <2>1, <2>2, <2>4, <2>5, <2>7, <2>8, StepTaken
<1> QED BY <1>2, <1>3

\* The file, the transaction, and the link that is used up.
LEMMA SigningKeepsInv ==
  ASSUME EvidenceInv, NEW v \in Visitors,
         WriteSigned(v) \/ CommitSignature(v) \/ UseLink(v)
  PROVE  EvidenceInv'
<1> DEFINE todo == visit[v].todo
           left == Tail(visit[v].todo)
<1>1. /\ visit[v] \in Visit /\ visit[v].name \in Nat
      /\ todo \in Seq(Steps) /\ InOrder(todo)
      /\ events \in [stored : Nat, whole : BOOLEAN] /\ sealed \in Seals
      /\ signedFile \in Nat \cup {NoFile, Broken} /\ secret \in Nat
      /\ originalFile \in Nat \cup {Broken} /\ originalHash \in Nat
      /\ visit[v].original \in Nat /\ NoFile \notin Nat
  BY SignatureEvidenceAssumption DEF EvidenceInv, EvidenceTypes, VisitHolds, Visit
<1>2. /\ todo # <<>> /\ Head(todo) \in {"signed.pdf", "COMMIT", "used_at"} /\ StepDone(v)
      /\ UNCHANGED <<events, originalFile, originalHash, verifying, visits, crowded,
                     secret>>
  BY DEF WriteSigned, CommitSignature, UseLink, Step, original
<1>3. /\ \A name \in Unsigned : Owes(left, name) => Owes(todo, name)
      /\ \A name \in {"COMMIT", "signed.pdf"} :
           Owes(todo, name) => Owes(left, name) \/ Head(todo) = name
      /\ Head(todo) = "COMMIT" => \A name \in Unsigned : ~ Owes(left, name)
      /\ "COMMIT" \in Unsigned /\ "signed.pdf" \in Unsigned
  BY <1>1, <1>2, StepsLeft DEF Steps, Others, Unsigned, Rewrites
<1>4. /\ todo[1] = Head(todo) /\ 1 \in DOMAIN todo
      /\ Owes(todo, Head(todo))
  BY <1>1, <1>2 DEF Owes
<1>5. links' \in Seq({"LIVE", "USED", "EXPIRED"})
  <2>1. links \in Seq({"LIVE", "USED", "EXPIRED"})
    BY DEF EvidenceInv, EvidenceTypes
  <2>2. \/ links' = links
        \/ \E l \in Nat : links' = [links EXCEPT ![l] = "USED"]
    BY <1>1 DEF WriteSigned, CommitSignature, UseLink, Visit
  <2> QED BY <2>1, <2>2
<1>6. CASE WriteSigned(v)
  <2>1. signedFile' = visit[v].name /\ sealed' = sealed /\ Head(todo) = "signed.pdf"
    BY <1>6 DEF WriteSigned, Step
  <2>2. SealHolds'
    BY <1>2, <2>1 DEF EvidenceInv, SealHolds, Signed
  <2>3. ~ crowded =>
          /\ events'.whole
          /\ (\E name \in Unsigned : Owes(left, name)) => ~ Signed'
          /\ Owes(left, "COMMIT") => visit[v].original = originalHash'
          /\ Owes(left, "COMMIT") /\ ~ Owes(left, "signed.pdf")
               => signedFile' \in {visit[v].name, Broken}
          /\ Signed' => /\ signedFile' \in {sealed'.file, Broken}
                        /\ sealed'.original = originalHash'
    BY <1>2, <1>3, <1>4, <2>1 DEF EvidenceInv, AloneHolds, Signed
  <2> QED BY <1>1, <1>2, <1>5, <2>1, <2>2, <2>3, StepTaken
<1>7. CASE CommitSignature(v)
  <2>1. /\ signedFile' = signedFile /\ Head(todo) = "COMMIT" /\ ~ Signed
        /\ sealed' = [file |-> visit[v].name, secret |-> secret,
                      original |-> visit[v].original]
    BY <1>7 DEF CommitSignature, Step
  <2>2. /\ sealed' \in Seals /\ sealed'.file = visit[v].name /\ Signed'
        /\ sealed'.original = visit[v].original
    BY <1>1, <2>1 DEF Seals, Signed
  <2>3. events.stored > 0
    BY <1>4, <2>1 DEF EvidenceInv, VisitHolds
  <2>4. SealHolds'
    <3>1. ~ (verifying # NoFile /\ verifying.seal.file # NoFile)
      BY <2>1 DEF EvidenceInv, SealHolds, Signed
    <3> QED BY <1>2, <2>3, <3>1 DEF SealHolds
  <2>5. ~ crowded => /\ signedFile \in {visit[v].name, Broken}
                     /\ visit[v].original = originalHash
    <3>1. ~ Owes(todo, "signed.pdf")
      BY <1>3, <2>1
    <3> QED BY <1>4, <2>1, <3>1 DEF EvidenceInv, AloneHolds
  <2>6. ~ crowded =>
          /\ events'.whole
          /\ (\E name \in Unsigned : Owes(left, name)) => ~ Signed'
          /\ Owes(left, "COMMIT") => visit[v].original = originalHash'
          /\ Owes(left, "COMMIT") /\ ~ Owes(left, "signed.pdf")
               => signedFile' \in {visit[v].name, Broken}
          /\ Signed' => /\ signedFile' \in {sealed'.file, Broken}
                        /\ sealed'.original = originalHash'
    BY <1>2, <1>3, <2>1, <2>2, <2>5 DEF EvidenceInv, AloneHolds
  <2> QED BY <1>1, <1>2, <1>5, <2>1, <2>2, <2>3, <2>4, <2>6, StepTaken
<1>8. CASE UseLink(v)
  <2>1. signedFile' = signedFile /\ sealed' = sealed /\ Head(todo) = "used_at"
    BY <1>8 DEF UseLink, Step
  <2>2. SealHolds'
    BY <1>2, <2>1 DEF EvidenceInv, SealHolds, Signed
  <2>3. ~ crowded =>
          /\ events'.whole
          /\ (\E name \in Unsigned : Owes(left, name)) => ~ Signed'
          /\ Owes(left, "COMMIT") => visit[v].original = originalHash'
          /\ Owes(left, "COMMIT") /\ ~ Owes(left, "signed.pdf")
               => signedFile' \in {visit[v].name, Broken}
          /\ Signed' => /\ signedFile' \in {sealed'.file, Broken}
                        /\ sealed'.original = originalHash'
    BY <1>2, <1>3, <2>1 DEF EvidenceInv, AloneHolds, Signed
  <2> QED BY <1>1, <1>2, <1>5, <2>1, <2>2, <2>3, StepTaken
<1> QED BY <1>6, <1>7, <1>8

\* The original is written again, and recorded: nobody has signed, unless
\* requests have overlapped, and this request does not.
LEMMA RewritingKeepsInv ==
  ASSUME EvidenceInv, NEW v \in Visitors,
         LockPayslip(v) \/ WriteOriginal(v) \/ RecordOriginal(v)
  PROVE  EvidenceInv'
<1> DEFINE todo == visit[v].todo
           left == Tail(visit[v].todo)
<1>1. /\ visit[v] \in Visit /\ visit[v].name \in Nat
      /\ todo \in Seq(Steps) /\ InOrder(todo)
      /\ events \in [stored : Nat, whole : BOOLEAN] /\ sealed \in Seals
      /\ signedFile \in Nat \cup {NoFile, Broken}
      /\ originalFile \in Nat \cup {Broken} /\ originalHash \in Nat
      /\ links \in Seq({"LIVE", "USED", "EXPIRED"})
  BY DEF EvidenceInv, EvidenceTypes, VisitHolds, Visit
<1>2. /\ todo # <<>> /\ Head(todo) \in Rewrites /\ StepDone(v)
      /\ UNCHANGED <<events, links, sealed, signedFile, verifying, visits, crowded,
                     secret>>
      /\ originalFile' \in {originalFile, visit[v].name}
      /\ originalHash' \in {originalHash, visit[v].name}
  BY DEF LockPayslip, WriteOriginal, RecordOriginal, Step, original, Rewrites
<1>3. /\ \A name \in Unsigned : Owes(left, name) => Owes(todo, name)
      /\ ~ Owes(left, "COMMIT")
      /\ Head(todo) \in Unsigned /\ Head(todo) # "IDENTITY_VERIFIED"
  BY <1>1, <1>2, StepsLeft DEF Steps, Others, Unsigned, Rewrites
<1>4. Owes(todo, Head(todo))
  BY <1>1, <1>2 DEF Owes
<1>5. SealHolds'
  BY <1>2 DEF EvidenceInv, SealHolds, Signed
<1>6. ~ crowded => ~ Signed /\ events.whole
  BY <1>3, <1>4 DEF EvidenceInv, AloneHolds
<1>7. /\ originalFile' \in Nat \cup {Broken} /\ originalHash' \in Nat
      /\ sealed' \in Seals /\ signedFile' \in Nat \cup {NoFile, Broken}
      /\ events' \in [stored : Nat, whole : BOOLEAN]
      /\ links' \in Seq({"LIVE", "USED", "EXPIRED"})
  BY <1>1, <1>2
<1>8. ~ crowded =>
        /\ events'.whole
        /\ ~ Signed'
        /\ ~ Owes(left, "COMMIT")
  BY <1>2, <1>3, <1>6 DEF Signed
<1> QED BY <1>2, <1>3, <1>5, <1>7, <1>8, StepTaken

\* A request ends anywhere.
LEMMA VisitEndsKeepsInv ==
  ASSUME EvidenceInv, NEW v \in Visitors, VisitEnds(v)
  PROVE  EvidenceInv'
<1>1. /\ Away \in Visit /\ Away.todo = <<>> /\ Away.read = FALSE
  BY DEF Away, Visit
<1>2. /\ visit' = [visit EXCEPT ![v] = Away] /\ visit \in [Visitors -> Visit]
      /\ UNCHANGED <<events, links, sealed, signedFile, originalFile, originalHash,
                     verifying, visits, crowded, secret>>
  BY DEF EvidenceInv, EvidenceTypes, VisitEnds, original
<1>3. visit'[v] = Away /\ \A w \in Visitors \ {v} : visit'[w] = visit[w]
  BY <1>2
<1>4. EvidenceTypes'
  BY <1>1, <1>2 DEF EvidenceInv, EvidenceTypes
<1>5. \A name \in Steps : ~ Owes(<<>>, name)
  BY DEF Owes
<1>6. /\ InOrder(<<>>) /\ "COMMIT" \in Steps /\ "signed.pdf" \in Steps
      /\ Unsigned \subseteq Steps
  BY DEF InOrder, Steps, Others, Unsigned, Rewrites
<1>7. \A w \in Visitors : VisitHolds(w)'
  BY <1>1, <1>2, <1>3, <1>5, <1>6 DEF EvidenceInv, VisitHolds
<1>8. SealHolds'
  BY <1>2 DEF EvidenceInv, SealHolds, Signed
<1>9. AloneHolds'
  BY <1>1, <1>2, <1>3, <1>5, <1>6 DEF EvidenceInv, AloneHolds, Signed
<1> QED BY <1>4, <1>7, <1>8, <1>9 DEF EvidenceInv

\* Links expire, files get lost, and somebody verifies, at any time.
LEMMA AroundKeepsInv ==
  ASSUME EvidenceInv, LinkExpires \/ Mishap \/ VerifyReads \/ VerifyEnds
  PROVE  EvidenceInv'
<1>1. /\ UNCHANGED <<events, sealed, originalHash, visit, visits, crowded>>
      /\ signedFile' \in {signedFile, Broken} /\ originalFile' \in {originalFile, Broken}
      /\ secret' \in {secret, 1}
      /\ verifying' \in {verifying, [seal |-> sealed, original |-> originalHash], NoFile}
      /\ links' = links \/ \E l \in DOMAIN links : links' = [links EXCEPT ![l] = "EXPIRED"]
  BY DEF LinkExpires, Mishap, VerifyReads, VerifyEnds, original
<1>2. EvidenceTypes'
  BY <1>1 DEF EvidenceInv, EvidenceTypes
<1>3. \A v \in Visitors : VisitHolds(v)'
  BY <1>1 DEF EvidenceInv, VisitHolds
<1>4. SealHolds'
  BY <1>1 DEF EvidenceInv, SealHolds, Signed
<1>5. AloneHolds'
  BY <1>1 DEF EvidenceInv, AloneHolds, Signed
<1> QED BY <1>2, <1>3, <1>4, <1>5 DEF EvidenceInv

\* Every step keeps the invariant.
LEMMA EvidenceInvKept ==
  ASSUME EvidenceInv, [EvidenceNext]_evidenceVars
  PROVE  EvidenceInv'
<1>1. CASE UNCHANGED evidenceVars
  BY <1>1 DEF EvidenceInv, EvidenceTypes, VisitHolds, SealHolds, AloneHolds, Signed,
              evidenceVars, original
<1> QED BY <1>1, ArrivalsKeepInv, AppendingKeepsInv, SigningKeepsInv, RewritingKeepsInv,
           VisitEndsKeepsInv, AroundKeepsInv
        DEF EvidenceNext

\* The invariant of the evidence in every state of a behaviour.
LEMMA EvidenceInvHolds == EvidenceSpec => []EvidenceInv
<1>1. EvidenceInit => EvidenceInv
  <2> SUFFICES ASSUME EvidenceInit PROVE EvidenceInv
    OBVIOUS
  <2>1. Away \in Visit /\ Away.todo = <<>> /\ Away.read = FALSE
    BY DEF Away, Visit
  <2>2. Unsealed \in Seals /\ Unsealed.file = NoFile
    BY DEF Unsealed, Seals
  <2>3. \A v \in Visitors : visit[v] = Away
    BY DEF EvidenceInit
  <2>4. EvidenceTypes
    <3>1. /\ events \in [stored : Nat, whole : BOOLEAN]
          /\ sealed \in Seals /\ signedFile \in Nat \cup {NoFile, Broken}
          /\ originalFile \in Nat \cup {Broken} /\ originalHash \in Nat
          /\ visits \in Nat /\ crowded \in BOOLEAN /\ secret \in Nat
      BY <2>2 DEF EvidenceInit
    <3>2. visit \in [Visitors -> Visit]
      BY <2>1 DEF EvidenceInit
    <3>3. links \in Seq({"LIVE", "USED", "EXPIRED"})
      BY DEF EvidenceInit
    <3> QED BY <3>1, <3>2, <3>3 DEF EvidenceTypes
  <2>5. \A name \in Steps : ~ Owes(<<>>, name)
    BY DEF Owes
  <2>6. /\ InOrder(<<>>) /\ "COMMIT" \in Steps /\ "signed.pdf" \in Steps
        /\ Unsigned \subseteq Steps
    BY DEF InOrder, Steps, Others, Unsigned, Rewrites
  <2>7. \A v \in Visitors : VisitHolds(v)
    BY <2>1, <2>3, <2>5, <2>6 DEF VisitHolds
  <2>8. SealHolds
    BY <2>2 DEF EvidenceInit, SealHolds, Signed
  <2>9. AloneHolds
    BY <2>1, <2>2, <2>3, <2>5, <2>6 DEF EvidenceInit, AloneHolds, Signed
  <2> QED BY <2>4, <2>7, <2>8, <2>9 DEF EvidenceInv
<1> QED BY <1>1, EvidenceInvKept, PTL DEF EvidenceSpec

(***************************************************************************)
(* The public verification raises INTEGRITY_ALERT only for a cause:        *)
(* requests for the same payslip that overlapped, an original that is not  *)
(* what its row says or was recorded anew while it was verified, a signed  *)
(* file lost or broken, or a seal made with another secret, for any number *)
(* of links, visits, rewritings and attempts that stop anywhere.           *)
(***************************************************************************)
THEOREM AlertAlwaysHasCause == EvidenceSpec => []AlertHasCause
<1>1. EvidenceInv => AlertHasCause
  <2> SUFFICES ASSUME EvidenceInv, verifying # NoFile, ~ IntegrityOk, ~ Excused
               PROVE  FALSE
    BY DEF AlertHasCause, ResultCode
  <2>1. /\ originalFile = originalHash /\ verifying.original = originalHash
        /\ ~ crowded /\ signedFile # Broken
    BY DEF Excused
  <2>2. verifying.seal.file # NoFile /\ verifying.seal = sealed
    BY <2>1 DEF IntegrityOk, EvidenceInv, SealHolds
  <2>3. Signed /\ sealed.secret = secret
    BY <2>2 DEF Signed, Excused
  <2>4. signedFile = verifying.seal.file /\ DocumentLinksMatch /\ ChainIntegrity
    BY <2>1, <2>2, <2>3 DEF EvidenceInv, AloneHolds, SealHolds, ChainIntegrity,
                            DocumentLinksMatch
  <2> QED BY <2>1, <2>2, <2>3, <2>4 DEF IntegrityOk
<1> QED BY <1>1, EvidenceInvHolds, PTL

\* What the types of EvidenceInv leave open: a request names a link that there
\* is, and has read no event that there is not.
EvidenceBounded ==
  /\ verifying \in [seal : Seals, original : Nat] \cup {NoFile}
  /\ secret \in 0 .. 1 /\ visits \in 0 .. MaxVisits
  /\ \A v \in Visitors :
       visit[v].link <= Len(links) /\ visit[v].last <= events.stored

\* A request moves, while links and events are only added: it keeps its link,
\* or comes with one that there is.
LEMMA VisitBounded ==
  ASSUME EvidenceInv, EvidenceInv', EvidenceBounded, NEW v \in Visitors, NEW next,
         visit' = [visit EXCEPT ![v] = next],
         next.link <= Len(links'), next.last <= events'.stored,
         Len(links) <= Len(links'), events.stored <= events'.stored,
         UNCHANGED <<verifying, secret>>, visits' \in 0 .. MaxVisits
  PROVE  EvidenceBounded'
<1>1. /\ visit \in [Visitors -> Visit] /\ Len(links) \in Nat /\ events.stored \in Nat
  BY DEF EvidenceInv, EvidenceTypes
<1>2. Len(links') \in Nat /\ events'.stored \in Nat
  BY DEF EvidenceInv, EvidenceTypes
<1>3. ASSUME NEW w \in Visitors
      PROVE  visit'[w].link <= Len(links') /\ visit'[w].last <= events'.stored
  <2>1. CASE w = v
    BY <1>1, <2>1
  <2>2. CASE w # v
    <3>1. visit'[w] = visit[w] /\ visit[w].link \in Nat /\ visit[w].last \in Nat
      BY <1>1, <2>2 DEF Visit
    <3>2. visit[w].link <= Len(links) /\ visit[w].last <= events.stored
      BY DEF EvidenceBounded
    <3> QED BY <1>1, <1>2, <3>1, <3>2
  <2> QED BY <2>1, <2>2
<1> QED BY <1>3 DEF EvidenceBounded

\* The first step of a request is over.
LEMMA DoneBounded ==
  ASSUME EvidenceInv, EvidenceInv', EvidenceBounded, NEW v \in Visitors, StepDone(v),
         Len(links) <= Len(links'), events.stored <= events'.stored,
         UNCHANGED <<verifying, secret, visits>>
  PROVE  EvidenceBounded'
<1> DEFINE next == [visit[v] EXCEPT !.todo = Tail(visit[v].todo), !.read = FALSE,
                                    !.last = 0]
<1>1. visit' = [visit EXCEPT ![v] = next]
  BY DEF StepDone
<1>2. visit[v] \in Visit /\ visit[v].link <= Len(links)
  BY DEF EvidenceInv, EvidenceTypes, EvidenceBounded
<1>3. next.link = visit[v].link /\ next.last = 0
  BY <1>2 DEF Visit
<1> HIDE DEF next
<1>4. Len(links) \in Nat /\ Len(links') \in Nat /\ events'.stored \in Nat
  BY DEF EvidenceInv, EvidenceTypes
<1>5. next.link <= Len(links') /\ next.last <= events'.stored
  BY <1>2, <1>3, <1>4 DEF Visit
<1> QED BY <1>1, <1>5, VisitBounded DEF EvidenceBounded

LEMMA EvidenceBoundedKept ==
  ASSUME EvidenceInv, EvidenceInv', EvidenceBounded, [EvidenceNext]_evidenceVars
  PROVE  EvidenceBounded'
<1>1. /\ links \in Seq({"LIVE", "USED", "EXPIRED"})
      /\ Len(links) \in Nat /\ DOMAIN links = 1 .. Len(links)
      /\ events.stored \in Nat /\ visit \in [Visitors -> Visit]
      /\ sealed \in Seals /\ originalHash \in Nat
  BY DEF EvidenceInv, EvidenceTypes
<1>2. Len(links) <= Len(links) /\ events.stored <= events.stored
  BY <1>1
<1>3. ASSUME NEW v \in Visitors,
             \/ CreateLink(v) \/ OpenLink(v) \/ VerifyIdentity(v)
             \/ SignFromPortal(v) \/ SignFromLink(v)
             \/ RewriteOriginal(v) \/ RepairOriginal(v)
      PROVE  EvidenceBounded'
  <2>1. PICK link \in {0} \cup DOMAIN links :
          /\ \E todo : Arrives(v, todo, link)
          /\ links' = links \/ links' = Append(links, "LIVE")
    <3>1. CASE \/ CreateLink(v) \/ SignFromPortal(v)
               \/ RewriteOriginal(v) \/ RepairOriginal(v)
      BY <3>1 DEF CreateLink, SignFromPortal, RewriteOriginal, RepairOriginal
    <3>2. CASE OpenLink(v)
      <4>1. PICK l \in DOMAIN links : Arrives(v, <<"LINK_OPENED">>, l)
        BY <3>2 DEF OpenLink
      <4> QED BY <3>2, <4>1 DEF OpenLink
    <3>3. CASE VerifyIdentity(v)
      <4>1. PICK l \in DOMAIN links :
              Arrives(v, <<"IDENTITY_VERIFIED", "DOCUMENT_VIEWED">>, l)
        BY <3>3 DEF VerifyIdentity
      <4> QED BY <3>3, <4>1 DEF VerifyIdentity
    <3>4. CASE SignFromLink(v)
      <4>1. PICK l \in DOMAIN links : Arrives(v, Append(Signing, "used_at"), l)
        BY <3>4 DEF SignFromLink
      <4> QED BY <3>4, <4>1 DEF SignFromLink
    <3> QED BY <1>3, <3>1, <3>2, <3>3, <3>4
  <2>2. PICK todo : Arrives(v, todo, link)
    BY <2>1
  <2> DEFINE next == [Away EXCEPT !.todo = todo, !.link = link, !.name = visits + 1,
                                  !.original = originalHash]
  <2>3. next.link = link /\ next.last = 0
    BY DEF Away
  <2>4. /\ visit' = [visit EXCEPT ![v] = next]
        /\ visits' = visits + 1 /\ visits < MaxVisits
        /\ UNCHANGED <<events, verifying, secret>>
    BY <2>2 DEF Arrives
  <2> HIDE DEF next
  <2>5. Len(links) <= Len(links') /\ next.link <= Len(links')
    <3>1. Len(links') \in {Len(links), Len(links) + 1}
      BY <1>1, <2>1
    <3> QED BY <1>1, <2>1, <2>3, <3>1
  <2>6. visits' \in 0 .. MaxVisits
    BY <2>4, SignatureEvidenceAssumption DEF EvidenceBounded
  <2>7. next.last <= events'.stored /\ events.stored <= events'.stored
    BY <1>1, <2>3, <2>4
  <2> QED BY <2>4, <2>5, <2>6, <2>7, VisitBounded
<1>4. ASSUME NEW v \in Visitors, AppendReads(v)
      PROVE  EvidenceBounded'
  <2> DEFINE next == [visit[v] EXCEPT !.read = TRUE, !.last = LastHash]
  <2>1. next.link = visit[v].link /\ next.last = events.stored
    BY <1>1 DEF Visit, LastHash
  <2>2. /\ visit' = [visit EXCEPT ![v] = next]
        /\ UNCHANGED <<events, links, verifying, secret, visits>>
    BY <1>4 DEF AppendReads
  <2> HIDE DEF next
  <2>3. next.link <= Len(links') /\ next.last <= events'.stored
    BY <1>1, <2>1, <2>2 DEF EvidenceBounded
  <2> QED BY <1>2, <2>2, <2>3, VisitBounded DEF EvidenceBounded
<1>5. ASSUME NEW v \in Visitors, AppendInserts(v)
      PROVE  EvidenceBounded'
  <2>1. /\ events' = [stored |-> events.stored + 1,
                      whole |-> events.whole /\ visit[v].last = events.stored]
        /\ StepDone(v) /\ UNCHANGED <<links, verifying, secret, visits>>
    BY <1>5 DEF AppendInserts
  <2>2. events.stored <= events'.stored
    BY <1>1, <2>1
  <2> QED BY <1>2, <2>1, <2>2, DoneBounded
<1>6. ASSUME NEW v \in Visitors,
             \/ WriteSigned(v) \/ CommitSignature(v)
             \/ LockPayslip(v) \/ WriteOriginal(v) \/ RecordOriginal(v)
      PROVE  EvidenceBounded'
  <2>1. StepDone(v) /\ UNCHANGED <<events, links, verifying, secret, visits>>
    BY <1>6 DEF WriteSigned, CommitSignature, LockPayslip, WriteOriginal, RecordOriginal
  <2> QED BY <1>2, <2>1, DoneBounded
<1>7. ASSUME NEW v \in Visitors, UseLink(v)
      PROVE  EvidenceBounded'
  <2>1. Len(links') = Len(links)
    BY <1>1, <1>7 DEF UseLink
  <2> QED BY <1>1, <1>2, <1>7, <2>1, DoneBounded DEF UseLink
<1>8. ASSUME NEW v \in Visitors, VisitEnds(v)
      PROVE  EvidenceBounded'
  <2>1. Away.link = 0 /\ Away.last = 0 /\ 0 <= Len(links) /\ 0 <= events.stored
    BY <1>1 DEF Away
  <2> QED BY <1>2, <1>8, <2>1, VisitBounded DEF VisitEnds, EvidenceBounded
<1>9. CASE LinkExpires
  <2>1. Len(links') = Len(links)
    BY <1>1, <1>9 DEF LinkExpires
  <2> QED BY <1>9, <2>1 DEF LinkExpires, EvidenceBounded
<1>10. CASE Mishap \/ VerifyReads \/ VerifyEnds \/ UNCHANGED evidenceVars
  <2>1. /\ secret' \in 0 .. 1
        /\ verifying' \in [seal : Seals, original : Nat] \cup {NoFile}
    <3>1. CASE Mishap
      <4>1. verifying' = verifying /\ (secret' = 1 \/ secret' = secret)
        BY <3>1 DEF Mishap
      <4> QED BY <4>1 DEF EvidenceBounded
    <3>2. CASE VerifyReads \/ VerifyEnds
      BY <1>1, <3>2 DEF VerifyReads, VerifyEnds, EvidenceBounded
    <3>3. CASE UNCHANGED evidenceVars
      BY <3>3 DEF evidenceVars, EvidenceBounded
    <3> QED BY <1>10, <3>1, <3>2, <3>3
  <2>2. UNCHANGED <<events, links, visit, visits>>
    BY <1>10 DEF Mishap, VerifyReads, VerifyEnds, evidenceVars
  <2> QED BY <2>1, <2>2 DEF EvidenceBounded
<1> QED BY <1>3, <1>4, <1>5, <1>6, <1>7, <1>8, <1>9, <1>10 DEF EvidenceNext

(***************************************************************************)
(* Rows, files and the memories of the requests hold what their names say: *)
(* no request signs for a link that there is not, or has read an event     *)
(* that was not written.                                                   *)
(***************************************************************************)
THEOREM EvidenceTypeCorrect == EvidenceSpec => []EvidenceTypeOK
<1>1. EvidenceInit => EvidenceBounded
  <2> SUFFICES ASSUME EvidenceInit PROVE EvidenceBounded
    OBVIOUS
  <2>1. \A v \in Visitors : visit[v].link = 0 /\ visit[v].last = 0
    BY DEF EvidenceInit, Away
  <2>2. Len(links) = 0 /\ events.stored = 0
    BY DEF EvidenceInit
  <2> QED BY <2>1, <2>2, SignatureEvidenceAssumption DEF EvidenceInit, EvidenceBounded
<1>2. ASSUME EvidenceInv, EvidenceBounded
      PROVE  EvidenceTypeOK
  <2>1. EvidenceTypes
    BY <1>2 DEF EvidenceInv
  <2>2. ASSUME NEW v \in Visitors
        PROVE  visit[v] \in
                 [todo : Seq(Appends \cup Others), link : 0 .. Len(links),
                  name : Nat, last : 0 .. events.stored, read : BOOLEAN,
                  original : Nat]
    <3>1. visit[v] \in Visit
      BY <2>1 DEF EvidenceTypes
    <3>2. Len(links) \in Nat /\ events.stored \in Nat
      BY <2>1 DEF EvidenceTypes
    <3>3. visit[v].link \in 0 .. Len(links) /\ visit[v].last \in 0 .. events.stored
      BY <1>2, <3>1, <3>2 DEF EvidenceBounded, Visit
    <3> QED BY <3>1, <3>3 DEF Visit, Steps
  <2> QED BY <1>2, <2>1, <2>2 DEF EvidenceBounded, EvidenceTypes, EvidenceTypeOK
<1>3. EvidenceInv /\ EvidenceInv' /\ EvidenceBounded /\ [EvidenceNext]_evidenceVars
        => EvidenceBounded'
  BY EvidenceBoundedKept
<1> QED BY <1>1, <1>2, <1>3, EvidenceInvHolds, PTL DEF EvidenceSpec

-----------------------------------------------------------------------------
(***************************************************************************)
(* The session of a phone.                                                 *)
(***************************************************************************)

PhoneRow == [employer : Employers, csrf : Nat, live : BOOLEAN]

Pair == [token : Nat, csrf : Nat]

CallRow ==
  [kind : {"ME", "LOGIN", "SWITCH", "LOGOUT"},
   stage : {"ASKED", "ANSWERED", "FAILED", "WRITING", "CLEARING"},
   sent : Pair, answer : Pair, who : Employers \cup {Nobody},
   writes : SUBSET {"token", "csrf"}, here : BOOLEAN]

PhoneTypes ==
  /\ rows \in Seq(PhoneRow) /\ issued \in Nat
  /\ memory \in Pair /\ store \in Pair
  /\ shown \in Employers \cup {Nobody}
  /\ opened \in BOOLEAN /\ crossed \in BOOLEAN
  /\ pending \in [1 .. MaxCalls -> CallRow \cup {NoCall}]

UnderWay(i) == pending[i] # NoCall

\* A token is that of a session, or none; and it goes with its CSRF token.
Known(secrets) == secrets.token \in 0 .. Len(rows)

GoodPair(secrets) ==
  secrets.token # 0 => /\ secrets.token \in DOMAIN rows
                       /\ rows[secrets.token].csrf = secrets.csrf

\* An answer is a good pair of the employment it comes with; a me answers for
\* the session that it was asked about.
CallHolds(c) ==
  /\ Known(c.sent) /\ Known(c.answer)
  /\ c.stage \in {"ANSWERED", "CLEARING", "WRITING"} =>
       /\ GoodPair(c.answer)
       /\ c.answer.token # 0 => c.who = rows[c.answer.token].employer
  /\ c.kind = "ME" /\ c.stage = "ANSWERED" /\ c.who # Nobody =>
       c.answer.token = c.sent.token
  /\ c.stage = "CLEARING" => c.kind = "SWITCH"

\* A me is alone, shows nobody yet, and asks with what the memory holds.
MeHolds(i) ==
  UnderWay(i) /\ pending[i].kind = "ME" =>
    /\ \A j \in 1 .. MaxCalls : UnderWay(j) => j = i
    /\ shown = Nobody
    /\ pending[i].stage # "WRITING" => memory = pending[i].sent

Restored ==
  \A i \in 1 .. MaxCalls :
    UnderWay(i) /\ pending[i].kind = "ME" => pending[i].stage = "WRITING"

MemoryHolds ==
  /\ Known(memory) /\ Known(store)
  /\ opened /\ Restored => GoodPair(memory)
  /\ ~ opened => shown = Nobody /\ \A i \in 1 .. MaxCalls : ~ UnderWay(i)

\* Calls that have not overlapped: the memory is what the call writes, or goes
\* with what is shown.
ApartHolds ==
  ~ crossed =>
    /\ \A i, j \in 1 .. MaxCalls : UnderWay(i) /\ UnderWay(j) => i = j
    /\ \A i \in 1 .. MaxCalls :
         UnderWay(i) /\ pending[i].stage = "WRITING" => memory = pending[i].answer
    /\ shown # Nobody
         /\ (\A i \in 1 .. MaxCalls :
               UnderWay(i) => pending[i].stage \notin {"WRITING", "CLEARING"})
       => memory.token # 0 /\ rows[memory.token].employer = shown

PhoneInv ==
  /\ PhoneTypes
  /\ \A i \in 1 .. MaxCalls : UnderWay(i) => CallHolds(pending[i])
  /\ \A i \in 1 .. MaxCalls : MeHolds(i)
  /\ MemoryHolds
  /\ ApartHolds

\* What a step may do to the rows, but for the CSRF tokens.
RowsKept ==
  /\ rows' \in Seq(PhoneRow) /\ Len(rows) <= Len(rows')
  /\ \A n \in DOMAIN rows : rows'[n].employer = rows[n].employer

CsrfKept == \A n \in DOMAIN rows : rows'[n].csrf = rows[n].csrf

\* Pairs and calls stay good while the rows are kept.
LEMMA StaysGood ==
  ASSUME rows \in Seq(PhoneRow), RowsKept
  PROVE  /\ \A p \in Pair : Known(p) => Known(p)'
         /\ CsrfKept => \A p \in Pair : GoodPair(p) => GoodPair(p)'
         /\ CsrfKept => \A c \in CallRow : CallHolds(c) => CallHolds(c)'
<1>1. /\ Len(rows) \in Nat /\ Len(rows') \in Nat /\ Len(rows) <= Len(rows')
      /\ DOMAIN rows = 1 .. Len(rows) /\ DOMAIN rows' = 1 .. Len(rows')
      /\ DOMAIN rows \subseteq DOMAIN rows'
  BY DEF RowsKept
<1>2. \A p \in Pair : Known(p) => Known(p)'
  BY <1>1 DEF Known, Pair
<1>3. CsrfKept => \A p \in Pair : GoodPair(p) => GoodPair(p)'
  BY <1>1 DEF GoodPair, CsrfKept
<1>4. ASSUME CsrfKept, NEW c \in CallRow, CallHolds(c) PROVE CallHolds(c)'
  <2>1. c.sent \in Pair /\ c.answer \in Pair
    BY DEF CallRow
  <2>2. Known(c.sent)' /\ Known(c.answer)'
    BY <1>2, <1>4, <2>1 DEF CallHolds
  <2>3. c.stage \in {"ANSWERED", "CLEARING", "WRITING"} =>
          GoodPair(c.answer) /\ GoodPair(c.answer)'
    BY <1>3, <1>4, <2>1 DEF CallHolds
  <2>4. c.stage \in {"ANSWERED", "CLEARING", "WRITING"} /\ c.answer.token # 0
          => rows'[c.answer.token].employer = rows[c.answer.token].employer
    BY <2>3 DEF GoodPair, RowsKept
  <2> QED BY <1>4, <2>2, <2>3, <2>4 DEF CallHolds
<1> QED BY <1>2, <1>3, <1>4

\* No call is one of the calls.
LEMMA NoCallIsNone == NoCall \notin CallRow
  BY DEF NoCall, CallRow

\* A call that is answered, refused or lost keeps the invariant, if its answer
\* is as the invariant says; the CSRF token of a session changes for a me.
LEMMA AnsweredKeepsInv ==
  ASSUME PhoneInv, NEW i \in 1 .. MaxCalls, UnderWay(i),
         NEW next \in CallRow, pending' = [pending EXCEPT ![i] = next],
         next.kind = pending[i].kind, next.sent = pending[i].sent,
         pending[i].stage \in {"ASKED", "ANSWERED"},
         next.stage \in {"ANSWERED", "FAILED"},
         CallHolds(next)', RowsKept, CsrfKept \/ pending[i].kind = "ME",
         issued' \in Nat, UNCHANGED <<memory, store, shown, opened, crossed>>
  PROVE  PhoneInv'
<1>1. /\ rows \in Seq(PhoneRow) /\ pending \in [1 .. MaxCalls -> CallRow \cup {NoCall}]
      /\ memory \in Pair /\ store \in Pair
      /\ next # NoCall /\ pending[i] \in CallRow
  BY NoCallIsNone DEF PhoneInv, PhoneTypes, UnderWay
<1>2. pending'[i] = next /\ \A j \in (1 .. MaxCalls) \ {i} : pending'[j] = pending[j]
  BY <1>1
<1>3. \A j \in 1 .. MaxCalls : UnderWay(j)' <=> UnderWay(j)
  BY <1>1, <1>2 DEF UnderWay
<1>4. PhoneTypes'
  BY <1>1 DEF PhoneInv, PhoneTypes, RowsKept
<1>5. ASSUME NEW j \in 1 .. MaxCalls, UnderWay(j)' PROVE CallHolds(pending[j])'
  <2>1. CASE j = i
    BY <1>2, <2>1 DEF CallHolds, Known, GoodPair
  <2>2. CASE j # i
    <3>1. UnderWay(j) /\ CsrfKept
      BY <1>3, <1>5, <2>2 DEF PhoneInv, MeHolds
    <3>2. PICK c \in CallRow : c = pending[j] /\ c = pending'[j]
      BY <1>1, <1>2, <2>2, <3>1 DEF UnderWay
    <3>3. CallHolds(c)
      BY <3>1, <3>2 DEF PhoneInv
    <3>4. CallHolds(c)'
      BY <1>1, <3>1, <3>3, StaysGood
    <3> QED BY <3>2, <3>4 DEF CallHolds, Known, GoodPair
  <2> QED BY <2>1, <2>2
<1>6. ASSUME NEW j \in 1 .. MaxCalls PROVE MeHolds(j)'
  <2>1. MeHolds(j)
    BY DEF PhoneInv
  <2>2. CASE j = i
    BY <1>2, <1>3, <2>1, <2>2 DEF MeHolds
  <2>3. CASE j # i
    BY <1>2, <1>3, <2>1, <2>3 DEF MeHolds
  <2> QED BY <2>2, <2>3
<1>7. MemoryHolds'
  <2>1. Known(memory)' /\ Known(store)'
    <3>1. PICK m \in Pair, t \in Pair :
            m = memory /\ m = memory' /\ t = store /\ t = store'
      BY <1>1
    <3>2. Known(m)' /\ Known(t)'
      BY <1>1, <3>1, StaysGood DEF PhoneInv, MemoryHolds
    <3> QED BY <3>1, <3>2 DEF Known
  <2>2. ASSUME opened, Restored' PROVE GoodPair(memory)'
    <3>1. pending[i].kind # "ME"
      BY <1>2, <1>3, <2>2 DEF Restored
    <3>2. Restored
      BY <1>2, <1>3, <2>2, <3>1 DEF Restored
    <3>3. PICK m \in Pair : m = memory /\ m = memory'
      BY <1>1
    <3>4. GoodPair(m)
      BY <2>2, <3>2, <3>3 DEF PhoneInv, MemoryHolds
    <3>5. GoodPair(m)'
      BY <1>1, <3>1, <3>4, StaysGood
    <3> QED BY <3>3, <3>5 DEF GoodPair
  <2>3. opened
    BY DEF PhoneInv, MemoryHolds
  <2> QED BY <2>1, <2>2, <2>3 DEF MemoryHolds
<1>8. ApartHolds'
  <2> SUFFICES ASSUME ~ crossed PROVE ApartHolds'
    BY DEF ApartHolds
  <2>1. \A j, k \in 1 .. MaxCalls : UnderWay(j)' /\ UnderWay(k)' => j = k
    BY <1>3 DEF PhoneInv, ApartHolds
  <2>2. \A j \in 1 .. MaxCalls :
          UnderWay(j)' /\ pending'[j].stage = "WRITING" => memory' = pending'[j].answer
    BY <1>2, <1>3 DEF PhoneInv, ApartHolds
  <2>3. ASSUME shown # Nobody
        PROVE  memory.token # 0 /\ rows'[memory.token].employer = shown
    <3>1. \A j \in 1 .. MaxCalls :
             UnderWay(j) => pending[j].stage \notin {"WRITING", "CLEARING"}
      BY DEF PhoneInv, ApartHolds
    <3>2. memory.token # 0 /\ rows[memory.token].employer = shown
      BY <2>3, <3>1 DEF PhoneInv, ApartHolds
    <3>3. memory.token \in DOMAIN rows
      BY <1>1, <3>2 DEF PhoneInv, MemoryHolds, Known
    <3> QED BY <3>2, <3>3 DEF RowsKept
  <2> QED BY <2>1, <2>2, <2>3 DEF ApartHolds
<1> QED BY <1>4, <1>5, <1>6, <1>7, <1>8 DEF PhoneInv

\* A call with another stage and, for the second, an answer.
LEMMA CallAnswered ==
  ASSUME PhoneTypes, NEW i \in 1 .. MaxCalls, UnderWay(i),
         NEW secrets \in Pair, NEW who \in Employers \cup {Nobody}
  PROVE  /\ Refuse(i) => \E next \in CallRow :
              /\ pending' = [pending EXCEPT ![i] = next]
              /\ next.kind = pending[i].kind /\ next.sent = pending[i].sent
              /\ next.answer = pending[i].answer /\ next.stage = "FAILED"
         /\ Answer(i, secrets, who) => \E next \in CallRow :
              /\ pending' = [pending EXCEPT ![i] = next]
              /\ next.kind = pending[i].kind /\ next.sent = pending[i].sent
              /\ next.answer = secrets /\ next.who = who /\ next.stage = "ANSWERED"
<1> DEFINE c == pending[i]
           failed == [c EXCEPT !.stage = "FAILED"]
           answered == [c EXCEPT !.stage = "ANSWERED", !.answer = secrets, !.who = who]
<1>1. c \in CallRow
  BY DEF PhoneTypes, UnderWay
<1>2. /\ failed \in CallRow /\ failed.kind = c.kind /\ failed.sent = c.sent
      /\ failed.answer = c.answer /\ failed.stage = "FAILED"
  BY <1>1 DEF CallRow
<1>3. /\ answered \in CallRow /\ answered.kind = c.kind /\ answered.sent = c.sent
      /\ answered.answer = secrets /\ answered.who = who /\ answered.stage = "ANSWERED"
  BY <1>1 DEF CallRow
<1>4. Refuse(i) => pending' = [pending EXCEPT ![i] = failed]
  BY DEF Refuse
<1>5. Answer(i, secrets, who) => pending' = [pending EXCEPT ![i] = answered]
  BY DEF Answer
<1> HIDE DEF failed, answered
<1> QED BY <1>2, <1>3, <1>4, <1>5

\* A call that is refused or lost.
LEMMA RefusedKeepsInv ==
  ASSUME PhoneInv, NEW i \in 1 .. MaxCalls, UnderWay(i), Refuse(i),
         pending[i].stage \in {"ASKED", "ANSWERED"},
         UNCHANGED <<rows, issued, memory, store, shown, opened, crossed>>
  PROVE  PhoneInv'
<1>1. NoSecrets \in Pair
  BY DEF NoSecrets, Pair
<1>2. PhoneTypes
  BY DEF PhoneInv
<1>3. PICK next \in CallRow :
        /\ pending' = [pending EXCEPT ![i] = next]
        /\ next.kind = pending[i].kind /\ next.sent = pending[i].sent
        /\ next.answer = pending[i].answer /\ next.stage = "FAILED"
  BY <1>1, <1>2, CallAnswered
<1>4. CallHolds(next)'
  BY <1>3 DEF PhoneInv, CallHolds, Known
<1>5. RowsKept /\ CsrfKept /\ issued' \in Nat
  BY <1>2 DEF PhoneTypes, RowsKept, CsrfKept
<1> QED BY <1>3, <1>4, <1>5, AnsweredKeepsInv

\* A call that is answered, with what happens to the rows.
LEMMA AnswerKeepsInv ==
  ASSUME PhoneInv, NEW i \in 1 .. MaxCalls, UnderWay(i),
         NEW secrets \in Pair, NEW who \in Employers \cup {Nobody},
         Answer(i, secrets, who), pending[i].stage = "ASKED",
         RowsKept, CsrfKept \/ pending[i].kind = "ME", issued' \in Nat,
         secrets.token # 0 =>
           /\ secrets.token \in DOMAIN rows' /\ rows'[secrets.token].csrf = secrets.csrf
           /\ rows'[secrets.token].employer = who,
         pending[i].kind = "ME" /\ who # Nobody => secrets.token = pending[i].sent.token,
         UNCHANGED <<memory, store, shown, opened, crossed>>
  PROVE  PhoneInv'
<1>1. PhoneTypes
  BY DEF PhoneInv
<1>2. PICK next \in CallRow :
        /\ pending' = [pending EXCEPT ![i] = next]
        /\ next.kind = pending[i].kind /\ next.sent = pending[i].sent
        /\ next.answer = secrets /\ next.who = who /\ next.stage = "ANSWERED"
  BY <1>1, CallAnswered
<1>3. Known(next.sent)'
  <2>1. Known(next.sent) /\ next.sent \in Pair
    BY <1>2 DEF PhoneInv, CallHolds, CallRow
  <2> QED BY <1>1, <2>1, StaysGood DEF PhoneTypes
<1>4. Known(secrets)'
  <2>1. DOMAIN rows' = 1 .. Len(rows') /\ Len(rows') \in Nat
    BY DEF RowsKept
  <2> QED BY <2>1 DEF Known, Pair
<1>5. CallHolds(next)'
  BY <1>2, <1>3, <1>4 DEF CallHolds, GoodPair, Known
<1> QED BY <1>2, <1>5, AnsweredKeepsInv

\* The API serves a call: a me may issue a CSRF token for the session, a login
\* and a switch open one, a switch and a log-out end one.
LEMMA ServingKeepsInv ==
  ASSUME PhoneInv, NEW i \in 1 .. MaxCalls, Serve(i)
  PROVE  PhoneInv'
<1> DEFINE sent == pending[i].sent
           row == rows[sent.token]
<1>1. /\ UnderWay(i) /\ pending[i].stage = "ASKED"
      /\ UNCHANGED <<memory, store, shown, opened, crossed>>
  BY DEF Serve, UnderWay
<1>2. /\ pending[i] \in CallRow /\ sent \in Pair /\ sent.token \in Nat /\ sent.csrf \in Nat
      /\ sent.token \in 0 .. Len(rows)
      /\ rows \in Seq(PhoneRow) /\ Len(rows) \in Nat /\ DOMAIN rows = 1 .. Len(rows)
      /\ issued \in Nat /\ Nobody \notin Employers
  <2>1. pending[i] \in CallRow
    BY <1>1 DEF PhoneInv, PhoneTypes, UnderWay
  <2>2. Known(sent)
    BY <1>1 DEF PhoneInv, CallHolds
  <2> QED BY <2>1, <2>2, PhoneSessionAssumption
          DEF CallRow, Pair, Known, PhoneInv, PhoneTypes
<1>3. Authenticated(sent) => sent.token \in DOMAIN rows /\ row \in PhoneRow
                             /\ row.employer \in Employers
  <2>1. Authenticated(sent) => sent.token \in DOMAIN rows /\ row \in PhoneRow
    BY <1>2 DEF Authenticated
  <2> QED BY <2>1 DEF PhoneRow
<1>4. NoSecrets \in Pair /\ NoSecrets.token = 0
  BY DEF NoSecrets, Pair
<1>5. ASSUME UNCHANGED <<rows, issued>>, Refuse(i) PROVE PhoneInv'
  BY <1>1, <1>5, RefusedKeepsInv
<1>6. ASSUME UNCHANGED <<rows, issued>>, Answer(i, NoSecrets, Nobody) PROVE PhoneInv'
  BY <1>1, <1>2, <1>4, <1>6, AnswerKeepsInv DEF RowsKept, CsrfKept
<1>7. CASE pending[i].kind = "ME" /\ ServeMe(i)
  <2>1. CASE Answer(i, NoSecrets, Nobody) /\ UNCHANGED <<rows, issued>>
    BY <1>6, <2>1
  <2>2. CASE CsrfAccepted(sent) /\ Answer(i, sent, row.employer) /\ UNCHANGED <<rows, issued>>
    <3>1. RowsKept /\ CsrfKept /\ issued' \in Nat
      BY <1>2, <2>2 DEF RowsKept, CsrfKept
    <3>2. sent.token \in DOMAIN rows' /\ rows'[sent.token].csrf = sent.csrf
          /\ rows'[sent.token].employer = row.employer
      BY <1>3, <2>2 DEF CsrfAccepted
    <3>3. row.employer \in Employers \cup {Nobody}
      BY <1>3, <2>2 DEF CsrfAccepted
    <3> QED BY <1>1, <1>2, <2>2, <3>1, <3>2, <3>3, AnswerKeepsInv
  <2>3. CASE /\ Authenticated(sent) /\ issued' = issued + 1
             /\ rows' = [rows EXCEPT ![sent.token].csrf = issued + 1]
             /\ Answer(i, [sent EXCEPT !.csrf = issued + 1], row.employer)
    <3> DEFINE new == issued + 1
               given == [row EXCEPT !.csrf = new]
               secrets == [sent EXCEPT !.csrf = new]
    <3>1. new \in Nat
      BY <1>2
    <3>2. /\ issued' = new /\ rows' = [rows EXCEPT ![sent.token].csrf = new]
          /\ Answer(i, secrets, row.employer)
      BY <2>3
    <3> HIDE DEF new
    <3>3. /\ given \in PhoneRow /\ given.employer = row.employer /\ given.csrf = new
      BY <1>3, <2>3, <3>1 DEF PhoneRow
    <3>4. rows' = [rows EXCEPT ![sent.token] = given]
      BY <3>2
    <3>5. secrets \in Pair /\ secrets.token = sent.token /\ secrets.csrf = new
      BY <1>2, <3>1 DEF Pair
    <3> HIDE DEF given, secrets
    <3>6. /\ RowsKept /\ sent.token \in DOMAIN rows'
          /\ rows'[sent.token] = given
      BY <1>2, <1>3, <2>3, <3>3, <3>4 DEF RowsKept
    <3>7. row.employer \in Employers \cup {Nobody}
      BY <1>3, <2>3
    <3> QED BY <1>1, <1>7, <3>1, <3>2, <3>3, <3>5, <3>6, <3>7, AnswerKeepsInv
  <2> QED BY <1>7, <2>1, <2>2, <2>3 DEF ServeMe
<1>8. ASSUME NEW given \in Seq(PhoneRow), NEW employer \in Employers,
             OpenRow(i, given, employer), Len(given) = Len(rows),
             \A n \in DOMAIN rows : given[n].csrf = rows[n].csrf
                                    /\ given[n].employer = rows[n].employer,
             pending[i].kind # "ME"
      PROVE  PhoneInv'
  <2> DEFINE new == issued + 1
             opening == [employer |-> employer, csrf |-> new, live |-> TRUE]
             id == Len(rows) + 1
             secrets == [token |-> id, csrf |-> new]
  <2>1. new \in Nat /\ id \in Nat
    BY <1>2
  <2>2. /\ issued' = new /\ rows' = Append(given, opening)
        /\ Answer(i, secrets, employer)
    BY <1>8 DEF OpenRow
  <2> HIDE DEF new
  <2>3. opening \in PhoneRow /\ opening.csrf = new /\ opening.employer = employer
    BY <2>1 DEF PhoneRow
  <2> HIDE DEF opening
  <2>4. /\ rows' \in Seq(PhoneRow) /\ Len(rows') = id /\ id \in DOMAIN rows'
        /\ rows'[id] = opening
        /\ \A n \in DOMAIN rows : rows'[n] = given[n]
    BY <1>2, <1>8, <2>2, <2>3
  <2>5. RowsKept /\ CsrfKept
    BY <1>2, <1>8, <2>4 DEF RowsKept, CsrfKept
  <2> HIDE DEF id
  <2>6. secrets \in Pair /\ secrets.token = id /\ secrets.csrf = new
    BY <2>1 DEF Pair
  <2> HIDE DEF secrets
  <2> QED BY <1>1, <1>8, <2>1, <2>2, <2>3, <2>4, <2>5, <2>6, AnswerKeepsInv
<1>9. ASSUME Authenticated(sent)
      PROVE  /\ RowRevoked(sent.token) \in Seq(PhoneRow)
             /\ Len(RowRevoked(sent.token)) = Len(rows)
             /\ \A n \in DOMAIN rows : RowRevoked(sent.token)[n].csrf = rows[n].csrf
                                       /\ RowRevoked(sent.token)[n].employer = rows[n].employer
  <2> DEFINE ended == [row EXCEPT !.live = FALSE]
  <2>1. ended \in PhoneRow /\ ended.csrf = row.csrf /\ ended.employer = row.employer
    BY <1>3, <1>9 DEF PhoneRow
  <2>2. RowRevoked(sent.token) = [rows EXCEPT ![sent.token] = ended]
    BY DEF RowRevoked
  <2> HIDE DEF ended
  <2> QED BY <1>2, <1>3, <1>9, <2>1, <2>2
<1>10. CASE pending[i].kind = "LOGIN" /\ ServeLogin(i)
  BY <1>2, <1>8, <1>10 DEF ServeLogin
<1>11. CASE pending[i].kind = "SWITCH" /\ ServeSwitch(i)
  <2>1. CASE Refuse(i) /\ UNCHANGED <<rows, issued>>
    BY <1>5, <2>1
  <2>2. ASSUME CsrfAccepted(sent), NEW employer \in Employers,
               OpenRow(i, RowRevoked(sent.token), employer)
        PROVE  PhoneInv'
    BY <1>8, <1>9, <1>11, <2>2 DEF CsrfAccepted
  <2> QED BY <1>11, <2>1, <2>2 DEF ServeSwitch
<1>12. CASE pending[i].kind = "LOGOUT" /\ ServeLogout(i)
  <2>1. CASE Refuse(i) /\ UNCHANGED <<rows, issued>>
    BY <1>5, <2>1
  <2>2. CASE /\ CsrfAccepted(sent) /\ rows' = RowRevoked(sent.token)
             /\ Answer(i, NoSecrets, Nobody) /\ issued' = issued
    <3>1. RowsKept /\ CsrfKept
      BY <1>2, <1>9, <2>2 DEF CsrfAccepted, RowsKept, CsrfKept
    <3> QED BY <1>1, <1>2, <1>4, <1>12, <2>2, <3>1, AnswerKeepsInv
  <2> QED BY <1>12, <2>1, <2>2 DEF ServeLogout
<1> QED BY <1>2, <1>7, <1>10, <1>11, <1>12 DEF Serve, CallRow

\* A call begins: the app is opened, and asks who it is with what the store
\* holds, or has loaded, and asks with a good pair.
LEMMA BeginningKeepsInv ==
  ASSUME PhoneInv, OpenApp \/ PressLogin \/ PressSwitch \/ PressLogout
  PROVE  PhoneInv'
<1>1. /\ rows \in Seq(PhoneRow) /\ Len(rows) \in Nat
      /\ pending \in [1 .. MaxCalls -> CallRow \cup {NoCall}]
      /\ memory \in Pair /\ store \in Pair /\ MaxCalls \in Nat
      /\ DOMAIN pending = 1 .. MaxCalls
  BY PhoneSessionAssumption DEF PhoneInv, PhoneTypes
<1>2. PICK kind \in {"ME", "LOGIN", "SWITCH", "LOGOUT"}, secrets \in {memory, store} :
        /\ Begin(kind, secrets)
        /\ \/ /\ OpenApp /\ kind = "ME" /\ secrets = store
           \/ /\ opened /\ ~ Loading /\ kind # "ME" /\ secrets = memory
              /\ UNCHANGED <<memory, opened>>
        /\ UNCHANGED <<rows, issued, store, shown>>
  BY DEF OpenApp, PressLogin, PressSwitch, PressLogout
<1> DEFINE next == [kind |-> kind, stage |-> "ASKED", sent |-> secrets,
                    answer |-> NoSecrets, who |-> Nobody, writes |-> {}, here |-> TRUE]
<1>3. PICK i \in 1 .. MaxCalls :
        /\ pending[i] = NoCall
        /\ pending' = [pending EXCEPT ![i] = next]
        /\ crossed' = (crossed \/ \E j \in DOMAIN pending : pending[j] # NoCall)
  BY <1>1, <1>2 DEF Begin
<1>4. /\ NoSecrets \in Pair /\ NoSecrets.token = 0
  BY DEF NoSecrets, Pair
<1>5. /\ next \in CallRow /\ next # NoCall /\ next.kind = kind /\ next.stage = "ASKED"
      /\ next.sent = secrets /\ next.answer = NoSecrets
  <2>1. next \in CallRow
    BY <1>1, <1>2, <1>4 DEF CallRow
  <2> QED BY <2>1, NoCallIsNone
<1> HIDE DEF next
<1>6. /\ pending'[i] = next
      /\ \A j \in (1 .. MaxCalls) \ {i} : pending'[j] = pending[j]
      /\ UnderWay(i)' /\ ~ UnderWay(i)
      /\ \A j \in (1 .. MaxCalls) \ {i} : UnderWay(j)' <=> UnderWay(j)
  BY <1>1, <1>3, <1>5 DEF UnderWay
<1>7. Known(secrets)
  BY <1>2 DEF PhoneInv, MemoryHolds
<1>8. memory' \in {memory, store} /\ memory' \in Pair
  BY <1>1, <1>2 DEF OpenApp
<1>9. PhoneTypes'
  <2>1. crossed' \in BOOLEAN
    BY <1>3, Zenon DEF PhoneInv, PhoneTypes
  <2>2. opened' \in BOOLEAN
    BY <1>2 DEF OpenApp, PhoneInv, PhoneTypes
  <2> QED BY <1>1, <1>2, <1>3, <1>5, <1>8, <2>1, <2>2 DEF PhoneInv, PhoneTypes
<1>10. ASSUME NEW j \in 1 .. MaxCalls, UnderWay(j)' PROVE CallHolds(pending[j])'
  <2>1. CASE j = i
    <3>1. /\ pending'[j].sent = secrets /\ pending'[j].answer.token = 0
          /\ pending'[j].stage = "ASKED"
      BY <1>4, <1>5, <1>6, <2>1
    <3> QED BY <1>1, <1>2, <1>7, <3>1 DEF CallHolds, Known
  <2>2. CASE j # i
    BY <1>2, <1>6, <1>10, <2>2 DEF PhoneInv, CallHolds, Known, GoodPair
  <2> QED BY <2>1, <2>2
<1>11. CASE OpenApp /\ kind = "ME" /\ secrets = store
  <2>1. /\ memory' = store /\ opened' = TRUE /\ shown' = Nobody
        /\ \A j \in 1 .. MaxCalls : ~ UnderWay(j)
    BY <1>2, <1>11 DEF OpenApp, PhoneInv, MemoryHolds
  <2>2. \A j \in (1 .. MaxCalls) \ {i} : ~ UnderWay(j)'
    BY <1>6, <2>1
  <2>3. \A j \in 1 .. MaxCalls : MeHolds(j)'
    BY <1>5, <1>6, <1>11, <2>1, <2>2 DEF MeHolds
  <2>4. MemoryHolds'
    <3>1. ~ Restored'
      BY <1>5, <1>6, <1>11 DEF Restored
    <3> QED BY <1>2, <2>1, <3>1 DEF PhoneInv, MemoryHolds, Known
  <2>5. ApartHolds'
    BY <1>5, <1>6, <2>1, <2>2 DEF ApartHolds
  <2> QED BY <1>9, <1>10, <2>3, <2>4, <2>5 DEF PhoneInv
<1>12. CASE /\ opened /\ ~ Loading /\ kind # "ME" /\ secrets = memory
            /\ UNCHANGED <<memory, opened>>
  <2>1. \A j \in 1 .. MaxCalls : UnderWay(j) => pending[j].kind # "ME"
    BY <1>1, <1>12 DEF Loading, Running, UnderWay
  <2>2. \A j \in 1 .. MaxCalls : UnderWay(j)' => pending'[j].kind # "ME"
    BY <1>5, <1>6, <1>12, <2>1
  <2>3. \A j \in 1 .. MaxCalls : MeHolds(j)'
    BY <2>2 DEF MeHolds
  <2>4. Restored
    BY <2>1 DEF Restored
  <2>5. MemoryHolds'
    BY <1>2, <1>12, <2>4 DEF PhoneInv, MemoryHolds, Known, GoodPair
  <2>6. ApartHolds'
    <3> SUFFICES ASSUME ~ crossed' PROVE ApartHolds'
      BY DEF ApartHolds
    <3>1. ~ crossed /\ \A j \in 1 .. MaxCalls : ~ UnderWay(j)
      BY <1>1, <1>3 DEF UnderWay
    <3>2. \A j \in 1 .. MaxCalls : UnderWay(j)' => j = i
      BY <1>6, <3>1
    <3>3. shown # Nobody => memory.token # 0 /\ rows[memory.token].employer = shown
      BY <3>1 DEF PhoneInv, ApartHolds
    <3> QED BY <1>2, <1>5, <1>6, <1>12, <3>2, <3>3 DEF ApartHolds
  <2> QED BY <1>9, <1>10, <2>3, <2>5, <2>6 DEF PhoneInv
<1> QED BY <1>2, <1>11, <1>12

\* A call whose stage has changed to one that writes, with the memory.
LEMMA WritingKeepsInv ==
  ASSUME PhoneInv, NEW i \in 1 .. MaxCalls, UnderWay(i),
         NEW next \in CallRow, pending' = [pending EXCEPT ![i] = next],
         next.kind = pending[i].kind, next.sent = pending[i].sent,
         next.stage \in {"WRITING", "CLEARING"},
         next.stage = "CLEARING" => next.kind = "SWITCH" /\ memory' = NoSecrets,
         next.stage = "WRITING" => memory' = next.answer,
         Known(next.answer), GoodPair(next.answer),
         next.answer.token # 0 => next.who = rows[next.answer.token].employer,
         UNCHANGED <<rows, issued, store, shown, opened, crossed>>
  PROVE  PhoneInv'
<1>1. /\ rows \in Seq(PhoneRow) /\ Len(rows) \in Nat
      /\ pending \in [1 .. MaxCalls -> CallRow \cup {NoCall}]
      /\ next # NoCall /\ next.answer \in Pair
      /\ NoSecrets \in Pair /\ NoSecrets.token = 0
  BY NoCallIsNone DEF PhoneInv, PhoneTypes, CallRow, NoSecrets, Pair
<1>2. /\ pending'[i] = next /\ \A j \in (1 .. MaxCalls) \ {i} : pending'[j] = pending[j]
      /\ \A j \in 1 .. MaxCalls : UnderWay(j)' <=> UnderWay(j)
  BY <1>1 DEF UnderWay
<1>3. memory' \in Pair /\ Known(memory') /\ GoodPair(memory')
  BY <1>1 DEF Known, GoodPair
<1>4. PhoneTypes'
  BY <1>1, <1>3 DEF PhoneInv, PhoneTypes
<1>5. ASSUME NEW j \in 1 .. MaxCalls, UnderWay(j)' PROVE CallHolds(pending[j])'
  <2>1. CASE j = i
    BY <1>2, <2>1 DEF PhoneInv, CallHolds, Known, GoodPair
  <2>2. CASE j # i
    BY <1>2, <1>5, <2>2 DEF PhoneInv, CallHolds, Known, GoodPair
  <2> QED BY <2>1, <2>2
<1>6. ASSUME NEW j \in 1 .. MaxCalls PROVE MeHolds(j)'
  <2>1. MeHolds(j) /\ MeHolds(i)
    BY DEF PhoneInv
  <2>2. CASE j = i
    BY <1>2, <2>1, <2>2 DEF MeHolds
  <2>3. CASE j # i
    BY <1>2, <2>1, <2>3 DEF MeHolds
  <2> QED BY <2>2, <2>3
<1>7. MemoryHolds'
  BY <1>2, <1>3 DEF PhoneInv, MemoryHolds, Known, GoodPair
<1>8. ApartHolds'
  <2> SUFFICES ASSUME ~ crossed PROVE ApartHolds'
    BY DEF ApartHolds
  <2>1. \A j \in 1 .. MaxCalls : UnderWay(j) => j = i
    BY DEF PhoneInv, ApartHolds
  <2> QED BY <1>2, <2>1 DEF ApartHolds
<1> QED BY <1>4, <1>5, <1>6, <1>7, <1>8 DEF PhoneInv

\* The app takes an answer, or saves the session that a switch has opened.
LEMMA TakingKeepsInv ==
  ASSUME PhoneInv, NEW i \in 1 .. MaxCalls,
         \/ pending[i] # NoCall /\ (TakeCsrf(i) \/ TakeSession(i) \/ TakeSwitch(i)
                                     \/ ClearSession(i))
              /\ UNCHANGED <<rows, issued, store, shown, opened, crossed>>
         \/ SaveSession(i)
  PROVE  PhoneInv'
<1> DEFINE c == pending[i]
<1>1. /\ UnderWay(i) /\ UNCHANGED <<rows, issued, store, shown, opened, crossed>>
  BY DEF SaveSession, UnderWay
<1>2. /\ c \in CallRow /\ CallHolds(c) /\ MeHolds(i) /\ c.answer \in Pair
      /\ memory \in Pair /\ Known(memory)
      /\ rows \in Seq(PhoneRow) /\ Len(rows) \in Nat
  <2>1. c \in CallRow
    BY <1>1 DEF PhoneInv, PhoneTypes, UnderWay
  <2> QED BY <1>1, <2>1 DEF PhoneInv, PhoneTypes, MemoryHolds, CallRow
<1>3. ASSUME NEW secrets \in Pair, NEW keys \in SUBSET {"token", "csrf"},
             Puts(i, secrets, keys, "WRITING"),
             Known(secrets), GoodPair(secrets),
             secrets.token # 0 => c.who = rows[secrets.token].employer
      PROVE  PhoneInv'
  <2> DEFINE next == [c EXCEPT !.writes = keys, !.answer = secrets, !.stage = "WRITING"]
  <2>1. /\ next \in CallRow /\ next.kind = c.kind /\ next.sent = c.sent
        /\ next.answer = secrets /\ next.who = c.who /\ next.stage = "WRITING"
    BY <1>2 DEF CallRow
  <2>2. pending' = [pending EXCEPT ![i] = next] /\ memory' = secrets
    BY <1>3 DEF Puts
  <2> HIDE DEF next
  <2> QED BY <1>1, <1>3, <2>1, <2>2, WritingKeepsInv
<1>4. CASE TakeCsrf(i)
  <2>1. c.kind = "ME" /\ c.stage = "ANSWERED" /\ c.who # Nobody
    BY <1>4 DEF TakeCsrf
  <2>2. /\ memory = c.sent /\ c.answer.token = c.sent.token /\ GoodPair(c.answer)
        /\ c.answer.token # 0 => c.who = rows[c.answer.token].employer
    BY <1>1, <1>2, <2>1 DEF MeHolds, CallHolds
  <2> DEFINE secrets == [memory EXCEPT !.csrf = c.answer.csrf]
  <2>3. secrets = c.answer
    BY <1>2, <2>2 DEF Pair
  <2>4. Puts(i, c.answer, {"csrf"}, "WRITING")
    BY <1>4, <2>3 DEF TakeCsrf
  <2> QED BY <1>2, <1>3, <2>2, <2>4 DEF CallHolds
<1>5. CASE TakeSession(i)
  <2>1. Puts(i, c.answer, {"token", "csrf"}, "WRITING") /\ c.stage = "ANSWERED"
    BY <1>5 DEF TakeSession
  <2> QED BY <1>2, <1>3, <2>1 DEF CallHolds
<1>6. CASE TakeSwitch(i)
  <2> DEFINE keys == {"token", "csrf"}
             next == [c EXCEPT !.writes = keys, !.stage = "CLEARING"]
  <2>1. /\ next \in CallRow /\ next.kind = c.kind /\ next.sent = c.sent
        /\ next.answer = c.answer /\ next.who = c.who /\ next.stage = "CLEARING"
    BY <1>2 DEF CallRow
  <2>2. /\ pending' = [pending EXCEPT ![i] = next] /\ memory' = NoSecrets
        /\ c.kind = "SWITCH" /\ c.stage = "ANSWERED"
    BY <1>6 DEF TakeSwitch
  <2> HIDE DEF next
  <2>3. /\ Known(next.answer) /\ GoodPair(next.answer)
        /\ next.answer.token # 0 => next.who = rows[next.answer.token].employer
    BY <1>2, <2>1, <2>2 DEF CallHolds
  <2> QED BY <1>1, <2>1, <2>2, <2>3, WritingKeepsInv
<1>7. CASE ClearSession(i)
  <2>1. NoSecrets \in Pair /\ NoSecrets.token = 0
    BY DEF NoSecrets, Pair
  <2>2. Known(NoSecrets) /\ GoodPair(NoSecrets)
    BY <1>2, <2>1 DEF Known, GoodPair
  <2> QED BY <1>3, <1>7, <2>1, <2>2 DEF ClearSession
<1>8. CASE SaveSession(i)
  <2>1. Puts(i, c.answer, {"token", "csrf"}, "WRITING") /\ c.stage = "CLEARING"
    BY <1>8 DEF SaveSession
  <2> QED BY <1>2, <1>3, <2>1 DEF CallHolds
<1> QED BY <1>4, <1>5, <1>6, <1>7, <1>8

\* One key of the store is written.
LEMMA WriteKeyKeepsInv ==
  ASSUME PhoneInv, NEW i \in 1 .. MaxCalls, WriteKey(i)
  PROVE  PhoneInv'
<1> DEFINE c == pending[i]
<1>1. PICK key \in c.writes :
        /\ store' = [store EXCEPT ![key] = IF c.stage = "CLEARING" THEN 0 ELSE c.answer[key]]
        /\ pending' = [pending EXCEPT ![i].writes = @ \ {key}]
  BY DEF WriteKey
<1>2. /\ UnderWay(i) /\ UNCHANGED <<rows, issued, memory, shown, opened, crossed>>
  BY DEF WriteKey, UnderWay
<1>3. /\ c \in CallRow /\ c.answer \in Pair /\ Known(c.answer) /\ store \in Pair
      /\ Known(store) /\ key \in {"token", "csrf"}
      /\ pending \in [1 .. MaxCalls -> CallRow \cup {NoCall}]
  <2>1. c \in CallRow
    BY <1>2 DEF PhoneInv, PhoneTypes, UnderWay
  <2> QED BY <1>2, <2>1 DEF PhoneInv, PhoneTypes, CallRow, CallHolds, MemoryHolds
<1> DEFINE left == c.writes \ {key}
           next == [c EXCEPT !.writes = left]
<1>4. left \in SUBSET {"token", "csrf"}
  BY <1>3 DEF CallRow
<1>5. pending' = [pending EXCEPT ![i] = next]
  BY <1>1
<1> HIDE DEF left
<1>6. /\ next \in CallRow /\ next.kind = c.kind /\ next.sent = c.sent /\ next.stage = c.stage
      /\ next.answer = c.answer /\ next.who = c.who /\ next # NoCall
  <2>1. next \in CallRow
    BY <1>3, <1>4 DEF CallRow
  <2> QED BY <1>3, <2>1, NoCallIsNone DEF CallRow
<1> HIDE DEF next
<1>7. /\ pending'[i] = next /\ \A j \in (1 .. MaxCalls) \ {i} : pending'[j] = pending[j]
      /\ \A j \in 1 .. MaxCalls : UnderWay(j)' <=> UnderWay(j)
  BY <1>2, <1>3, <1>5, <1>6 DEF UnderWay
<1>8. store' \in Pair /\ Known(store')
  <2>1. store' = [store EXCEPT !.token = 0] \/ store' = [store EXCEPT !.csrf = 0]
        \/ store' = [store EXCEPT !.token = c.answer.token]
        \/ store' = [store EXCEPT !.csrf = c.answer.csrf]
    BY <1>1, <1>3
  <2>2. Len(rows) \in Nat
    BY DEF PhoneInv, PhoneTypes
  <2> QED BY <1>3, <2>1, <2>2 DEF Pair, Known
<1>9. PhoneTypes'
  BY <1>2, <1>3, <1>5, <1>6, <1>8 DEF PhoneInv, PhoneTypes
<1>10. ASSUME NEW j \in 1 .. MaxCalls, UnderWay(j)' PROVE CallHolds(pending[j])'
  <2>1. UnderWay(j) /\ CallHolds(pending[j])
    BY <1>7, <1>10 DEF PhoneInv
  <2>2. CASE j = i
    BY <1>2, <1>6, <1>7, <2>1, <2>2 DEF CallHolds, Known, GoodPair
  <2>3. CASE j # i
    BY <1>2, <1>7, <2>1, <2>3 DEF CallHolds, Known, GoodPair
  <2> QED BY <2>2, <2>3
<1>11. ASSUME NEW j \in 1 .. MaxCalls PROVE MeHolds(j)'
  <2>1. MeHolds(j)
    BY DEF PhoneInv
  <2>2. CASE j = i
    BY <1>2, <1>6, <1>7, <2>1, <2>2 DEF MeHolds
  <2>3. CASE j # i
    BY <1>2, <1>7, <2>1, <2>3 DEF MeHolds
  <2> QED BY <2>2, <2>3
<1>12. MemoryHolds'
  <2>1. Restored' => Restored
    BY <1>6, <1>7 DEF Restored
  <2> QED BY <1>2, <1>7, <1>8, <2>1 DEF PhoneInv, MemoryHolds, Known, GoodPair
<1>13. ApartHolds'
  <2>1. \A j \in 1 .. MaxCalls : UnderWay(j) =>
          pending'[j].stage = pending[j].stage /\ pending'[j].answer = pending[j].answer
    BY <1>6, <1>7
  <2> QED BY <1>2, <1>7, <2>1 DEF PhoneInv, ApartHolds
<1> QED BY <1>9, <1>10, <1>11, <1>12, <1>13 DEF PhoneInv

\* A login or a switch that has failed is given up.
LEMMA GiveUpKeepsInv ==
  ASSUME PhoneInv, NEW i \in 1 .. MaxCalls, pending[i] # NoCall, GiveUp(i),
         UNCHANGED <<rows, issued, store, shown, opened, crossed>>
  PROVE  PhoneInv'
<1>1. /\ pending' = [pending EXCEPT ![i] = NoCall] /\ UNCHANGED memory
      /\ pending[i].kind # "ME" /\ pending[i].stage \notin {"WRITING", "CLEARING"}
      /\ pending \in [1 .. MaxCalls -> CallRow \cup {NoCall}]
  BY DEF GiveUp, PhoneInv, PhoneTypes
<1>2. /\ ~ UnderWay(i)' /\ UnderWay(i)
      /\ \A j \in (1 .. MaxCalls) \ {i} :
           pending'[j] = pending[j] /\ (UnderWay(j)' <=> UnderWay(j))
  BY <1>1 DEF UnderWay
<1>3. PhoneTypes'
  BY <1>1 DEF PhoneInv, PhoneTypes
<1>4. ASSUME NEW j \in 1 .. MaxCalls, UnderWay(j)' PROVE CallHolds(pending[j])'
  BY <1>2, <1>4 DEF PhoneInv, CallHolds, Known, GoodPair
<1>5. ASSUME NEW j \in 1 .. MaxCalls PROVE MeHolds(j)'
  BY <1>1, <1>2 DEF PhoneInv, MeHolds
<1>6. MemoryHolds'
  <2>1. Restored' => Restored
    BY <1>1, <1>2 DEF Restored
  <2> QED BY <1>1, <1>2, <2>1 DEF PhoneInv, MemoryHolds, Known, GoodPair
<1>7. ApartHolds'
  BY <1>1, <1>2 DEF PhoneInv, ApartHolds
<1> QED BY <1>3, <1>4, <1>5, <1>6, <1>7 DEF PhoneInv

\* A call has written what it had to, and what it came with is shown; the
\* pages of the others may be gone.
LEMMA FinishKeepsInv ==
  ASSUME PhoneInv, NEW i \in 1 .. MaxCalls, Finish(i)
  PROVE  PhoneInv'
<1> DEFINE c == pending[i]
           who == IF c.answer.token = 0 THEN Nobody ELSE c.who
<1>1. /\ UnderWay(i) /\ c.stage = "WRITING" /\ shown' = who
      /\ UNCHANGED <<rows, issued, memory, store, opened, crossed>>
      /\ pending' = [j \in DOMAIN pending |->
             IF j = i THEN NoCall
             ELSE IF pending[j] # NoCall /\ who = Nobody
                  THEN [pending[j] EXCEPT !.here = FALSE]
                  ELSE pending[j]]
  BY DEF Finish, UnderWay
<1>2. /\ pending \in [1 .. MaxCalls -> CallRow \cup {NoCall}]
      /\ c \in CallRow /\ CallHolds(c) /\ who \in Employers \cup {Nobody}
  <2>1. c \in CallRow
    BY <1>1 DEF PhoneInv, PhoneTypes, UnderWay
  <2> QED BY <1>1, <2>1 DEF PhoneInv, PhoneTypes, CallRow
<1>3. ASSUME NEW j \in (1 .. MaxCalls) \ {i}
      PROVE  /\ UnderWay(j)' <=> UnderWay(j)
             /\ ~ UnderWay(j) => pending'[j] = NoCall
             /\ UnderWay(j) =>
                  /\ pending'[j] \in CallRow /\ pending'[j].kind = pending[j].kind
                  /\ pending'[j].stage = pending[j].stage
                  /\ pending'[j].sent = pending[j].sent
                  /\ pending'[j].answer = pending[j].answer
                  /\ pending'[j].who = pending[j].who
  <2>1. CASE UnderWay(j) /\ who = Nobody
    <3> DEFINE gone == [pending[j] EXCEPT !.here = FALSE]
    <3>1. pending[j] \in CallRow
      BY <1>2, <2>1 DEF UnderWay
    <3>2. /\ gone \in CallRow /\ gone.kind = pending[j].kind
          /\ gone.stage = pending[j].stage /\ gone.sent = pending[j].sent
          /\ gone.answer = pending[j].answer /\ gone.who = pending[j].who
      BY <3>1 DEF CallRow
    <3>3. pending'[j] = gone
      BY <1>1, <1>2, <2>1 DEF UnderWay
    <3> HIDE DEF gone
    <3> QED BY <2>1, <3>2, <3>3, NoCallIsNone DEF UnderWay
  <2>2. CASE UnderWay(j) /\ who # Nobody
    <3>1. pending'[j] = pending[j]
      BY <1>1, <1>2, <2>2
    <3> QED BY <1>2, <2>2, <3>1 DEF UnderWay
  <2>3. CASE ~ UnderWay(j)
    <3>1. pending'[j] = pending[j]
      BY <1>1, <1>2, <2>3 DEF UnderWay
    <3> QED BY <2>3, <3>1 DEF UnderWay
  <2> QED BY <2>1, <2>2, <2>3
<1>4. pending'[i] = NoCall /\ ~ UnderWay(i)'
  BY <1>1, <1>2 DEF UnderWay
<1>5. PhoneTypes'
  <2>1. pending' \in [1 .. MaxCalls -> CallRow \cup {NoCall}]
    <3>1. \A j \in 1 .. MaxCalls : pending'[j] \in CallRow \cup {NoCall}
      BY <1>3, <1>4
    <3>2. /\ DOMAIN pending' = 1 .. MaxCalls
          /\ pending' = [j \in DOMAIN pending' |-> pending'[j]]
      BY <1>1, <1>2
    <3> QED BY <3>1, <3>2
  <2> QED BY <1>1, <1>2, <2>1 DEF PhoneInv, PhoneTypes
<1>6. ASSUME NEW j \in 1 .. MaxCalls, UnderWay(j)' PROVE CallHolds(pending[j])'
  <2>1. j # i /\ UnderWay(j) /\ CallHolds(pending[j])
    BY <1>3, <1>4, <1>6 DEF PhoneInv
  <2> QED BY <1>1, <1>3, <2>1 DEF CallHolds, Known, GoodPair
<1>7. ASSUME NEW j \in 1 .. MaxCalls PROVE MeHolds(j)'
  <2> SUFFICES ASSUME UnderWay(j)', pending'[j].kind = "ME" PROVE FALSE
    BY DEF MeHolds
  <2>1. j # i /\ UnderWay(j) /\ pending[j].kind = "ME"
    BY <1>3, <1>4
  <2> QED BY <1>1, <2>1 DEF PhoneInv, MeHolds
<1>8. MemoryHolds'
  <2>1. Restored
    <3> SUFFICES ASSUME NEW j \in 1 .. MaxCalls, UnderWay(j), pending[j].kind = "ME"
                 PROVE  pending[j].stage = "WRITING"
      BY DEF Restored
    <3>1. j = i
      BY <1>1 DEF PhoneInv, MeHolds
    <3> QED BY <1>1, <3>1
  <2>2. opened
    BY <1>1 DEF PhoneInv, MemoryHolds
  <2> QED BY <1>1, <2>1, <2>2 DEF PhoneInv, MemoryHolds, Known, GoodPair
<1>9. ApartHolds'
  <2> SUFFICES ASSUME ~ crossed PROVE ApartHolds'
    BY <1>1 DEF ApartHolds
  <2>1. \A j \in 1 .. MaxCalls : ~ UnderWay(j)'
    BY <1>1, <1>3, <1>4 DEF PhoneInv, ApartHolds
  <2>2. memory = c.answer
    BY <1>1 DEF PhoneInv, ApartHolds
  <2>3. who # Nobody => c.answer.token # 0 /\ rows[c.answer.token].employer = who
    BY <1>1, <1>2 DEF CallHolds
  <2> QED BY <1>1, <2>1, <2>2, <2>3 DEF ApartHolds
<1> QED BY <1>5, <1>6, <1>7, <1>8, <1>9 DEF PhoneInv

\* The app dies, and a session ends.
LEMMA EndingsKeepInv ==
  ASSUME PhoneInv, Kill \/ ServerEnds
  PROVE  PhoneInv'
<1>1. NoSecrets \in Pair /\ NoSecrets.token = 0
  BY DEF NoSecrets, Pair
<1>2. rows \in Seq(PhoneRow) /\ Len(rows) \in Nat /\ DOMAIN rows = 1 .. Len(rows)
      /\ pending \in [1 .. MaxCalls -> CallRow \cup {NoCall}]
  BY DEF PhoneInv, PhoneTypes
<1>3. CASE Kill
  <2>1. /\ opened' = FALSE /\ memory' = NoSecrets /\ shown' = Nobody /\ crossed' = FALSE
        /\ pending' = [i \in 1 .. MaxCalls |-> NoCall]
        /\ UNCHANGED <<rows, issued, store>>
    BY <1>2, <1>3 DEF Kill
  <2>2. \A i \in 1 .. MaxCalls : ~ UnderWay(i)'
    BY <2>1 DEF UnderWay
  <2>3. PhoneTypes'
    BY <1>1, <2>1 DEF PhoneInv, PhoneTypes
  <2>4. Known(memory)' /\ Known(store)'
    BY <1>1, <1>2, <2>1 DEF PhoneInv, MemoryHolds, Known
  <2> QED BY <2>1, <2>2, <2>3, <2>4 DEF PhoneInv, MeHolds, MemoryHolds, ApartHolds
<1>4. CASE ServerEnds
  <2>1. PICK n \in DOMAIN rows : rows' = [rows EXCEPT ![n].live = FALSE]
    BY <1>4 DEF ServerEnds, RowRevoked
  <2>2. UNCHANGED <<issued, memory, store, shown, opened, pending, crossed>>
    BY <1>4 DEF ServerEnds
  <2> DEFINE ended == [rows[n] EXCEPT !.live = FALSE]
  <2>3. rows[n] \in PhoneRow
    BY <1>2
  <2>4. ended \in PhoneRow /\ ended.csrf = rows[n].csrf /\ ended.employer = rows[n].employer
    BY <2>3 DEF PhoneRow
  <2>5. rows' = [rows EXCEPT ![n] = ended]
    BY <2>1
  <2> HIDE DEF ended
  <2>6. /\ rows' \in Seq(PhoneRow) /\ Len(rows') = Len(rows) /\ DOMAIN rows' = DOMAIN rows
        /\ \A m \in DOMAIN rows : rows'[m].csrf = rows[m].csrf
                                  /\ rows'[m].employer = rows[m].employer
    BY <1>2, <2>4, <2>5
  <2>7. \A p \in Pair : (Known(p) <=> Known(p)') /\ (GoodPair(p) <=> GoodPair(p)')
    BY <2>6 DEF Known, GoodPair
  <2>8. PhoneTypes'
    BY <2>2, <2>6 DEF PhoneInv, PhoneTypes
  <2>9. ASSUME NEW i \in 1 .. MaxCalls, UnderWay(i)' PROVE CallHolds(pending[i])'
    <3>1. RowsKept /\ CsrfKept
      BY <1>2, <2>6 DEF RowsKept, CsrfKept
    <3>2. PICK c \in CallRow : c = pending[i] /\ c = pending'[i]
      BY <1>2, <2>2, <2>9 DEF UnderWay
    <3>3. CallHolds(c)
      BY <2>2, <2>9, <3>2 DEF PhoneInv, UnderWay
    <3>4. CallHolds(c)'
      BY <1>2, <3>1, <3>3, StaysGood
    <3> QED BY <3>2, <3>4 DEF CallHolds, Known, GoodPair
  <2>10. MemoryHolds'
    BY <2>2, <2>6 DEF PhoneInv, MemoryHolds, Restored, UnderWay, Known, GoodPair
  <2>11. ApartHolds'
    <3>1. memory.token # 0 => memory.token \in DOMAIN rows
      BY <1>2 DEF PhoneInv, PhoneTypes, MemoryHolds, Known, Pair
    <3> QED BY <2>2, <2>6, <3>1 DEF PhoneInv, ApartHolds, UnderWay
  <2>12. \A i \in 1 .. MaxCalls : MeHolds(i)'
    BY <2>2 DEF PhoneInv, MeHolds, UnderWay
  <2> QED BY <2>8, <2>9, <2>10, <2>11, <2>12 DEF PhoneInv
<1> QED BY <1>3, <1>4

\* Every step keeps the invariant.
LEMMA PhoneInvKept ==
  ASSUME PhoneInv, [PhoneNext]_phoneVars
  PROVE  PhoneInv'
<1>1. CASE UNCHANGED phoneVars
  BY <1>1 DEF PhoneInv, PhoneTypes, CallHolds, MeHolds, MemoryHolds, ApartHolds,
              Restored, UnderWay, Known, GoodPair, phoneVars
<1>2. DOMAIN pending = 1 .. MaxCalls
  BY DEF PhoneInv, PhoneTypes
<1>3. ASSUME NEW i \in 1 .. MaxCalls, LoseCall(i) PROVE PhoneInv'
  BY <1>3, RefusedKeepsInv DEF LoseCall, UnderWay
<1>4. ASSUME NEW i \in 1 .. MaxCalls, Take(i) PROVE PhoneInv'
  BY <1>4, TakingKeepsInv, GiveUpKeepsInv DEF Take
<1>5. ASSUME NEW i \in 1 .. MaxCalls, SaveSession(i) PROVE PhoneInv'
  BY <1>5, TakingKeepsInv
<1> QED BY <1>1, <1>2, <1>3, <1>4, <1>5, BeginningKeepsInv, ServingKeepsInv,
           WriteKeyKeepsInv, FinishKeepsInv, EndingsKeepInv
        DEF PhoneNext

\* The invariant of the phone in every state of a behaviour.
LEMMA PhoneInvHolds == PhoneSpec => []PhoneInv
<1>1. PhoneInit => PhoneInv
  <2> SUFFICES ASSUME PhoneInit PROVE PhoneInv
    OBVIOUS
  <2>1. \A i \in 1 .. MaxCalls : ~ UnderWay(i)
    BY DEF PhoneInit, UnderWay
  <2>2. NoSecrets \in Pair /\ NoSecrets.token = 0
    BY DEF NoSecrets, Pair
  <2>3. PhoneTypes
    <3>1. <<>> \in Seq(PhoneRow)
      OBVIOUS
    <3>2. rows \in Seq(PhoneRow) /\ issued \in Nat /\ memory \in Pair /\ store \in Pair
      BY <2>2, <3>1 DEF PhoneInit
    <3>3. pending \in [1 .. MaxCalls -> CallRow \cup {NoCall}]
      BY DEF PhoneInit
    <3> QED BY <3>2, <3>3 DEF PhoneInit, PhoneTypes
  <2>4. Known(memory) /\ Known(store)
    BY <2>2 DEF PhoneInit, Known
  <2> QED BY <2>1, <2>3, <2>4 DEF PhoneInit, PhoneInv, MeHolds, MemoryHolds, ApartHolds
<1> QED BY <1>1, PhoneInvKept, PTL DEF PhoneSpec

(***************************************************************************)
(* Once the app has loaded, the CSRF token in its memory is the one that   *)
(* the API holds for the session in its memory while that session lives,   *)
(* wherever the app died or an answer was lost before; and the app, when   *)
(* idle, shows the employment of that session, if its calls did not        *)
(* overlap.                                                                *)
(***************************************************************************)
THEOREM ShownSessionCanAlwaysAct == PhoneSpec => []ShownSessionCanAct
<1>1. PhoneInv => ShownSessionCanAct
  <2> SUFFICES ASSUME PhoneInv, opened, ~ Loading
               PROVE  /\ memory.token # 0 /\ rows[memory.token].live
                           => memory.csrf = rows[memory.token].csrf
                      /\ shown # Nobody /\ ~ crossed
                           /\ (\A i \in DOMAIN pending : pending[i] = NoCall)
                         => memory.token # 0 /\ rows[memory.token].employer = shown
    BY DEF ShownSessionCanAct
  <2>1. DOMAIN pending = 1 .. MaxCalls
    BY DEF PhoneInv, PhoneTypes
  <2>2. Restored
    BY <2>1 DEF Restored, Loading, Running, UnderWay
  <2>3. GoodPair(memory)
    BY <2>2 DEF PhoneInv, MemoryHolds
  <2> QED BY <2>1, <2>3 DEF GoodPair, PhoneInv, ApartHolds, UnderWay
<1> QED BY <1>1, PhoneInvHolds, PTL

\* What the types of PhoneInv leave open: only so many sessions are opened and
\* CSRF tokens issued, and what is held anywhere is one of those.
Issued(csrf) == csrf <= MaxTokens

PhoneRowsBounded ==
  /\ Len(rows) <= MaxSessions /\ issued <= MaxTokens
  /\ \A n \in DOMAIN rows : rows[n].csrf # 0 /\ Issued(rows[n].csrf)

CallBounded(c) == Issued(c.sent.csrf) /\ Issued(c.answer.csrf)

CallsBounded == \A i \in 1 .. MaxCalls : UnderWay(i) => CallBounded(pending[i])

SecretsBounded == Issued(memory.csrf) /\ Issued(store.csrf)

PhoneBounded == PhoneRowsBounded /\ CallsBounded /\ SecretsBounded

\* One call changes.
LEMMA CallChanges ==
  ASSUME PhoneInv, CallsBounded, NEW i \in 1 .. MaxCalls, NEW next,
         CallBounded(next) \/ next = NoCall,
         pending' = [pending EXCEPT ![i] = next]
  PROVE  CallsBounded'
<1>1. \A j \in 1 .. MaxCalls : pending'[j] # NoCall => CallBounded(pending'[j])
  BY DEF PhoneInv, PhoneTypes, CallsBounded, UnderWay
<1> QED BY <1>1 DEF CallsBounded, UnderWay, CallBounded, Issued

\* A call is answered, refused, or its answer taken.
LEMMA CallMovesOn ==
  ASSUME PhoneInv, CallsBounded, NEW i \in 1 .. MaxCalls, UnderWay(i),
         NEW secrets, Issued(secrets.csrf)
  PROVE  /\ \A who : Answer(i, secrets, who) => CallsBounded'
         /\ Refuse(i) => CallsBounded'
         /\ \A keys, stage : Puts(i, secrets, keys, stage)
              => CallsBounded' /\ memory' = secrets
<1>1. pending[i] \in CallRow /\ CallBounded(pending[i])
  BY DEF PhoneInv, PhoneTypes, CallsBounded, UnderWay
<1>2. ASSUME NEW who, Answer(i, secrets, who) PROVE CallsBounded'
  <2> DEFINE next == [pending[i] EXCEPT !.stage = "ANSWERED", !.answer = secrets,
                                        !.who = who]
  <2>1. next.sent = pending[i].sent /\ next.answer = secrets
    BY <1>1 DEF CallRow
  <2>2. pending' = [pending EXCEPT ![i] = next]
    BY <1>2 DEF Answer
  <2>3. CallBounded(next)
    BY <1>1, <2>1 DEF CallBounded
  <2> HIDE DEF next
  <2> QED BY <2>2, <2>3, CallChanges
<1>3. ASSUME Refuse(i) PROVE CallsBounded'
  <2> DEFINE next == [pending[i] EXCEPT !.stage = "FAILED"]
  <2>1. next.sent = pending[i].sent /\ next.answer = pending[i].answer
    BY <1>1 DEF CallRow
  <2>2. pending' = [pending EXCEPT ![i] = next]
    BY <1>3 DEF Refuse
  <2>3. CallBounded(next)
    BY <1>1, <2>1 DEF CallBounded
  <2> HIDE DEF next
  <2> QED BY <2>2, <2>3, CallChanges
<1>4. ASSUME NEW keys, NEW stage, Puts(i, secrets, keys, stage)
      PROVE  CallsBounded' /\ memory' = secrets
  <2> DEFINE next == [pending[i] EXCEPT !.writes = keys, !.answer = secrets,
                                        !.stage = stage]
  <2>1. next.sent = pending[i].sent /\ next.answer = secrets
    BY <1>1 DEF CallRow
  <2>2. pending' = [pending EXCEPT ![i] = next] /\ memory' = secrets
    BY <1>4 DEF Puts
  <2>3. CallBounded(next)
    BY <1>1, <2>1 DEF CallBounded
  <2> HIDE DEF next
  <2> QED BY <2>2, <2>3, CallChanges
<1> QED BY <1>2, <1>3, <1>4

\* A session is opened, after the rows that there are or what a switch made of
\* them.
LEMMA OpeningBounded ==
  ASSUME PhoneInv, PhoneBounded, NEW i \in 1 .. MaxCalls, UnderWay(i),
         NEW given \in Seq(PhoneRow), Len(given) = Len(rows),
         \A n \in DOMAIN rows : given[n].csrf = rows[n].csrf,
         NEW employer \in Employers, OpenRow(i, given, employer)
  PROVE  PhoneRowsBounded' /\ CallsBounded'
<1> DEFINE new == [employer |-> employer, csrf |-> issued + 1, live |-> TRUE]
           secrets == [token |-> Len(rows) + 1, csrf |-> issued + 1]
<1>1. /\ rows \in Seq(PhoneRow) /\ Len(rows) \in Nat /\ DOMAIN rows = 1 .. Len(rows)
      /\ issued \in Nat
  BY DEF PhoneInv, PhoneTypes
<1>2. /\ Len(rows) < MaxSessions /\ issued < MaxTokens /\ issued' = issued + 1
      /\ rows' = Append(given, new) /\ Answer(i, secrets, employer)
  BY DEF OpenRow
<1>3. issued' <= MaxTokens /\ Issued(new.csrf) /\ Issued(secrets.csrf) /\ new.csrf # 0
  BY <1>1, <1>2, PhoneSessionAssumption DEF Issued
<1> HIDE DEF new, secrets
<1>4. /\ Len(rows') = Len(rows) + 1 /\ DOMAIN rows' = 1 .. Len(rows) + 1
      /\ \A n \in DOMAIN rows' :
           rows'[n] = new \/ (n \in DOMAIN rows /\ rows'[n] = given[n])
  BY <1>1, <1>2
<1>5. \A n \in DOMAIN rows' : rows'[n].csrf # 0 /\ Issued(rows'[n].csrf)
  BY <1>3, <1>4 DEF PhoneBounded, PhoneRowsBounded
<1>6. Len(rows') <= MaxSessions
  BY <1>1, <1>2, <1>4, PhoneSessionAssumption
<1>7. CallsBounded'
  BY <1>2, <1>3, CallMovesOn DEF PhoneBounded
<1> QED BY <1>3, <1>5, <1>6, <1>7 DEF PhoneRowsBounded, Issued

\* The API answers.
LEMMA ServingBounded ==
  ASSUME PhoneInv, PhoneBounded, NEW i \in 1 .. MaxCalls, Serve(i)
  PROVE  PhoneBounded'
<1> DEFINE sent == pending[i].sent
<1>1. /\ rows \in Seq(PhoneRow) /\ Len(rows) \in Nat /\ DOMAIN rows = 1 .. Len(rows)
      /\ issued \in Nat /\ NoSecrets.csrf = 0 /\ Issued(NoSecrets.csrf)
  BY PhoneSessionAssumption DEF PhoneInv, PhoneTypes, NoSecrets, Issued
<1>2. UnderWay(i) /\ UNCHANGED <<memory, store>> /\ CallsBounded /\ PhoneRowsBounded
  BY DEF Serve, UnderWay, PhoneBounded
<1>3. /\ sent \in Pair /\ sent.token \in 0 .. Len(rows) /\ Issued(sent.csrf)
      /\ Authenticated(sent) => sent.token \in DOMAIN rows
  BY <1>1, <1>2 DEF PhoneInv, PhoneTypes, UnderWay, CallRow, CallHolds, Known,
                    CallsBounded, CallBounded, Authenticated
<1>4. SecretsBounded'
  BY <1>2 DEF PhoneBounded, SecretsBounded, Issued
<1>5. UNCHANGED <<rows, issued>> => PhoneRowsBounded'
  BY <1>2 DEF PhoneRowsBounded, Issued
<1>6. \A n \in DOMAIN rows :
        /\ RowRevoked(n) \in Seq(PhoneRow) /\ Len(RowRevoked(n)) = Len(rows)
        /\ \A m \in DOMAIN rows : RowRevoked(n)[m].csrf = rows[m].csrf
  <2> SUFFICES ASSUME NEW n \in DOMAIN rows
               PROVE  /\ RowRevoked(n) \in Seq(PhoneRow)
                      /\ Len(RowRevoked(n)) = Len(rows)
                      /\ \A m \in DOMAIN rows : RowRevoked(n)[m].csrf = rows[m].csrf
    OBVIOUS
  <2> DEFINE ended == [rows[n] EXCEPT !.live = FALSE]
  <2>0. rows[n] \in PhoneRow
    BY <1>1
  <2>1. ended \in PhoneRow /\ ended.csrf = rows[n].csrf
    BY <2>0 DEF PhoneRow
  <2>2. RowRevoked(n) = [rows EXCEPT ![n] = ended]
    BY DEF RowRevoked
  <2> HIDE DEF ended
  <2> QED BY <1>1, <2>1, <2>2
<1>7. ASSUME UNCHANGED <<rows, issued>>, NEW secrets, Issued(secrets.csrf),
             Refuse(i) \/ \E who : Answer(i, secrets, who)
      PROVE  PhoneBounded'
  BY <1>2, <1>4, <1>5, <1>7, CallMovesOn DEF PhoneBounded
<1>8. CASE ServeMe(i)
  <2>1. CASE Answer(i, NoSecrets, Nobody) /\ UNCHANGED <<rows, issued>>
    BY <1>1, <1>7, <2>1
  <2>2. CASE Answer(i, sent, rows[sent.token].employer) /\ UNCHANGED <<rows, issued>>
    BY <1>3, <1>7, <2>2
  <2>3. CASE /\ Authenticated(sent)
             /\ issued < MaxTokens /\ issued' = issued + 1
             /\ rows' = [rows EXCEPT ![sent.token].csrf = issued + 1]
             /\ Answer(i, [sent EXCEPT !.csrf = issued + 1], rows[sent.token].employer)
    <3> DEFINE next == [sent EXCEPT !.csrf = issued + 1]
               new == [rows[sent.token] EXCEPT !.csrf = issued + 1]
    <3>1. issued' <= MaxTokens /\ Issued(issued + 1) /\ issued + 1 # 0
      BY <1>1, <2>3, PhoneSessionAssumption DEF Issued
    <3>2. next.csrf = issued + 1
      BY <1>3 DEF Pair
    <3>3. sent.token \in DOMAIN rows /\ rows[sent.token] \in PhoneRow
      BY <1>1, <1>3, <2>3
    <3>4. new.csrf = issued + 1 /\ rows' = [rows EXCEPT ![sent.token] = new]
      BY <2>3, <3>3 DEF PhoneRow
    <3>5. Answer(i, next, rows[sent.token].employer)
      BY <2>3
    <3> HIDE DEF next, new, sent
    <3>6. CallsBounded'
      BY <1>2, <3>1, <3>2, <3>5, CallMovesOn
    <3>7. /\ Len(rows') = Len(rows) /\ DOMAIN rows' = DOMAIN rows
          /\ \A n \in DOMAIN rows' : rows'[n] = new \/ rows'[n] = rows[n]
      BY <1>1, <3>3, <3>4
    <3>8. PhoneRowsBounded'
      BY <1>2, <3>1, <3>4, <3>7 DEF PhoneRowsBounded, Issued
    <3> QED BY <1>4, <3>6, <3>8 DEF PhoneBounded
  <2> QED BY <1>8, <2>1, <2>2, <2>3 DEF ServeMe
<1>9. CASE ServeLogin(i)
  BY <1>1, <1>2, <1>4, <1>9, OpeningBounded DEF ServeLogin, PhoneBounded
<1>10. CASE ServeSwitch(i)
  <2>1. CASE Refuse(i) /\ UNCHANGED <<rows, issued>>
    BY <1>1, <1>7, <2>1
  <2>2. ASSUME CsrfAccepted(sent), NEW employer \in Employers,
               OpenRow(i, RowRevoked(sent.token), employer)
        PROVE  PhoneBounded'
    <3>1. sent.token \in DOMAIN rows
      BY <1>3, <2>2 DEF CsrfAccepted
    <3> HIDE DEF sent
    <3> QED BY <1>2, <1>4, <1>6, <2>2, <3>1, OpeningBounded DEF PhoneBounded
  <2> QED BY <1>10, <2>1, <2>2 DEF ServeSwitch
<1>11. CASE ServeLogout(i)
  <2>1. CASE Refuse(i) /\ UNCHANGED <<rows, issued>>
    BY <1>1, <1>7, <2>1
  <2>2. CASE /\ CsrfAccepted(sent) /\ rows' = RowRevoked(sent.token)
             /\ Answer(i, NoSecrets, Nobody) /\ UNCHANGED issued
    <3>1. sent.token \in DOMAIN rows
      BY <1>3, <2>2 DEF CsrfAccepted
    <3>2. CallsBounded'
      BY <1>1, <1>2, <2>2, CallMovesOn
    <3> HIDE DEF sent
    <3>3. rows' \in Seq(PhoneRow) /\ Len(rows') = Len(rows)
      BY <1>6, <2>2, <3>1
    <3>4. \A m \in DOMAIN rows : rows'[m].csrf = rows[m].csrf
      BY <1>6, <2>2, <3>1
    <3>5. DOMAIN rows' = DOMAIN rows
      BY <1>1, <3>3
    <3>6. PhoneRowsBounded'
      BY <1>2, <2>2, <3>3, <3>4, <3>5 DEF PhoneRowsBounded, Issued
    <3> QED BY <1>4, <3>2, <3>6 DEF PhoneBounded
  <2> QED BY <1>11, <2>1, <2>2 DEF ServeLogout
<1>12. pending[i].kind \in {"ME", "LOGIN", "SWITCH", "LOGOUT"}
  BY <1>2 DEF PhoneInv, PhoneTypes, UnderWay, CallRow
<1> QED BY <1>8, <1>9, <1>10, <1>11, <1>12 DEF Serve

LEMMA PhoneBoundedKept ==
  ASSUME PhoneInv, PhoneBounded, [PhoneNext]_phoneVars
  PROVE  PhoneBounded'
<1>1. /\ rows \in Seq(PhoneRow) /\ Len(rows) \in Nat /\ DOMAIN rows = 1 .. Len(rows)
      /\ NoSecrets.csrf = 0 /\ Issued(NoSecrets.csrf) /\ NoSecrets \in Pair
      /\ memory \in Pair /\ store \in Pair
      /\ DOMAIN pending = 1 .. MaxCalls
  BY PhoneSessionAssumption DEF PhoneInv, PhoneTypes, NoSecrets, Issued, Pair
<1>2. PhoneRowsBounded /\ CallsBounded /\ SecretsBounded
  BY DEF PhoneBounded
<1>3. UNCHANGED <<rows, issued>> => PhoneRowsBounded'
  BY <1>2 DEF PhoneRowsBounded, Issued
<1>4. UNCHANGED pending => CallsBounded'
  BY <1>2 DEF CallsBounded, UnderWay, CallBounded, Issued
<1>5. ASSUME NEW kind, NEW secrets, Begin(kind, secrets), Issued(secrets.csrf)
      PROVE  CallsBounded'
  <2>1. PICK i \in 1 .. MaxCalls : pending' = [pending EXCEPT ![i] =
         [kind |-> kind, stage |-> "ASKED", sent |-> secrets,
          answer |-> NoSecrets, who |-> Nobody, writes |-> {}, here |-> TRUE]]
    BY <1>1, <1>5 DEF Begin
  <2> DEFINE next == [kind |-> kind, stage |-> "ASKED", sent |-> secrets,
          answer |-> NoSecrets, who |-> Nobody, writes |-> {}, here |-> TRUE]
  <2>2. CallBounded(next)
    BY <1>1, <1>5 DEF CallBounded
  <2> HIDE DEF next
  <2> QED BY <1>2, <2>1, <2>2, CallChanges DEF next
<1>6. CASE OpenApp
  <2>1. Issued(store.csrf) /\ Begin("ME", store) /\ memory' = store
        /\ UNCHANGED <<rows, issued, store>>
    BY <1>2, <1>6 DEF OpenApp, SecretsBounded
  <2> QED BY <1>3, <1>5, <2>1 DEF PhoneBounded, SecretsBounded, Issued
<1>7. CASE PressLogin \/ PressSwitch \/ PressLogout
  <2>1. Issued(memory.csrf) /\ (\E kind : Begin(kind, memory))
        /\ UNCHANGED <<rows, issued, store, memory>>
    BY <1>2, <1>7 DEF PressLogin, PressSwitch, PressLogout, SecretsBounded
  <2> QED BY <1>2, <1>3, <1>5, <2>1 DEF PhoneBounded, SecretsBounded, Issued
<1>8. CASE ServerEnds
  <2>1. PICK n \in DOMAIN rows : rows' = RowRevoked(n)
    BY <1>8 DEF ServerEnds
  <2> DEFINE ended == [rows[n] EXCEPT !.live = FALSE]
  <2>2. ended.csrf = rows[n].csrf /\ rows' = [rows EXCEPT ![n] = ended]
    BY <1>1, <2>1 DEF PhoneRow, RowRevoked
  <2> HIDE DEF ended
  <2>3. /\ Len(rows') = Len(rows) /\ DOMAIN rows' = DOMAIN rows
        /\ \A m \in DOMAIN rows : rows'[m].csrf = rows[m].csrf
    BY <1>1, <2>2
  <2>4. PhoneRowsBounded'
    BY <1>2, <1>8, <2>3 DEF ServerEnds, PhoneRowsBounded, Issued
  <2> QED BY <1>2, <1>4, <1>8, <2>4 DEF ServerEnds, PhoneBounded, SecretsBounded, Issued
<1>9. CASE Kill
  <2>1. \A i \in 1 .. MaxCalls : pending'[i] = NoCall
    BY <1>1, <1>9 DEF Kill
  <2>2. CallsBounded'
    BY <2>1 DEF CallsBounded, UnderWay
  <2> QED BY <1>1, <1>2, <1>3, <1>9, <2>2 DEF Kill, PhoneBounded, SecretsBounded, Issued
<1>10. ASSUME NEW i \in 1 .. MaxCalls, UnderWay(i)
       PROVE  /\ pending[i] \in CallRow
              /\ Issued(pending[i].answer.csrf) /\ Issued(pending[i].sent.csrf)
  BY <1>2, <1>10 DEF PhoneInv, PhoneTypes, UnderWay, CallsBounded, CallBounded
<1>11. ASSUME NEW i \in 1 .. MaxCalls, LoseCall(i)
       PROVE  PhoneBounded'
  <2>1. UnderWay(i) /\ Refuse(i) /\ UNCHANGED <<rows, issued, memory, store>>
    BY <1>11 DEF LoseCall, UnderWay
  <2> QED BY <1>1, <1>2, <1>3, <2>1, CallMovesOn DEF PhoneBounded, SecretsBounded, Issued
<1>12. ASSUME NEW i \in 1 .. MaxCalls, UnderWay(i), NEW secrets, NEW keys, NEW stage,
              Puts(i, secrets, keys, stage), Issued(secrets.csrf),
              UNCHANGED <<rows, issued, store>>
       PROVE  PhoneBounded'
  BY <1>2, <1>3, <1>12, CallMovesOn DEF PhoneBounded, SecretsBounded, Issued
<1>13. ASSUME NEW i \in 1 .. MaxCalls, Take(i)
       PROVE  PhoneBounded'
  <2>1. UnderWay(i) /\ UNCHANGED <<rows, issued, store>>
    BY <1>13 DEF Take, UnderWay
  <2>2. CASE TakeCsrf(i)
    <3> DEFINE secrets == [memory EXCEPT !.csrf = pending[i].answer.csrf]
    <3>1. Issued(secrets.csrf)
      BY <1>1, <1>10, <2>1 DEF Pair
    <3>2. Puts(i, secrets, {"csrf"}, "WRITING")
      BY <2>2 DEF TakeCsrf
    <3> HIDE DEF secrets
    <3> QED BY <1>12, <2>1, <3>1, <3>2
  <2>3. CASE TakeSession(i) \/ ClearSession(i)
    BY <1>1, <1>10, <1>12, <2>1, <2>3 DEF TakeSession, ClearSession
  <2>4. CASE TakeSwitch(i)
    <3> DEFINE next == [pending[i] EXCEPT !.writes = {"token", "csrf"},
                                          !.stage = "CLEARING"]
    <3>1. next.sent = pending[i].sent /\ next.answer = pending[i].answer
      BY <1>10, <2>1 DEF CallRow
    <3>2. pending' = [pending EXCEPT ![i] = next] /\ memory' = NoSecrets
      BY <2>4 DEF TakeSwitch
    <3>3. CallBounded(next)
      BY <1>10, <2>1, <3>1 DEF CallBounded
    <3> HIDE DEF next
    <3>4. CallsBounded'
      BY <1>2, <3>2, <3>3, CallChanges
    <3> QED BY <1>1, <1>2, <1>3, <2>1, <3>2, <3>4 DEF PhoneBounded, SecretsBounded, Issued
  <2>5. CASE GiveUp(i)
    BY <1>2, <1>3, <2>1, <2>5, CallChanges DEF GiveUp, PhoneBounded, SecretsBounded, Issued
  <2> QED BY <1>13, <2>2, <2>3, <2>4, <2>5 DEF Take
<1>14. ASSUME NEW i \in 1 .. MaxCalls, SaveSession(i)
       PROVE  PhoneBounded'
  BY <1>10, <1>12, <1>14 DEF SaveSession, UnderWay
<1>15. ASSUME NEW i \in 1 .. MaxCalls, WriteKey(i)
       PROVE  PhoneBounded'
  <2>1. UnderWay(i) /\ UNCHANGED <<rows, issued, memory>>
    BY <1>15 DEF WriteKey, UnderWay
  <2>2. PICK key \in pending[i].writes :
          /\ store' = [store EXCEPT ![key] =
               IF pending[i].stage = "CLEARING" THEN 0 ELSE pending[i].answer[key]]
          /\ pending' = [pending EXCEPT ![i].writes = @ \ {key}]
    BY <1>15 DEF WriteKey
  <2>3. key \in {"token", "csrf"}
    BY <1>10, <2>1, <2>2 DEF CallRow
  <2>4. store'.csrf \in {0, store.csrf, pending[i].answer.csrf}
    BY <1>1, <2>2, <2>3 DEF Pair
  <2>5. Issued(store'.csrf)
    BY <1>2, <1>10, <2>1, <2>4, PhoneSessionAssumption DEF SecretsBounded, Issued
  <2> DEFINE next == [pending[i] EXCEPT !.writes = @ \ {key}]
  <2>6. next.sent = pending[i].sent /\ next.answer = pending[i].answer
    BY <1>10, <2>1 DEF CallRow
  <2>7. CallBounded(next) /\ pending' = [pending EXCEPT ![i] = next]
    BY <1>10, <2>1, <2>2, <2>6 DEF CallBounded
  <2> HIDE DEF next
  <2>8. CallsBounded'
    BY <1>2, <2>7, CallChanges
  <2> QED BY <1>2, <1>3, <2>1, <2>5, <2>8 DEF PhoneBounded, SecretsBounded, Issued
<1>16. ASSUME NEW i \in 1 .. MaxCalls, Finish(i)
       PROVE  PhoneBounded'
  <2>1. UNCHANGED <<rows, issued, memory, store>>
    BY <1>16 DEF Finish
  <2>2. \A j \in 1 .. MaxCalls :
          \/ pending'[j] = NoCall \/ pending'[j] = pending[j]
          \/ pending[j] # NoCall /\ pending'[j] = [pending[j] EXCEPT !.here = FALSE]
    BY <1>1, <1>16 DEF Finish
  <2>3. ASSUME NEW j \in 1 .. MaxCalls, pending'[j] # NoCall
        PROVE  CallBounded(pending'[j])
    <3>1. CASE pending'[j] = pending[j]
      BY <1>2, <2>3, <3>1 DEF CallsBounded, UnderWay
    <3>2. CASE pending[j] # NoCall /\ pending'[j] = [pending[j] EXCEPT !.here = FALSE]
      <4>1. pending[j] \in CallRow /\ CallBounded(pending[j])
        BY <1>2, <1>10, <3>2 DEF CallsBounded, UnderWay
      <4>2. pending'[j].sent = pending[j].sent /\ pending'[j].answer = pending[j].answer
        BY <3>2, <4>1 DEF CallRow
      <4> QED BY <4>1, <4>2 DEF CallBounded
    <3> QED BY <2>2, <2>3, <3>1, <3>2
  <2>4. CallsBounded'
    BY <2>3 DEF CallsBounded, UnderWay, CallBounded, Issued
  <2> QED BY <1>2, <1>3, <2>1, <2>4 DEF PhoneBounded, SecretsBounded, Issued
<1>17. CASE UNCHANGED phoneVars
  BY <1>2, <1>3, <1>4, <1>17 DEF phoneVars, PhoneBounded, SecretsBounded, Issued
<1> QED BY <1>1, <1>6, <1>7, <1>8, <1>9, <1>11, <1>13, <1>14, <1>15, <1>16, <1>17,
           ServingBounded DEF PhoneNext

(***************************************************************************)
(* What the phone and the API hold is of its type: every token that the    *)
(* memory, the store or a call holds is one that the API has issued.       *)
(***************************************************************************)
THEOREM PhoneTypeCorrect == PhoneSpec => []PhoneTypeOK
<1>1. PhoneInit => PhoneBounded
  <2> SUFFICES ASSUME PhoneInit PROVE PhoneBounded
    OBVIOUS
  <2>1. /\ \A i \in 1 .. MaxCalls : ~ UnderWay(i)
        /\ Len(rows) = 0 /\ DOMAIN rows = {} /\ issued = 0
        /\ memory.csrf = 0 /\ store.csrf = 0
    BY DEF PhoneInit, UnderWay, NoSecrets
  <2> QED BY <2>1, PhoneSessionAssumption
          DEF PhoneBounded, PhoneRowsBounded, CallsBounded, SecretsBounded, Issued
<1>2. ASSUME PhoneInv, PhoneBounded
      PROVE  PhoneTypeOK
  <2>1. PhoneTypes /\ PhoneRowsBounded /\ CallsBounded /\ SecretsBounded
    BY <1>2 DEF PhoneInv, PhoneBounded
  <2>2. /\ rows \in Seq(PhoneRow) /\ Len(rows) \in Nat /\ Len(rows) <= MaxSessions
        /\ issued \in 0 .. MaxTokens
    BY <2>1, PhoneSessionAssumption DEF PhoneTypes, PhoneRowsBounded
  <2>3. ASSUME NEW secrets \in Pair, Known(secrets), Issued(secrets.csrf)
        PROVE  secrets \in Secrets
    <3>1. secrets.token \in 0 .. MaxSessions /\ secrets.csrf \in 0 .. MaxTokens
      BY <2>2, <2>3, PhoneSessionAssumption DEF Pair, Known, Issued
    <3> QED BY <3>1 DEF Pair, Secrets
  <2>4. memory \in Secrets /\ store \in Secrets
    BY <1>2, <2>1, <2>3 DEF PhoneInv, PhoneTypes, MemoryHolds, SecretsBounded
  <2>5. rows \in Seq([employer : Employers, csrf : 1 .. MaxTokens, live : BOOLEAN])
    <3> DEFINE Bounded == [employer : Employers, csrf : 1 .. MaxTokens, live : BOOLEAN]
    <3>1. ASSUME NEW n \in DOMAIN rows
          PROVE  rows[n] \in Bounded
      <4>1. rows[n] \in PhoneRow
        BY <2>2
      <4>2. rows[n].csrf \in 1 .. MaxTokens
        BY <2>1, <4>1, PhoneSessionAssumption DEF PhoneRow, PhoneRowsBounded, Issued
      <4> QED BY <4>1, <4>2 DEF PhoneRow
    <3>2. rows = [n \in 1 .. Len(rows) |-> rows[n]] /\ DOMAIN rows = 1 .. Len(rows)
      BY <2>2
    <3> HIDE DEF Bounded
    <3>3. rows \in [1 .. Len(rows) -> Bounded]
      BY <3>1, <3>2
    <3>4. rows \in Seq(Bounded)
      BY <2>2, <3>3
    <3> QED BY <3>4 DEF Bounded
  <2>6. ASSUME NEW i \in 1 .. MaxCalls, UnderWay(i)
        PROVE  pending[i] \in Call
    <3>1. /\ pending[i] \in CallRow /\ CallHolds(pending[i])
          /\ CallBounded(pending[i])
      BY <1>2, <2>1, <2>6 DEF PhoneInv, PhoneTypes, UnderWay, CallsBounded
    <3>2. pending[i].sent \in Secrets /\ pending[i].answer \in Secrets
      BY <2>3, <3>1 DEF CallRow, CallHolds, CallBounded
    <3> QED BY <3>1, <3>2 DEF CallRow, Call
  <2>7. pending \in [1 .. MaxCalls -> Call \cup {NoCall}]
    BY <2>1, <2>6 DEF PhoneTypes, UnderWay
  <2> QED BY <2>1, <2>2, <2>4, <2>5, <2>7 DEF PhoneTypes, PhoneTypeOK
<1>3. PhoneInv /\ PhoneBounded /\ [PhoneNext]_phoneVars => PhoneBounded'
  BY PhoneBoundedKept
<1> QED BY <1>1, <1>2, <1>3, PhoneInvHolds, PTL DEF PhoneSpec

-----------------------------------------------------------------------------
(***************************************************************************)
(* What a signer's device tells.                                           *)
(***************************************************************************)

\* What is collected is within the bounds of the schema, but for the message
\* that the phone does not cut; and a place is captured if it has coordinates.
CollectedHolds ==
  /\ device # Nothing =>
       /\ Within(device.text, TextMax) /\ Within(device.language, LanguageMax)
       /\ Within(device.timezone, TimezoneMax) /\ Within(device.userAgent, UserAgentMax)
  /\ place # Nothing =>
       /\ place.coordinates <=> place.status = "CAPTURED"
       /\ place.coordinates \in BOOLEAN
       /\ \/ Within(place.errorMessage, MessageMax)
          \/ client = "phone" /\ place.status = "ERROR" /\ place.errorMessage \in Lengths

\* A verdict is about what was collected, which does not change any more.
VerdictHolds ==
  /\ verdict # "NONE" /\ client # "old" => device # Nothing /\ place # Nothing
  /\ recorded # Nothing => verdict # "NONE"

ClientInv == CollectedHolds /\ VerdictHolds /\ EvidenceNeverBlocks

\* A text that is cut is within the bound that it is cut to.
LEMMA ClipWithin ==
  ASSUME NEW n \in Nat, NEW max \in Nat
  PROVE  Within(Clip(n, max), max)
<1>1. \E x \in {n, max} : \A y \in {n, max} : x <= y
  OBVIOUS
<1>2. Min({n, max}) \in {n, max} /\ \A y \in {n, max} : Min({n, max}) <= y
  BY <1>1 DEF Min
<1> QED BY <1>2 DEF Within, Clip

\* Every step keeps the invariant.
LEMMA ClientInvKept ==
  ASSUME ClientInv, [ClientNext]_clientVars
  PROVE  ClientInv'
<1>1. CASE UNCHANGED clientVars
  BY <1>1 DEF ClientInv, CollectedHolds, VerdictHolds, EvidenceNeverBlocks, Within,
              clientVars
<1>2. CASE PortalDevice
  <2>1. \E n \in Lengths :
          /\ device'.text = Clip(n, 180) /\ device'.language = Clip(n, 40)
          /\ device'.timezone = Clip(n, 80)
          /\ device'.userAgent \in {Nothing, Clip(n, 500)}
    <3>1. \E n \in Lengths : \E type, agent :
            /\ device' = [type |-> type, text |-> Clip(n, 180), language |-> Clip(n, 40),
                          timezone |-> Clip(n, 80), userAgent |-> agent]
            /\ agent = Nothing \/ agent = Clip(n, 500)
      BY <1>2, Zenon DEF PortalDevice
    <3> QED BY <3>1
  <2>2. ASSUME NEW n \in Lengths
        PROVE  /\ Within(Clip(n, 180), 180) /\ Within(Clip(n, 40), 40)
               /\ Within(Clip(n, 80), 80) /\ Within(Clip(n, 500), 500)
    <3>1. n \in Nat
      BY ClientEvidenceAssumption
    <3>2. 180 \in Nat /\ 40 \in Nat /\ 80 \in Nat /\ 500 \in Nat
      OBVIOUS
    <3> QED BY <3>1, <3>2, ClipWithin
  <2>3. /\ Within(device'.text, TextMax) /\ Within(device'.language, LanguageMax)
        /\ Within(device'.timezone, TimezoneMax) /\ Within(device'.userAgent, UserAgentMax)
    <3>1. Within(Nothing, 500)
      BY DEF Within
    <3> QED BY <2>1, <2>2, <3>1 DEF TextMax, LanguageMax, TimezoneMax, UserAgentMax
  <2>4. /\ device = Nothing /\ client = "portal"
        /\ UNCHANGED <<client, geocoding, place, verdict, recorded>>
    BY <1>2 DEF PortalDevice
  <2>5. CollectedHolds'
    BY <2>3, <2>4 DEF ClientInv, CollectedHolds, Within
  <2> QED BY <2>4, <2>5 DEF ClientInv, VerdictHolds, EvidenceNeverBlocks
<1>3. ASSUME PortalPlace \/ PhonePlace PROVE ClientInv'
  <2>1. /\ place = Nothing /\ client # "old"
        /\ UNCHANGED <<client, geocoding, device, verdict, recorded>>
    BY <1>3 DEF PortalPlace, PhonePlace
  <2>2. /\ place'.coordinates <=> place'.status = "CAPTURED"
        /\ place'.coordinates \in BOOLEAN
        /\ \/ Within(place'.errorMessage, MessageMax)
           \/ client = "phone" /\ place'.status = "ERROR" /\ place'.errorMessage \in Lengths
    <3>1. CASE place' = Captured
      BY <3>1 DEF Captured, Within
    <3>2. CASE PortalPlace
      <4>1. PICK permission \in {"granted", "denied", "prompt", "unknown"} :
              place' \in
                {NoPlace("UNSUPPORTED", permission, Nothing, 46), Captured}
                \cup {NoPlace(StatusOfError(code),
                              IF code = 1 THEN "denied" ELSE permission,
                              code, Clip(n, 240)) : code \in 0 .. 3, n \in Lengths}
        BY <3>2 DEF PortalPlace
      <4> DEFINE said(code) == IF code = 1 THEN "denied" ELSE permission
                 refused(code, n) == NoPlace(StatusOfError(code), said(code), code, Clip(n, 240))
      <4>2. CASE place' = NoPlace("UNSUPPORTED", permission, Nothing, 46)
        BY <4>2 DEF NoPlace, Within, MessageMax
      <4>3. ASSUME NEW code \in 0 .. 3, NEW n \in Lengths, place' = refused(code, n)
            PROVE  /\ place'.coordinates = FALSE /\ place'.status # "CAPTURED"
                   /\ Within(place'.errorMessage, MessageMax)
        <5>1. StatusOfError(code) \in LocationStatus \ {"CAPTURED"}
          BY DEF StatusOfError, LocationStatus
        <5>2. Within(Clip(n, 240), 240)
          <6>1. n \in Nat /\ 240 \in Nat
            BY ClientEvidenceAssumption
          <6> QED BY <6>1, ClipWithin
        <5>3. /\ place'.status = StatusOfError(code) /\ place'.coordinates = FALSE
              /\ place'.errorMessage = Clip(n, 240)
          BY <4>3 DEF NoPlace
        <5> QED BY <5>1, <5>2, <5>3 DEF MessageMax
      <4>4. place' \in {NoPlace("UNSUPPORTED", permission, Nothing, 46), Captured}
                         \cup {refused(code, n) : code \in 0 .. 3, n \in Lengths}
        BY <4>1
      <4> HIDE DEF refused
      <4>5. \/ place' = NoPlace("UNSUPPORTED", permission, Nothing, 46)
            \/ place' = Captured
            \/ \E code \in 0 .. 3, n \in Lengths : place' = refused(code, n)
        BY <4>4
      <4> QED BY <3>1, <4>2, <4>3, <4>5
    <3>3. CASE PhonePlace
      <4>1. /\ \/ \E p : place' = NoPlace("DENIED", p, Nothing, Nothing)
               \/ \E found, timedOut \in BOOLEAN : place' = PhoneOutcome(found, timedOut)
               \/ \E n \in Lengths : place' = NoPlace("ERROR", "unknown", Nothing, n)
            /\ client = "phone"
        BY <3>3 DEF PhonePlace
      <4>2. ASSUME NEW p, place' = NoPlace("DENIED", p, Nothing, Nothing)
            PROVE  /\ place'.coordinates = FALSE /\ place'.status # "CAPTURED"
                   /\ Within(place'.errorMessage, MessageMax)
        BY <4>2 DEF NoPlace, Within
      <4>3. ASSUME NEW found \in BOOLEAN, NEW timedOut \in BOOLEAN,
                   place' = PhoneOutcome(found, timedOut)
            PROVE  \/ place' = Captured
                   \/ /\ place'.coordinates = FALSE /\ place'.status # "CAPTURED"
                      /\ Within(place'.errorMessage, MessageMax)
        BY <4>3 DEF PhoneOutcome, NoPlace, Within
      <4>4. ASSUME NEW n \in Lengths, place' = NoPlace("ERROR", "unknown", Nothing, n)
            PROVE  /\ place'.coordinates = FALSE /\ place'.status = "ERROR"
                   /\ place'.errorMessage \in Lengths
        BY <4>4 DEF NoPlace
      <4> QED BY <3>1, <4>1, <4>2, <4>3, <4>4
    <3> QED BY <1>3, <3>2, <3>3
  <2>3. CollectedHolds'
    BY <2>1, <2>2 DEF ClientInv, CollectedHolds, Within
  <2> QED BY <2>1, <2>3 DEF ClientInv, VerdictHolds, EvidenceNeverBlocks
<1>4. CASE PhoneDevice
  <2>1. PICK type : device' = [type |-> type, text |-> 10, language |-> 5,
                               timezone |-> 20, userAgent |-> 22]
    BY <1>4 DEF PhoneDevice
  <2>2. /\ device = Nothing /\ client = "phone"
        /\ UNCHANGED <<client, geocoding, place, verdict, recorded>>
    BY <1>4 DEF PhoneDevice
  <2>3. /\ Within(device'.text, TextMax) /\ Within(device'.language, LanguageMax)
        /\ Within(device'.timezone, TimezoneMax) /\ Within(device'.userAgent, UserAgentMax)
    BY <2>1 DEF Within, TextMax, LanguageMax, TimezoneMax, UserAgentMax
  <2>4. CollectedHolds'
    BY <2>2, <2>3 DEF ClientInv, CollectedHolds, Within
  <2> QED BY <2>2, <2>4 DEF ClientInv, VerdictHolds, EvidenceNeverBlocks
<1>5. CASE Sign
  <2>1. /\ verdict = "NONE" /\ recorded = Nothing
        /\ UNCHANGED <<client, geocoding, device, place, recorded>>
    BY <1>5 DEF Sign, ClientInv, VerdictHolds
  <2>2. verdict' = "REFUSED" =>
          /\ client = "phone" /\ place.status = "ERROR"
          /\ place.errorMessage > MessageMax
    <3>1. ASSUME device # Nothing, place # Nothing, ~ Accepts
          PROVE  /\ client = "phone" /\ place.status = "ERROR"
                 /\ place.errorMessage > MessageMax
      <4>1. ~ Within(place.errorMessage, MessageMax)
        BY <3>1 DEF Accepts, ClientInv, CollectedHolds
      <4>2. client = "phone" /\ place.status = "ERROR" /\ place.errorMessage \in Nat
        BY <3>1, <4>1, ClientEvidenceAssumption DEF ClientInv, CollectedHolds
      <4> QED BY <4>1, <4>2 DEF Within, MessageMax
    <3> QED BY <1>5, <3>1 DEF Sign
  <2>3. verdict' # "NONE" /\ (client # "old" => device # Nothing /\ place # Nothing)
    BY <1>5 DEF Sign
  <2> QED BY <2>1, <2>2, <2>3
          DEF ClientInv, CollectedHolds, VerdictHolds, EvidenceNeverBlocks, Within
<1>6. CASE NormalizeEvidence
  <2>1. /\ verdict = "ACCEPTED" /\ UNCHANGED <<client, geocoding, device, place, verdict>>
    BY <1>6 DEF NormalizeEvidence
  <2> DEFINE looked == Coordinates /\ geocoding
  <2>2. PICK answer \in {"named", "nameless", "error"} :
          recorded' =
            [status |-> IF client = "old" THEN "UNSUPPORTED" ELSE place.status,
             coordinates |-> Coordinates,
             address |-> (looked /\ answer = "named"),
             geocodingStatus |->
               CASE looked -> GeocodingStatus(answer)
                 [] Coordinates /\ ~geocoding -> "DISABLED"
                 [] OTHER -> "NOT_REQUESTED"]
    BY <1>6 DEF NormalizeEvidence
  <2>3. /\ Coordinates \in BOOLEAN
        /\ (IF client = "old" THEN "UNSUPPORTED" ELSE place.status) = "CAPTURED"
             <=> Coordinates
    BY <2>1 DEF Coordinates, ClientInv, VerdictHolds, CollectedHolds
  <2>4. /\ recorded'.status = "CAPTURED" <=> recorded'.coordinates
        /\ recorded'.geocodingStatus = "NOT_REQUESTED" <=> ~ recorded'.coordinates
        /\ recorded'.geocodingStatus = "RESOLVED" <=> recorded'.address
    BY <2>2, <2>3 DEF GeocodingStatus
  <2> QED BY <2>1, <2>4
          DEF ClientInv, CollectedHolds, VerdictHolds, EvidenceNeverBlocks, Within
<1> QED BY <1>1, <1>2, <1>3, <1>4, <1>5, <1>6 DEF ClientNext

\* The invariant of what a device tells in every state of a behaviour.
LEMMA ClientInvHolds == ClientSpec => []ClientInv
<1>1. ClientInit => ClientInv
  BY DEF ClientInit, ClientInv, CollectedHolds, VerdictHolds, EvidenceNeverBlocks
<1> QED BY <1>1, ClientInvKept, PTL DEF ClientSpec

(***************************************************************************)
(* Nothing that a device tells of itself makes the route refuse a          *)
(* signature, except the uncut message of a location error on a phone; and *)
(* what is recorded of the place agrees with itself.  It holds for texts   *)
(* of any length.                                                          *)
(***************************************************************************)
THEOREM EvidenceNeverEverBlocks == ClientSpec => []EvidenceNeverBlocks
<1>1. ClientInv => EvidenceNeverBlocks
  BY DEF ClientInv
<1> QED BY <1>1, ClientInvHolds, PTL

\* What is cut, and what the clients write themselves, is a text.
LEMMA ClippedText ==
  ASSUME NEW n \in Lengths, NEW max \in Nat
  PROVE  Clip(n, max) \in Text
<1>1. n \in Nat
  BY ClientEvidenceAssumption
<1>2. \E x \in {n, max} : \A y \in {n, max} : x <= y
  BY <1>1
<1>3. Min({n, max}) \in {n, max} /\ \A y \in {n, max} : Min({n, max}) <= y
  BY <1>2 DEF Min
<1>4. Min({n, max}) \in Nat /\ Min({n, max}) <= n
  BY <1>1, <1>3
<1> QED BY <1>4 DEF Clip, Text

LEMMA ShortText ==
  ASSUME NEW n \in 0 .. 46
  PROVE  n \in Text
BY DEF Text

LEMMA SentText ==
  ASSUME NEW n \in Lengths
  PROVE  n \in Text
BY ClientEvidenceAssumption DEF Text

\* A place that was not found, and one that was.
LEMMA PlaceTyped ==
  ASSUME NEW status \in LocationStatus,
         NEW permission \in {"granted", "denied", "prompt", "unknown"},
         NEW code \in 0 .. 3 \cup {Nothing}, NEW message \in Text
  PROVE  NoPlace(status, permission, code, message) \in Place /\ Captured \in Place
<1>1. Nothing \in Text
  BY DEF Text
<1>2. Captured \in Place
  BY <1>1 DEF Captured, Place, LocationStatus
<1> QED BY <1>2 DEF NoPlace, Place

\* What is collected and recorded is of its type at every step.
LEMMA ClientTypesKept ==
  ASSUME ClientInv, ClientTypeOK, [ClientNext]_clientVars
  PROVE  ClientTypeOK'
<1>1. /\ client \in {"portal", "phone", "old"} /\ geocoding \in BOOLEAN
      /\ device \in Device \cup {Nothing} /\ place \in Place \cup {Nothing}
      /\ verdict \in {"NONE", "ACCEPTED", "REFUSED"}
      /\ recorded \in Recorded \cup {Nothing}
  BY DEF ClientTypeOK
<1>2. Nothing \in Text
  BY DEF Text
<1>3. CASE PortalDevice
  <2> DEFINE Agents == {"", "tablet", "mobile", "other"}
             agentOf(ua, n) == IF ua = "" THEN Nothing ELSE Clip(n, 500)
  <2>1. /\ \E native \in DeviceTypes, ua \in Agents, mobileHint \in BOOLEAN, n \in Lengths :
             device' = [type |-> PortalType(native, ua, mobileHint),
                        text |-> Clip(n, 180), language |-> Clip(n, 40),
                        timezone |-> Clip(n, 80), userAgent |-> agentOf(ua, n)]
        /\ \A ua, n : agentOf(ua, n) = Nothing \/ agentOf(ua, n) = Clip(n, 500)
    BY <1>3, Zenon DEF PortalDevice
  <2> HIDE DEF Agents, agentOf
  <2>2. PICK native \in DeviceTypes, ua \in Agents, mobileHint \in BOOLEAN, n \in Lengths :
          /\ device' = [type |-> PortalType(native, ua, mobileHint),
                        text |-> Clip(n, 180), language |-> Clip(n, 40),
                        timezone |-> Clip(n, 80), userAgent |-> agentOf(ua, n)]
          /\ agentOf(ua, n) = Nothing \/ agentOf(ua, n) = Clip(n, 500)
    BY <2>1
  <2>3. PortalType(native, ua, mobileHint) \in DeviceTypes
    <3>1. GuessDeviceType(ua, mobileHint) \in DeviceTypes
      BY DEF GuessDeviceType, DeviceTypes
    <3> QED BY <3>1 DEF PortalType
  <2>4. /\ Clip(n, 180) \in Text /\ Clip(n, 40) \in Text
        /\ Clip(n, 80) \in Text /\ Clip(n, 500) \in Text
    <3>1. 180 \in Nat /\ 40 \in Nat /\ 80 \in Nat /\ 500 \in Nat
      OBVIOUS
    <3> QED BY <3>1, ClippedText
  <2>5. device' \in Device
    BY <1>2, <2>2, <2>3, <2>4 DEF Device
  <2>6. UNCHANGED <<client, geocoding, place, verdict, recorded>>
    BY <1>3 DEF PortalDevice
  <2> QED BY <1>1, <2>5, <2>6 DEF ClientTypeOK
<1>4. CASE PortalPlace
  <2>1. PICK permission \in {"granted", "denied", "prompt", "unknown"} :
          place' \in
            {NoPlace("UNSUPPORTED", permission, Nothing, 46), Captured}
            \cup {NoPlace(StatusOfError(code),
                          IF code = 1 THEN "denied" ELSE permission,
                          code, Clip(n, 240)) : code \in 0 .. 3, n \in Lengths}
    BY <1>4 DEF PortalPlace
  <2> DEFINE said(code) == IF code = 1 THEN "denied" ELSE permission
             refused(code, n) == NoPlace(StatusOfError(code), said(code), code, Clip(n, 240))
  <2>2. ASSUME NEW code \in 0 .. 3, NEW n \in Lengths
        PROVE  refused(code, n) \in Place
    <3>1. StatusOfError(code) \in LocationStatus
      BY DEF StatusOfError, LocationStatus
    <3>2. said(code) \in {"granted", "denied", "prompt", "unknown"}
      OBVIOUS
    <3>3. Clip(n, 240) \in Text
      <4>1. 240 \in Nat
        OBVIOUS
      <4> QED BY <4>1, ClippedText
    <3> HIDE DEF said
    <3> QED BY <3>1, <3>2, <3>3, PlaceTyped
  <2>3. NoPlace("UNSUPPORTED", permission, Nothing, 46) \in Place /\ Captured \in Place
    <3>1. 46 \in Text
      BY ShortText
    <3>2. "UNSUPPORTED" \in LocationStatus /\ Nothing \in 0 .. 3 \cup {Nothing}
      BY DEF LocationStatus
    <3> QED BY <3>1, <3>2, PlaceTyped
  <2>4. place' \in {NoPlace("UNSUPPORTED", permission, Nothing, 46), Captured}
                     \cup {refused(code, n) : code \in 0 .. 3, n \in Lengths}
    BY <2>1
  <2> HIDE DEF refused
  <2>5. place' \in Place
    BY <2>2, <2>3, <2>4
  <2>6. UNCHANGED <<client, geocoding, device, verdict, recorded>>
    BY <1>4 DEF PortalPlace
  <2> QED BY <1>1, <2>5, <2>6 DEF ClientTypeOK
<1>5. CASE PhonePlace
  <2>1. \/ \E p \in {"denied", "unknown"} : place' = NoPlace("DENIED", p, Nothing, Nothing)
        \/ \E found, timedOut \in BOOLEAN : place' = PhoneOutcome(found, timedOut)
        \/ \E n \in Lengths : place' = NoPlace("ERROR", "unknown", Nothing, n)
    BY <1>5 DEF PhonePlace
  <2>2. {"DENIED", "ERROR", "TIMEOUT", "UNAVAILABLE"} \subseteq LocationStatus
    BY DEF LocationStatus
  <2>3. {"denied", "unknown", "granted"} \subseteq {"granted", "denied", "prompt", "unknown"}
    OBVIOUS
  <2>4. Nothing \in 0 .. 3 \cup {Nothing}
    OBVIOUS
  <2>5. ASSUME NEW p \in {"denied", "unknown"}
        PROVE  NoPlace("DENIED", p, Nothing, Nothing) \in Place
    BY <1>2, <2>2, <2>3, <2>4, PlaceTyped
  <2>6. ASSUME NEW found \in BOOLEAN, NEW timedOut \in BOOLEAN
        PROVE  PhoneOutcome(found, timedOut) \in Place
    <3> DEFINE status == IF timedOut THEN "TIMEOUT" ELSE "UNAVAILABLE"
    <3>1. status \in LocationStatus /\ "granted" \in {"granted", "denied", "prompt", "unknown"}
      BY <2>2
    <3> HIDE DEF status
    <3>2. NoPlace(status, "granted", Nothing, Nothing) \in Place /\ Captured \in Place
      BY <1>2, <2>4, <3>1, PlaceTyped
    <3> QED BY <3>2 DEF PhoneOutcome, status
  <2>7. ASSUME NEW n \in Lengths
        PROVE  NoPlace("ERROR", "unknown", Nothing, n) \in Place
    <3>1. n \in Text
      BY SentText
    <3> QED BY <2>2, <2>3, <2>4, <3>1, PlaceTyped
  <2>8. place' \in Place
    BY <2>1, <2>5, <2>6, <2>7
  <2>9. UNCHANGED <<client, geocoding, device, verdict, recorded>>
    BY <1>5 DEF PhonePlace
  <2> QED BY <1>1, <2>8, <2>9 DEF ClientTypeOK
<1>6. CASE PhoneDevice
  <2>1. PICK type \in {"PHONE", "TABLET", "UNKNOWN"} :
          device' = [type |-> type, text |-> 10, language |-> 5, timezone |-> 20,
                     userAgent |-> 22]
    BY <1>6 DEF PhoneDevice
  <2>2. 10 \in Text /\ 5 \in Text /\ 20 \in Text /\ 22 \in Text
    BY ShortText
  <2>3. device' \in Device
    BY <2>1, <2>2 DEF Device, DeviceTypes
  <2>4. UNCHANGED <<client, geocoding, place, verdict, recorded>>
    BY <1>6 DEF PhoneDevice
  <2> QED BY <1>1, <2>3, <2>4 DEF ClientTypeOK
<1>7. CASE Sign
  BY <1>1, <1>7 DEF Sign, ClientTypeOK
<1>8. CASE NormalizeEvidence
  <2>1. /\ verdict = "ACCEPTED" /\ UNCHANGED <<client, geocoding, device, place, verdict>>
    BY <1>8 DEF NormalizeEvidence
  <2> DEFINE looked == Coordinates /\ geocoding
             status == IF client = "old" THEN "UNSUPPORTED" ELSE place.status
             lookup(answer) == CASE looked -> GeocodingStatus(answer)
                                 [] Coordinates /\ ~geocoding -> "DISABLED"
                                 [] OTHER -> "NOT_REQUESTED"
  <2>2. PICK answer \in {"named", "nameless", "error"} :
          recorded' = [status |-> status, coordinates |-> Coordinates,
                       address |-> (looked /\ answer = "named"),
                       geocodingStatus |-> lookup(answer)]
    BY <1>8 DEF NormalizeEvidence
  <2>3. client # "old" => place \in Place
    BY <1>1, <2>1 DEF ClientInv, VerdictHolds
  <2>4. status \in LocationStatus
    BY <2>3 DEF Place, LocationStatus
  <2>5. Coordinates \in BOOLEAN /\ (looked /\ answer = "named") \in BOOLEAN
    BY DEF Coordinates
  <2>6. lookup(answer) \in {"NOT_REQUESTED", "DISABLED", "RESOLVED", "FAILED"}
    BY DEF GeocodingStatus
  <2>7. recorded' \in Recorded
    <3> DEFINE named == looked /\ answer = "named"
               outcome == lookup(answer)
    <3>1. /\ recorded' = [status |-> status, coordinates |-> Coordinates,
                          address |-> named, geocodingStatus |-> outcome]
          /\ named \in BOOLEAN
          /\ outcome \in {"NOT_REQUESTED", "DISABLED", "RESOLVED", "FAILED"}
      BY <2>2, <2>5, <2>6
    <3> HIDE DEF named, outcome, status
    <3> QED BY <2>4, <2>5, <3>1 DEF Recorded
  <2> QED BY <1>1, <2>1, <2>7 DEF ClientTypeOK
<1>9. CASE UNCHANGED clientVars
  BY <1>1, <1>9 DEF clientVars, ClientTypeOK
<1> QED BY <1>3, <1>4, <1>5, <1>6, <1>7, <1>8, <1>9 DEF ClientNext

(***************************************************************************)
(* What the clients collect of a device and of a place, and what the       *)
(* evidence records of it, is of its type, whatever the device answers.    *)
(***************************************************************************)
THEOREM ClientTypeCorrect == ClientSpec => []ClientTypeOK
<1>1. ClientInit => ClientTypeOK
  BY DEF ClientInit, ClientTypeOK
<1>2. ClientInv /\ ClientTypeOK /\ [ClientNext]_clientVars => ClientTypeOK'
  BY ClientTypesKept
<1> QED BY <1>1, <1>2, ClientInvHolds, PTL DEF ClientSpec

-----------------------------------------------------------------------------
(***************************************************************************)
(* All of it.                                                              *)
(***************************************************************************)

(***************************************************************************)
(* Whatever people do, in whichever order, every row, token and memory     *)
(* keeps to its type, for any number of people, companies and devices.     *)
(***************************************************************************)
THEOREM PeopleTypeCorrect == MCSpec => []PeopleTypeOK
<1>1. MCInit =>
        /\ RegistryInit /\ AccessInit /\ PhoneInit /\ EvidenceInit
        /\ ClientInit /\ WebInit /\ AccountsInit /\ ProvisioningInit
  BY DEF MCInit
<1>2. [MCNext]_vars =>
        /\ [RegistryNext]_registryVars /\ [AccessNext]_accessVars
        /\ [PhoneNext]_phoneVars /\ [EvidenceNext]_evidenceVars
        /\ [ClientNext]_clientVars /\ [WebNext]_webVars
        /\ [AccountsNext]_accountVars /\ [ProvisioningNext]_provisioningVars
  BY DEF MCNext, vars, RegistryMoves, AccessMoves, PhoneMoves, EvidenceMoves,
         ClientMoves, WebMoves, AccountsMoves, TenantMoves
<1>3. WebInv => WebTypeOK
  BY DEF WebInv
<1>4. /\ MCSpec => []RegistryTypeOK
      /\ MCSpec => []AccessTypeOK
      /\ MCSpec => []PhoneTypeOK
      /\ MCSpec => []EvidenceTypeOK
  BY <1>1, <1>2, RegistryTypeCorrect, AccessTypeCorrect, PhoneTypeCorrect,
     EvidenceTypeCorrect, PTL
     DEF MCSpec, RegistrySpec, AccessSpec, PhoneSpec, EvidenceSpec
<1>5. /\ MCSpec => []ClientTypeOK
      /\ MCSpec => []WebTypeOK
      /\ MCSpec => []AccountsTypeOK
      /\ MCSpec => []ProvisioningTypeOK
  BY <1>1, <1>2, <1>3, ClientTypeCorrect, WebInvHolds, AccountsTypeCorrect,
     ProvisioningTypeCorrect, PTL
     DEF MCSpec, ClientSpec, WebSpec, AccountsSpec, ProvisioningSpec
<1>6. /\ RegistryTypeOK /\ AccessTypeOK /\ PhoneTypeOK /\ EvidenceTypeOK
      /\ ClientTypeOK /\ WebTypeOK /\ AccountsTypeOK /\ ProvisioningTypeOK
      => PeopleTypeOK
  BY DEF PeopleTypeOK
<1> QED BY <1>4, <1>5, <1>6, PTL
=============================================================================
