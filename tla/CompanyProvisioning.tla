------------------------- MODULE CompanyProvisioning -------------------------
(***************************************************************************)
(* A company comes into being with its MASTER and its settings, in one     *)
(* transaction: when the subscription system of Ponto Certo asks for it,   *)
(* through a bridge that may repeat what it was not answered, or when      *)
(* somebody answers the questions of bootstrap-master.  A request looks    *)
(* for its tenant and for its e-mail before it writes, both FOR UPDATE,    *)
(* but a row that is not there cannot be locked against another request    *)
(* that looks for it too: then the unique keys decide.                     *)
(*                                                                         *)
(* slug stands for all that a request says of the company; what a          *)
(* transaction has written is known from the statement it is at.           *)
(***************************************************************************)
EXTENDS Naturals, FiniteSets

CONSTANTS
  Provisioners,      \* requests that may be in progress at once
  Tenants,           \* external_source and external_id
  Slugs,             \* the names, the slug and the Sage code of a company
  UserEmails,        \* e-mails of masters and analysts
  MaxProvisionings,  \* bound on the requests
  NoTenant           \* no external origin

ASSUME ProvisioningAssumption ==
  /\ MaxProvisionings \in Nat /\ NoTenant \notin Tenants
  /\ Slugs # {} /\ UserEmails # {}

VARIABLES
  companies,    \* companies, each with its row of app_settings
  users,        \* users
  masters,      \* company_masters
  lastCompany,  \* AUTO_INCREMENT of companies.id
  asked,        \* requests made
  provisioner   \* a request inside provision, and its answer

provisioningVars ==
  <<companies, users, masters, lastCompany, asked, provisioner>>

CompanyIds == 1 .. MaxProvisionings

Order == [tenant : Tenants \cup {NoTenant}, slug : Slugs, email : UserEmails]

ProvisioningPlaces ==
  {"away", "tenant", "email", "company", "user", "rest", "answered", "refused"}

\* Rows and memories hold what their names say.
ProvisioningTypeOK ==
  /\ companies \subseteq
       [id : CompanyIds, tenant : Tenants \cup {NoTenant}, slug : Slugs]
  /\ users \subseteq
       [email : UserEmails, company : CompanyIds, role : {"MASTER", "ANALISTA"}]
  /\ masters \in SUBSET (CompanyIds \X UserEmails)
  /\ lastCompany \in 0 .. MaxProvisionings
  /\ asked \in 0 .. MaxProvisionings
  /\ provisioner \in [Provisioners ->
       [at : ProvisioningPlaces, order : Order, company : CompanyIds \cup {0}]]

ProvisioningInit ==
  /\ companies = {} /\ users = {} /\ masters = {}
  /\ lastCompany = 0 /\ asked = 0
  /\ provisioner = [b \in Provisioners |->
       [at |-> "away", company |-> 0,
        order |-> CHOOSE o \in Order : o.tenant = NoTenant]]

Places(b, place) ==
  provisioner' = [provisioner EXCEPT ![b].at = place]

\* What the open transaction of another request has inserted: statements that
\* need the same keys wait for it.
CompanyHeldBy(a, b) == a # b /\ provisioner[a].at \in {"user", "rest"}

TenantFree(b) ==
  \A a \in Provisioners :
    CompanyHeldBy(a, b) =>
      \/ provisioner[b].order.tenant = NoTenant
      \/ provisioner[a].order.tenant # provisioner[b].order.tenant

SlugFree(b) ==
  \A a \in Provisioners :
    CompanyHeldBy(a, b) => provisioner[a].order.slug # provisioner[b].order.slug

EmailHeldBy(a, email) ==
  provisioner[a].at = "rest" /\ provisioner[a].order.email = email

EmailFree(b, email) == \A a \in Provisioners \ {b} : ~ EmailHeldBy(a, email)

EmailTaken(email) == \E u \in users : u.email = email

----------------------------------------------------------------------------
Asked(b, order, place) ==
  /\ provisioner[b].at \in {"away", "answered", "refused"}
  /\ asked < MaxProvisionings
  /\ asked' = asked + 1
  /\ provisioner' = [provisioner EXCEPT ![b] =
                       [at |-> place, order |-> order, company |-> 0]]
  /\ UNCHANGED <<companies, users, masters, lastCompany>>

BridgeAsks(b) ==
  \E order \in Order : order.tenant # NoTenant /\ Asked(b, order, "tenant")

\* The count of companies is read before the questions are asked.
BootstrapAsks(b) ==
  /\ companies = {}
  /\ \E order \in Order : order.tenant = NoTenant /\ Asked(b, order, "email")

\* Mutant: the data of a tenant that is there are not compared.
MatchesTenant(order, company) == order.tenant = company.tenant

\* The data of the request are those of the tenant that is there.
Matches(order, company) ==
  /\ order.slug = company.slug
  /\ <<company.id, order.email>> \in masters

FindTenant(b) ==
  LET order == provisioner[b].order
      found == {c \in companies : c.tenant = order.tenant}
  IN /\ provisioner[b].at = "tenant"
     /\ TenantFree(b)
     /\ \/ found = {} /\ Places(b, "email")
        \/ \E company \in found :
             provisioner' = [provisioner EXCEPT
               ![b].at = IF Matches(order, company) THEN "answered" ELSE "refused",
               ![b].company = IF Matches(order, company) THEN company.id ELSE 0]
     /\ UNCHANGED <<companies, users, masters, lastCompany, asked>>

FindEmail(b) ==
  LET email == provisioner[b].order.email IN
  /\ provisioner[b].at = "email"
  /\ EmailFree(b, email)
  /\ Places(b, IF EmailTaken(email) THEN "refused" ELSE "company")
  /\ UNCHANGED <<companies, users, masters, lastCompany, asked>>

\* ER_DUP_ENTRY of uk_companies_slug or uk_companies_external, or a new id.
InsertCompany(b) ==
  LET order == provisioner[b].order
      taken == \E c \in companies :
                 \/ c.slug = order.slug
                 \/ c.tenant = order.tenant /\ order.tenant # NoTenant
  IN /\ provisioner[b].at = "company"
     /\ TenantFree(b) /\ SlugFree(b)
     /\ IF taken THEN Places(b, "refused") /\ UNCHANGED lastCompany
        ELSE /\ lastCompany' = lastCompany + 1
             /\ provisioner' = [provisioner EXCEPT ![b].at = "user",
                                                   ![b].company = lastCompany + 1]
     /\ UNCHANGED <<companies, users, masters, asked>>

Refused(b) ==
  provisioner' = [provisioner EXCEPT ![b].at = "refused", ![b].company = 0]

InsertUser(b) ==
  LET email == provisioner[b].order.email IN
  /\ provisioner[b].at = "user"
  /\ EmailFree(b, email)
  /\ IF EmailTaken(email) THEN Refused(b) ELSE Places(b, "rest")
  /\ UNCHANGED <<companies, users, masters, lastCompany, asked>>

\* company_masters, app_settings and COMMIT, whose answer may be lost.
CommitCompany(b) ==
  LET order == provisioner[b].order  id == provisioner[b].company IN
  /\ provisioner[b].at = "rest"
  /\ companies' = companies \cup
       {[id |-> id, tenant |-> order.tenant, slug |-> order.slug]}
  /\ users' = users \cup {[email |-> order.email, company |-> id, role |-> "MASTER"]}
  /\ masters' = masters \cup {<<id, order.email>>}
  /\ Places(b, "answered") \/ Refused(b)
  /\ UNCHANGED <<lastCompany, asked>>

\* A statement throws, a deadlock of two that looked for one row among them.
ProvisioningFails(b) ==
  /\ provisioner[b].at \in {"tenant", "email", "company", "user", "rest"}
  /\ Refused(b)
  /\ UNCHANGED <<companies, users, masters, lastCompany, asked>>

\* AuthService.createAnalyst, by a MASTER: one statement of its own.
CreateAnalyst ==
  \E company \in companies, email \in UserEmails :
    /\ \A a \in Provisioners : ~ EmailHeldBy(a, email)
    /\ ~ EmailTaken(email)
    /\ users' = users \cup
         {[email |-> email, company |-> company.id, role |-> "ANALISTA"]}
    /\ UNCHANGED <<companies, masters, lastCompany, asked, provisioner>>

ProvisioningNext ==
  \/ CreateAnalyst
  \/ \E b \in Provisioners :
       \/ BridgeAsks(b) \/ BootstrapAsks(b)
       \/ FindTenant(b) \/ FindEmail(b) \/ InsertCompany(b) \/ InsertUser(b)
       \/ CommitCompany(b) \/ ProvisioningFails(b)

ProvisioningSpec == ProvisioningInit /\ [][ProvisioningNext]_provisioningVars

----------------------------------------------------------------------------
(***************************************************************************)
(* Whoever is answered with a company has got what was asked for: the      *)
(* company of the tenant, with that data, whose MASTER has that e-mail,    *)
(* and who repeats a request, or races with another one for the same       *)
(* tenant, gets the same company or none.  No tenant has two companies,    *)
(* no e-mail two users, and a company has one MASTER, its registered       *)
(* holder, whatever analysts are created meanwhile.                        *)
(***************************************************************************)
ProvisionedAsAsked ==
  /\ \A b \in Provisioners :
       provisioner[b].at = "answered" =>
         LET order == provisioner[b].order  id == provisioner[b].company IN
         /\ [id |-> id, tenant |-> order.tenant, slug |-> order.slug] \in companies
         /\ <<id, order.email>> \in masters
  /\ \A c, d \in companies :
       c.tenant = d.tenant /\ c.tenant # NoTenant => c = d
  /\ \A u, v \in users : u.email = v.email => u = v
  /\ \A c \in companies :
       {<<c.id, u.email>> : u \in {v \in users : v.company = c.id /\ v.role = "MASTER"}}
         = {m \in masters : m[1] = c.id}
=============================================================================
