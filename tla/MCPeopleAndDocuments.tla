------------------------- MODULE MCPeopleAndDocuments -------------------------
(***************************************************************************)
(* Small instances of what people do: how an employee is registered from   *)
(* Sage and corrected, how she gets in, how her phone and the tabs of her  *)
(* browser keep the session, what her device tells, and the evidence that  *)
(* her signature leaves; how a company comes into being; and the accounts  *)
(* of the earlier API tree.  A behaviour follows one of them, its subject, *)
(* and the others keep their initial states.                               *)
(***************************************************************************)
EXTENDS EmployeeRegistry, EmployeeAccess, PhoneSession, SignatureEvidence,
        ClientEvidence, DashboardSession, EarlierAccounts, CompanyProvisioning

VARIABLE subject

vars == <<subject, registryVars, accessVars, phoneVars, evidenceVars, clientVars,
          webVars, accountVars, provisioningVars>>

----------------------------------------------------------------------------
(* Sage: two contracts of a person with one company, and one with another; *)
(* functions without a description after one that has it, with a title on  *)
(* the card and without, a date of birth that is corrected, and a contract *)
(* that has ended.                                                         *)

MCContracts == {1, 2, 3}

MCCompanyOf == <<1, 1, 2>>

MCPersonOf == [c \in MCContracts |-> "p"]

Post(date, title) == [date |-> date, title |-> title]

MCCards ==
  {[birth |-> 1, posts |-> <<Post(1, "t1"), Post(2, NoTitle)>>, title |-> "t2",
    situation |-> "Ativo", left |-> FALSE],
   [birth |-> 2, posts |-> <<Post(3, NoTitle), Post(1, "t1"), Post(2, "t2")>>,
    title |-> NoTitle, situation |-> "Ativo", left |-> FALSE],
   [birth |-> 1, posts |-> <<>>, title |-> NoTitle, situation |-> "Demitido",
    left |-> TRUE]}

----------------------------------------------------------------------------
MCInit ==
  /\ subject \in {"registry", "access", "phone", "evidence", "client", "web",
                  "accounts", "tenants"}
  /\ PhoneInit
  /\ EvidenceInit
  /\ WebInit
  /\ ClientInit
  /\ subject # "client" => client = "old" /\ ~geocoding
  /\ ProvisioningInit
  /\ AccountsInit
  /\ subject # "accounts" => keptIn = "mysql"
  /\ AccessInit
  /\ subject # "access" =>
       /\ identity.pin = NoPin
       /\ \A e \in Employments : employment[e] = "ACTIVE"
  /\ RegistryInit
  /\ subject # "registry" => \A c \in Contracts : held[c] = <<>>

RegistryMoves ==
  /\ subject = "registry"
  /\ RegistryNext
  /\ UNCHANGED <<subject, accessVars, phoneVars, evidenceVars, clientVars,
                 webVars, accountVars, provisioningVars>>

AccessMoves ==
  /\ subject = "access"
  /\ AccessNext
  /\ UNCHANGED <<subject, registryVars, phoneVars, evidenceVars, clientVars,
                 webVars, accountVars, provisioningVars>>

PhoneMoves ==
  /\ subject = "phone"
  /\ PhoneNext
  /\ UNCHANGED <<subject, registryVars, accessVars, evidenceVars, clientVars,
                 webVars, accountVars, provisioningVars>>

EvidenceMoves ==
  /\ subject = "evidence"
  /\ EvidenceNext
  /\ UNCHANGED <<subject, registryVars, accessVars, phoneVars, clientVars,
                 webVars, accountVars, provisioningVars>>

ClientMoves ==
  /\ subject = "client"
  /\ ClientNext
  /\ UNCHANGED <<subject, registryVars, accessVars, phoneVars, evidenceVars,
                 webVars, accountVars, provisioningVars>>

WebMoves ==
  /\ subject = "web"
  /\ WebNext
  /\ UNCHANGED <<subject, registryVars, accessVars, phoneVars, evidenceVars,
                 clientVars, accountVars, provisioningVars>>

AccountsMoves ==
  /\ subject = "accounts"
  /\ AccountsNext
  /\ UNCHANGED <<subject, registryVars, accessVars, phoneVars, evidenceVars,
                 clientVars, webVars, provisioningVars>>

TenantMoves ==
  /\ subject = "tenants"
  /\ ProvisioningNext
  /\ UNCHANGED <<subject, registryVars, accessVars, phoneVars, evidenceVars,
                 clientVars, webVars, accountVars>>

MCNext ==
  \/ RegistryMoves \/ AccessMoves \/ PhoneMoves \/ EvidenceMoves
  \/ ClientMoves \/ WebMoves \/ AccountsMoves \/ TenantMoves

MCSpec == MCInit /\ [][MCNext]_vars

\* Every component's variables keep to their types.
PeopleTypeOK ==
  /\ subject = "registry" => RegistryTypeOK
  /\ subject = "access" => AccessTypeOK
  /\ subject = "phone" => PhoneTypeOK
  /\ subject = "evidence" => EvidenceTypeOK
  /\ subject = "client" => ClientTypeOK
  /\ subject = "web" => WebTypeOK
  /\ subject = "accounts" => AccountsTypeOK
  /\ subject = "tenants" => ProvisioningTypeOK
=============================================================================
