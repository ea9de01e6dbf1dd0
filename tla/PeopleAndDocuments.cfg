CONSTANTS
  Contracts <- MCContracts
  CompanyOf <- MCCompanyOf
  PersonOf <- MCPersonOf
  Cards <- MCCards
  MaxLookups = 2
  MaxEdits = 1
  Absent = Absent
  NoTitle = NoTitle

  Requests = {q1, q2}
  Employments = {e1, e2}
  Pins = {p1, p2}
  MaxWrongPins = 2
  MaxRequests = 4
  MaxOrders = 1
  NoPin = NoPin
  NoEmployment = NoEmployment

  Employers = {c1, c2}
  MaxSessions = 3
  MaxTokens = 3
  MaxCalls = 2
  Nobody = Nobody

  Visitors = {v1, v2}
  MaxVisits = 3
  MaxLinks = 1
  NoFile = NoFile
  Broken = Broken

  Lengths = {0, 41, 181, 240, 241, 501}
  Nothing = Nothing

  Tabs = {t1, t2}
  Officers = {o1}
  WebEmployees = {l1, l2}
  MaxWebSessions = 2
  MaxWebTokens = 3
  Anonymous = Anonymous
  NoWebCall = NoWebCall

  Emails = {m1, m2}
  Windows = {k1, k2}
  MaxAccounts = 2
  MaxEarlierSessions = 2
  NoRequest = NoRequest

  Provisioners = {b1, b2}
  Tenants = {x1, x2}
  Slugs = {s1, s2}
  UserEmails = {u1, u2}
  MaxProvisionings = 3
  NoTenant = NoTenant

SPECIFICATION MCSpec

INVARIANTS
  PeopleTypeOK
  RowsComeFromTheirContract
  OneSessionPerSelection
  ResetEndsSessions
  LockAfterWrongPins
  ShownSessionCanAct
  AlertHasCause
  EvidenceNeverBlocks
  BrowserRecovers
  EndedStaysEnded
  ProvisionedAsAsked

CHECK_DEADLOCK FALSE
