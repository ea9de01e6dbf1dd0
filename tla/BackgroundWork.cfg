CONSTANTS
  SlotsPerDay = 2
  WeekdayInputs = {{}, {1}, {3, 7}, {0, 9}}
  LastDay = 1
  MaxSchedules = 3

  Claimants = {w1, w2}
  Executions = {x1}
  Scopes = {g1, g2}
  MaxAttempts = 2
  MaxBreaks = 1
  NoScope = NoScope

  Notices = {n1}
  Devices = {d1, d2}
  Dispatchers = {o1, o2}
  MaxPushAttempts = 2
  MaxStops = 2

  Migrators = {m1, m2}
  LastFile = 2
  LastStatement = 2
  Ddl <- MCDdl
  Nobody = Nobody

  Targets = {"e1", "e2"}
  Termination = 180
  Unkeyed = Unkeyed
  Blank = Blank
  Contents <- MCContents
  BatchSize = 2
  MaxEventCodes = 2
  MaxCollections = 2

  Archivers = {v1, v2}
  LastBatch = 2
  MaxArchiveStops = 2

  Workers = {p1, p2}
  Imports = {i1}
  None = None
  Lease = 3
  CycleTimeout = 2
  Grace = 1
  Horizon = 8

  Agents = {a1, a2}
  Steady = {a2}
  MaxJobs = 1
  MaxClaims = 3
  NoAgent = NoAgent

SPECIFICATION MCSpec

INVARIANTS
  BackgroundTypeOK
  JobsOfScheduledRun
  OneSearchPerDay
  NextRunIsTheNextSearch
  SentReachedAll
  GivenUpLate
  MigratedOnceInOrder
  PayslipsOfSage
  RenderStable
  BatchesReadable
  OneWorkerPerItem

PROPERTIES
  EnqueuedForGood
  ClaimSettles
  PushSettles
  AbandonedJobSettles

CHECK_DEADLOCK FALSE
