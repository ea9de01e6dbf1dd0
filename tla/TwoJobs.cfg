CONSTANTS
  Jobs = {1, 2}
  PayrollJobs = {1, 2}
  r1 = r1
  Runs = {r1}
  RunOf <- RunShared
  NoRun = NoRun
  Connectors = {c1}
  Workers = {w1}
  None = None
  Slips = {s1}
  Absent = Absent
  MaxAttempts = 2
  MaxFaults = 1

SPECIFICATION FairSpec

INVARIANTS
  RunClosesWithItsJobs
  CompletedRunIsWhole

PROPERTIES
  DeliveredJobSettles

CHECK_DEADLOCK FALSE
