CONSTANTS
  Jobs = {1}
  PayrollJobs = {1}
  r1 = r1
  Runs = {r1}
  RunOf <- RunOne
  NoRun = NoRun
  Connectors = {c1}
  Workers = {w1}
  None = None
  Slips = {s1, s2}
  Absent = Absent
  MaxAttempts = 1
  MaxFaults = 0

SPECIFICATION Spec

INVARIANT
  CompletedRunHasNormalizedJob

CHECK_DEADLOCK FALSE
