CONSTANTS
  Jobs = {1}
  PayrollJobs = {1}
  r1 = r1
  Runs = {r1}
  RunOf <- RunOne
  NoRun = NoRun
  Connectors = {c1}
  Workers = {w1, w2}
  None = None
  Slips = {s1, s2}
  Absent = Absent
  MaxAttempts = 3
  MaxFaults = 0

SPECIFICATION Spec

INVARIANT
  QueuedJobHasAttemptsLeft

CHECK_DEADLOCK FALSE
