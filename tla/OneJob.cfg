CONSTANTS
  Jobs = {1}
  PayrollJobs = {1}
  r1 = r1
  Runs = {r1}
  RunOf <- RunOne
  NoRun = NoRun
  Connectors = {c1}
  Workers = {w1, w2}
  None = None
  Slips = {s1, s2}
  Absent = Absent
  MaxAttempts = 2
  MaxFaults = 2

SPECIFICATION Spec

INVARIANTS
  TypeOK
  ClaimBudget
  PipelineInv

PROPERTIES
  OnlyHolderSettles
  QueueSpec

CHECK_DEADLOCK FALSE
