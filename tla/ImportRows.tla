----------------------------- MODULE ImportRows -----------------------------
(***************************************************************************)
(* The two MySQL tables through which the Sage connector, the API and the  *)
(* worker meet: import_jobs and payroll_runs.  Each variable is a column   *)
(* that some statement of the pipeline reads or writes.                    *)
(*                                                                         *)
(* The rows are those of one company: every statement of the agent API     *)
(* filters by company_id, and the worker, which serves all companies,      *)
(* treats the rows of another one as just more jobs.                       *)
(***************************************************************************)
EXTENDS Naturals

CONSTANTS
  Jobs,         \* ids of import_jobs rows, in AUTO_INCREMENT order
  PayrollJobs,  \* the jobs with job_type = 'PAYROLL_IMPORT'
  Runs,         \* ids of payroll_runs rows
  RunOf,        \* import_jobs.payroll_run_id of each job
  NoRun,        \* payroll_run_id IS NULL
  Connectors,   \* Sage connectors of the company
  Workers,      \* worker processes, each with its own instanceId
  None          \* a NULL connector_id or normalization_owner

ASSUME RowsAssumption ==
  /\ Jobs \subseteq Nat
  /\ PayrollJobs \subseteq Jobs
  /\ RunOf \in [Jobs -> Runs \cup {NoRun}]
  /\ NoRun \notin Runs
  /\ \A j \in Jobs \ PayrollJobs : RunOf[j] = NoRun
  /\ None \notin Connectors \cup Workers \cup Jobs

VARIABLES
  jobStatus,     \* import_jobs.status, "absent" before the INSERT
  jobConnector,  \* import_jobs.connector_id
  normState,     \* import_jobs.normalization_state, "null" for NULL
  normOwner,     \* import_jobs.normalization_owner
  leaseLapsed,   \* normalization_lease_until < UTC_TIMESTAMP()
  attempts,      \* import_jobs.normalization_attempt_count
  normalized,    \* import_jobs.normalized_at IS NOT NULL
  runStatus      \* payroll_runs.status, "absent" before the INSERT

normVars == <<normState, normOwner, leaseLapsed, attempts, normalized>>
rowVars == <<jobStatus, jobConnector, normVars, runStatus>>

JobStatus == {"absent", "QUEUED", "RUNNING", "COMPLETED", "FAILED"}
NormState == {"null", "PENDING", "CLAIMED", "COMPLETED", "FAILED"}
OpenRun == {"QUEUED", "RUNNING"}
ClosedRun == {"COMPLETED", "PARTIAL", "FAILED"}

RowsTypeOK ==
  /\ jobStatus \in [Jobs -> JobStatus]
  /\ jobConnector \in [Jobs -> Connectors \cup {None}]
  /\ normState \in [Jobs -> NormState]
  /\ normOwner \in [Jobs -> Workers \cup {None}]
  /\ leaseLapsed \in [Jobs -> BOOLEAN]
  /\ attempts \in [Jobs -> Nat]
  /\ normalized \in [Jobs -> BOOLEAN]
  /\ runStatus \in [Runs -> {"absent"} \cup OpenRun \cup ClosedRun]

RowsInit ==
  /\ jobStatus = [j \in Jobs |-> "absent"]
  /\ jobConnector = [j \in Jobs |-> None]
  /\ normState = [j \in Jobs |-> "null"]
  /\ normOwner = [j \in Jobs |-> None]
  /\ leaseLapsed = [j \in Jobs |-> FALSE]
  /\ attempts = [j \in Jobs |-> 0]
  /\ normalized = [j \in Jobs |-> FALSE]
  /\ runStatus = [r \in Runs |-> "absent"]

(***************************************************************************)
(* UPDATE payroll_runs SET status = s WHERE id = the job's run, restricted *)
(* to runs whose status is in from.  A job without a run updates nothing.  *)
(***************************************************************************)
SetRun(j, from, s) ==
  [r \in Runs |-> IF r = RunOf[j] /\ runStatus[r] \in from
                    THEN s ELSE runStatus[r]]

AnyRun == OpenRun \cup ClosedRun

(***************************************************************************)
(* The SET list shared by the statements that take a job out of a claim:   *)
(* a new state, and no owner and no lease.                                 *)
(***************************************************************************)
LeaveClaim(j, state) ==
  /\ normState' = [normState EXCEPT ![j] = state]
  /\ normOwner' = [normOwner EXCEPT ![j] = None]
  /\ leaseLapsed' = [leaseLapsed EXCEPT ![j] = FALSE]

(***************************************************************************)
(* startGroup and startEmployee insert the run, and then the job, in two   *)
(* statements of their own: a run may stay without a job.                  *)
(***************************************************************************)
StartRun(r) ==
  /\ runStatus[r] = "absent"
  /\ runStatus' = [runStatus EXCEPT ![r] = "QUEUED"]
  /\ UNCHANGED <<jobStatus, jobConnector, normVars>>

CreateJob(j) ==
  /\ jobStatus[j] = "absent"
  /\ \A i \in Jobs : i < j => jobStatus[i] # "absent"
  /\ RunOf[j] # NoRun => runStatus[RunOf[j]] # "absent"
  /\ jobStatus' = [jobStatus EXCEPT ![j] = "QUEUED"]
  /\ UNCHANGED <<jobConnector, normVars, runStatus>>
=============================================================================
