---------------------------- MODULE ScheduledRuns ----------------------------
(***************************************************************************)
(* How a schedule that is due becomes a run and its job, once a day.  Each *)
(* worker calls scheduleCompanyDue at the start of its cycle: it selects   *)
(* the schedules without an execution that is settled, claims them one by  *)
(* one, and lets startGroup create the run and the job.  Nothing here is a *)
(* transaction; a row of schedule_executions, a unique key on              *)
(* payroll_runs.schedule_execution_id and a look for an earlier job are    *)
(* all that keeps two attempts apart.                                      *)
(*                                                                         *)
(* An execution is a schedule on a date.  GroupSchedules says when it is   *)
(* due; here the group's owner, the clock and midnight make it due or not  *)
(* at any moment.                                                          *)
(***************************************************************************)
EXTENDS Naturals, Sequences

CONSTANTS
  Claimants,    \* worker processes
  Executions,   \* schedules on a date
  Scopes,       \* what startGroup may find to search for: types, employees
  MaxAttempts,  \* 3: a failed execution is tried again below it
  MaxBreaks,    \* bound on the deaths of workers and of their connections
  NoScope       \* nothing to search for: startGroup throws

ASSUME ScheduledRunsAssumption ==
  /\ MaxAttempts \in Nat \ {0} /\ MaxBreaks \in Nat
  /\ NoScope \notin Scopes

VARIABLES
  due,         \* the rest of the SELECT's WHERE holds of the execution
  scope,       \* the group, its employees and the enabled types, as of now
  execution,   \* schedule_executions
  run,         \* payroll_runs, by schedule_execution_id
  jobs,        \* import_jobs of the run, the oldest first
  claimant,    \* a worker inside scheduleCompanyDue
  overlapped,  \* two workers have been at the execution at once
  breaks       \* deaths left

runVars == <<run, jobs>>
schedulingVars ==
  <<due, scope, execution, runVars, claimant, overlapped, breaks>>

CyclePlaces ==
  {"idle", "rows", "claim", "start", "insertRun", "findJob", "createJob",
   "enqueue", "fail"}
\* The places inside the try of scheduleCompanyDue.
Trying == {"start", "insertRun", "findJob", "createJob", "enqueue"}
AtExecution == Trying \cup {"fail"}

Idle == [at |-> "idle", rows |-> {}, row |-> {}, scope |-> NoScope, attempt |-> 0]

NoExecution ==
  [status |-> "ABSENT", attempts |-> 0, lapsed |-> FALSE, run |-> FALSE]

\* Columns and memories hold what their names say.
SchedulingTypeOK ==
  /\ due \in [Executions -> BOOLEAN]
  /\ scope \in Scopes \cup {NoScope}
  /\ execution \in [Executions ->
       [status : {"ABSENT", "PENDING", "CLAIMED", "FAILED", "ENQUEUED"},
        attempts : Nat, lapsed : BOOLEAN, run : BOOLEAN]]
  /\ run \in [Executions -> [scope : Scopes \cup {NoScope}, attempt : Nat]]
  /\ jobs \in [Executions -> Seq([scope : Scopes, attempt : Nat])]
  /\ claimant \in [Claimants ->
       [at : CyclePlaces, rows : SUBSET Executions, row : SUBSET Executions,
        scope : Scopes \cup {NoScope}, attempt : Nat]]
  /\ overlapped \in [Executions -> BOOLEAN]
  /\ breaks \in 0 .. MaxBreaks

SchedulingInit ==
  /\ due = [x \in Executions |-> FALSE]
  /\ scope \in Scopes
  /\ execution = [x \in Executions |-> NoExecution]
  /\ run = [x \in Executions |-> [scope |-> NoScope, attempt |-> 0]]
  /\ jobs = [x \in Executions |-> <<>>]
  /\ claimant = [w \in Claimants |-> Idle]
  /\ overlapped = [x \in Executions |-> FALSE]
  /\ breaks = MaxBreaks

HasRun(x) == run[x].scope # NoScope
At(w, place, x) == claimant[w].at = place /\ claimant[w].row = {x}

\* What startGroup has in memory ends with it.
Goto(w, place) ==
  claimant' = [claimant EXCEPT
    ![w].at = place,
    ![w].scope = IF place \in {"enqueue", "fail"} THEN NoScope ELSE @,
    ![w].attempt = IF place \in {"enqueue", "fail"} THEN 0 ELSE @]

\* The next row of the list, or the end of scheduleCompanyDue.
NextRow(w) ==
  claimant' = [claimant EXCEPT ![w] =
                 [Idle EXCEPT !.at = "rows", !.rows = claimant[w].rows]]

-----------------------------------------------------------------------------
(* The group's owner, the settings, the employees and the clock.           *)

Reschedule(x) ==
  /\ due' = [due EXCEPT ![x] = ~@]
  /\ UNCHANGED <<scope, execution, runVars, claimant, overlapped, breaks>>

\* GroupService.update, SettingsService.update, EmployeeService.setStatus.
Rescope ==
  /\ scope' \in (Scopes \cup {NoScope}) \ {scope}
  /\ UNCHANGED <<due, execution, runVars, claimant, overlapped, breaks>>

\* Five minutes after a claim; a worker may still be busy with it.
ClaimLapses(x) ==
  /\ execution[x].status = "CLAIMED" /\ ~execution[x].lapsed
  /\ execution' = [execution EXCEPT ![x].lapsed = TRUE]
  /\ UNCHANGED <<due, scope, runVars, claimant, overlapped, breaks>>

-----------------------------------------------------------------------------
(* scheduleCompanyDue.                                                     *)

\* Mutant: whether the execution has its run is not asked.
OpenWithoutRunCheck(x) ==
  \/ execution[x].status = "PENDING"
  \/ execution[x].status = "FAILED" /\ execution[x].attempts < MaxAttempts
  \/ execution[x].status = "CLAIMED" /\ execution[x].lapsed

\* Mutant: a claim is never taken over.
OpenWithoutTakeover(x) ==
  /\ ~execution[x].run
  /\ \/ execution[x].status = "PENDING"
     \/ execution[x].status = "FAILED" /\ execution[x].attempts < MaxAttempts

\* The condition that the SELECT and the claim's UPDATE share.
Open(x) ==
  /\ ~execution[x].run
  /\ \/ execution[x].status = "PENDING"
     \/ execution[x].status = "FAILED" /\ execution[x].attempts < MaxAttempts
     \/ execution[x].status = "CLAIMED" /\ execution[x].lapsed

SelectDue(w) ==
  /\ claimant[w].at = "idle"
  /\ LET rows == {x \in Executions :
                    due[x] /\ (execution[x].status = "ABSENT" \/ Open(x))}
     IN /\ rows # {}
        /\ claimant' =
             [claimant EXCEPT ![w] = [Idle EXCEPT !.at = "rows", !.rows = rows]]
  /\ UNCHANGED <<due, scope, execution, runVars, overlapped, breaks>>

\* INSERT IGNORE of the execution, for the next row.
EnsureExecution(w, x) ==
  /\ claimant[w].at = "rows" /\ x \in claimant[w].rows
  /\ execution' =
       IF execution[x].status = "ABSENT"
       THEN [execution EXCEPT ![x].status = "PENDING"] ELSE execution
  /\ claimant' = [claimant EXCEPT ![w].at = "claim", ![w].row = {x},
                                  ![w].rows = @ \ {x}]
  /\ UNCHANGED <<due, scope, runVars, overlapped, breaks>>

EndOfRows(w) ==
  /\ claimant[w].at = "rows" /\ claimant[w].rows = {}
  /\ claimant' = [claimant EXCEPT ![w] = Idle]
  /\ UNCHANGED <<due, scope, execution, runVars, overlapped, breaks>>

\* The UPDATE decides; affectedRows = 0 means that another worker has it.
ClaimExecution(w, x) ==
  /\ At(w, "claim", x)
  /\ Open(x)
  /\ execution' = [execution EXCEPT ![x].status = "CLAIMED", ![x].lapsed = FALSE,
                                    ![x].attempts = @ + 1]
  /\ claimant' = [claimant EXCEPT ![w].at = "start",
                                  ![w].attempt = execution[x].attempts + 1]
  /\ overlapped' = [overlapped EXCEPT ![x] =
       @ \/ \E v \in Claimants \ {w} :
              claimant[v].row = {x} /\ claimant[v].at \in AtExecution]
  /\ UNCHANGED <<due, scope, runVars, breaks>>

MissExecution(w, x) ==
  /\ At(w, "claim", x)
  /\ ~Open(x)
  /\ NextRow(w)
  /\ UNCHANGED <<due, scope, execution, runVars, overlapped, breaks>>

(***************************************************************************)
(* The two UPDATEs that settle an execution name it by its id: not by its  *)
(* owner, and not by its status.                                           *)
(***************************************************************************)
MarkEnqueued(w, x) ==
  /\ At(w, "enqueue", x)
  /\ execution' = [execution EXCEPT ![x].status = "ENQUEUED", ![x].run = TRUE,
                                    ![x].lapsed = FALSE]
  /\ \/ NextRow(w)
     \/ Goto(w, "fail")   \* the answer of the UPDATE is lost
  /\ UNCHANGED <<due, scope, runVars, overlapped, breaks>>

MarkFailed(w, x) ==
  /\ At(w, "fail", x)
  /\ execution' = [execution EXCEPT ![x].status = "FAILED", ![x].lapsed = FALSE]
  /\ NextRow(w)
  /\ UNCHANGED <<due, scope, runVars, overlapped, breaks>>

-----------------------------------------------------------------------------
(* startGroup, with a ScheduledRunContext.                                 *)

\* The group, the enabled types and the employees; then existingScheduledRun.
ReadScope(w, x) ==
  /\ At(w, "start", x)
  /\ IF scope = NoScope
     THEN Goto(w, "fail")
     ELSE claimant' = [claimant EXCEPT
            ![w].scope = scope,
            ![w].at = IF HasRun(x) THEN "findJob" ELSE "insertRun"]
  /\ UNCHANGED <<due, scope, execution, runVars, overlapped, breaks>>

\* INSERT INTO payroll_runs; on ER_DUP_ENTRY the run of another attempt.
InsertPayrollRun(w, x) ==
  /\ At(w, "insertRun", x)
  /\ run' = IF HasRun(x) THEN run
            ELSE [run EXCEPT ![x] = [scope |-> claimant[w].scope,
                                     attempt |-> claimant[w].attempt]]
  /\ \E place \in {"findJob", "fail"} : Goto(w, place)
  /\ UNCHANGED <<due, scope, execution, jobs, overlapped, breaks>>

\* Mutant: a job of an earlier attempt is not looked for.
JobWithoutLook(w, x) ==
  /\ At(w, "findJob", x)
  /\ Goto(w, "createJob")
  /\ UNCHANGED <<due, scope, execution, runVars, overlapped, breaks>>

FindJob(w, x) ==
  /\ At(w, "findJob", x)
  /\ Goto(w, IF jobs[x] = <<>> THEN "createJob" ELSE "enqueue")
  /\ UNCHANGED <<due, scope, execution, runVars, overlapped, breaks>>

(***************************************************************************)
(* createJob, then safeRunEvent, which swallows its failure, and the       *)
(* audit, which throws.                                                    *)
(***************************************************************************)
InsertJob(w, x) ==
  /\ At(w, "createJob", x)
  /\ jobs' = [jobs EXCEPT ![x] = Append(@, [scope |-> claimant[w].scope,
                                            attempt |-> claimant[w].attempt])]
  /\ \E place \in {"enqueue", "fail"} : Goto(w, place)
  /\ UNCHANGED <<due, scope, execution, run, overlapped, breaks>>

-----------------------------------------------------------------------------
(* Faults.                                                                 *)

\* A statement throws inside the try.
StatementFails(w) ==
  /\ claimant[w].at \in Trying
  /\ Goto(w, "fail")
  /\ UNCHANGED <<due, scope, execution, runVars, overlapped, breaks>>

\* The process dies, or a statement outside the try throws.
Breaks(w) ==
  /\ claimant[w].at # "idle"
  /\ breaks > 0
  /\ breaks' = breaks - 1
  /\ claimant' = [claimant EXCEPT ![w] = Idle]
  /\ UNCHANGED <<due, scope, execution, runVars, overlapped>>

\* What a worker does when nothing stops it.
SchedulingStep(w) ==
  \/ SelectDue(w)
  \/ EndOfRows(w)
  \/ \E x \in Executions :
       \/ EnsureExecution(w, x) \/ ClaimExecution(w, x) \/ MissExecution(w, x)
       \/ ReadScope(w, x) \/ InsertPayrollRun(w, x) \/ FindJob(w, x) \/ InsertJob(w, x)
       \/ MarkEnqueued(w, x) \/ MarkFailed(w, x)

SchedulingNext ==
  \/ \E w \in Claimants : SchedulingStep(w) \/ StatementFails(w) \/ Breaks(w)
  \/ \E x \in Executions : Reschedule(x) \/ ClaimLapses(x)
  \/ Rescope

\* The loop of main goes on, and time passes.
SchedulingFairness ==
  /\ \A w \in Claimants : WF_schedulingVars(SchedulingStep(w))
  /\ \A x \in Executions : WF_schedulingVars(ClaimLapses(x))

SchedulingSpec ==
  SchedulingInit /\ [][SchedulingNext]_schedulingVars /\ SchedulingFairness

-----------------------------------------------------------------------------
(***************************************************************************)
(* A second job for a run needs two workers that were at one execution at  *)
(* once, because the claim's five minutes ran out under the first: no      *)
(* failure and no death alone duplicates a job.  And the job of a run      *)
(* searches for what the run says, unless a later attempt made it.         *)
(***************************************************************************)
JobsOfScheduledRun ==
  \A x \in Executions :
    /\ Len(jobs[x]) > 1 => overlapped[x]
    /\ \A i \in 1 .. Len(jobs[x]) :
         jobs[x][i].attempt = run[x].attempt => jobs[x][i].scope = run[x].scope

(***************************************************************************)
(* An execution that was enqueued has its run and a job, and stays out of  *)
(* the queue of executions for good: also when the UPDATE of a late        *)
(* attempt, or of its own, sets its status back to FAILED.                 *)
(***************************************************************************)
EnqueuedForGood ==
  [][\A x \in Executions : execution[x].run =>
       /\ HasRun(x) /\ jobs[x] # <<>>
       /\ execution'[x].run
       /\ execution'[x].attempts = execution[x].attempts]_schedulingVars

(***************************************************************************)
(* An execution that is claimed does not stay so while its schedule is     *)
(* due: a worker settles it, or another one takes it over.  At midnight it *)
(* is due no more, and what is claimed then stays claimed.                 *)
(***************************************************************************)
ClaimSettles ==
  \A x \in Executions :
    execution[x].status = "CLAIMED"
      ~> (execution[x].status \in {"ENQUEUED", "FAILED"} \/ ~due[x])
=============================================================================
