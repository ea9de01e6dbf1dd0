------------------------- MODULE NormalizationWorker -------------------------
(***************************************************************************)
(* The normalization queue (NormalizationQueueService) and the worker      *)
(* processes that drain it (processClaimedJobs and normalizeClaimedJob).   *)
(*                                                                         *)
(* Nothing is assumed of time here: a lease may lapse at any moment, even  *)
(* under a worker that is alive and busy (a suspended process, a slow      *)
(* disk), so what holds here holds for every value of the lease and of the *)
(* watchdog.  WorkerLease.tla adds the clock.                              *)
(***************************************************************************)
EXTENDS ImportRows

CONSTANTS
  Slips,        \* the payslips (employee, month, type) a job's data holds
  Absent,       \* no current payslip
  MaxAttempts,  \* WORKER_NORMALIZATION_MAX_ATTEMPTS
  MaxFaults     \* bound on the failures of the environment, see Fault

ASSUME WorkerAssumption ==
  /\ MaxAttempts \in Nat \ {0}
  /\ MaxFaults \in Nat
  /\ Absent \notin Runs \cup {NoRun}

VARIABLES
  worker,   \* where each worker stands in processClaimedJobs
  workJob,  \* the job it selected or claimed
  seen,     \* normalization_attempt_count as its SELECT read it
  todo,     \* payslips it has still to persist
  skipped,  \* it skipped a payslip: result.skipped > 0
  slipRun,  \* payroll_run_id of the current version of each payslip
  faults    \* faults of the environment so far

workerVars == <<worker, workJob, seen, todo, skipped, slipRun, faults>>

WorkerState == {"down", "idle", "selected", "claimed", "persisting",
                "renewing", "failing"}

WorkerTypeOK ==
  /\ worker \in [Workers -> WorkerState]
  /\ workJob \in [Workers -> Jobs \cup {None}]
  /\ seen \in [Workers -> Nat]
  /\ todo \in [Workers -> SUBSET Slips]
  /\ skipped \in [Workers -> BOOLEAN]
  /\ slipRun \in [Slips -> Runs \cup {NoRun, Absent}]
  /\ faults \in 0..MaxFaults

WorkerInit ==
  /\ worker = [w \in Workers |-> "down"]
  /\ workJob = [w \in Workers |-> None]
  /\ seen = [w \in Workers |-> 0]
  /\ todo = [w \in Workers |-> {}]
  /\ skipped = [w \in Workers |-> FALSE]
  /\ slipRun = [s \in Slips |-> Absent]
  /\ faults = 0

-----------------------------------------------------------------------------

(***************************************************************************)
(* Fault bounds how often the environment hurts the queue: a crash, a      *)
(* write of fail that does not reach the database, a heartbeat that throws *)
(* between claim and try, a lock conflict in the payslip's transaction, or *)
(* a lease that lapses under a busy worker.                                *)
(***************************************************************************)
Fault == faults < MaxFaults /\ faults' = faults + 1

\* Mutant: a lapsed claim is not taken over.
ClaimableOnlyPending(j) ==
  /\ j \in PayrollJobs /\ jobStatus[j] = "COMPLETED" /\ ~normalized[j]
  /\ normState[j] \in {"null", "PENDING"}

\* Mutant: a claim is taken over before its lease has lapsed.
ClaimableUnderLease(j) ==
  /\ j \in PayrollJobs /\ jobStatus[j] = "COMPLETED" /\ ~normalized[j]
  /\ normState[j] \in {"null", "PENDING", "CLAIMED"}

\* The WHERE clause shared by the SELECT and the UPDATE of claimNext.
Claimable(j) ==
  /\ j \in PayrollJobs
  /\ jobStatus[j] = "COMPLETED"
  /\ ~normalized[j]
  /\ \/ normState[j] \in {"null", "PENDING"}
     \/ normState[j] = "CLAIMED" /\ leaseLapsed[j]

\* Mutant: the statements of a claim name the row by id alone.
OwnsUnchecked(w, j) == normState[j] = "CLAIMED"

\* normalization_owner = ? AND normalization_state = 'CLAIMED'
Owns(w, j) == normState[j] = "CLAIMED" /\ normOwner[j] = w

\* Worker w goes to where, done with the job it had.
Release(w, where) ==
  /\ worker' = [worker EXCEPT ![w] = where]
  /\ workJob' = [workJob EXCEPT ![w] = None]
  /\ seen' = [seen EXCEPT ![w] = 0]
  /\ todo' = [todo EXCEPT ![w] = {}]
  /\ skipped' = [skipped EXCEPT ![w] = FALSE]
  /\ UNCHANGED slipRun

\* Worker w moves on within the job it has.
Goto(w, where) ==
  /\ worker' = [worker EXCEPT ![w] = where]
  /\ UNCHANGED <<workJob, seen>>

-----------------------------------------------------------------------------

\* PM2 starts a process for the slot, with an instanceId of its own.
WorkerStarts(w) ==
  /\ worker[w] = "down"
  /\ worker' = [worker EXCEPT ![w] = "idle"]
  /\ UNCHANGED <<rowVars, workJob, seen, todo, skipped, slipRun, faults>>

(***************************************************************************)
(* claimNext, first statement: the SELECT of the oldest claimable job.     *)
(***************************************************************************)
SelectCandidate(w) ==
  /\ worker[w] = "idle"
  /\ \E j \in Jobs :
       /\ Claimable(j)
       /\ \A i \in Jobs : i < j => ~Claimable(i)
       /\ workJob' = [workJob EXCEPT ![w] = j]
       /\ seen' = [seen EXCEPT ![w] = attempts[j]]
  /\ worker' = [worker EXCEPT ![w] = "selected"]
  /\ UNCHANGED <<rowVars, todo, skipped, slipRun, faults>>

(***************************************************************************)
(* claimNext, second statement: the conditional UPDATE.  When it changes   *)
(* no row the worker selects again; the bound of eight tries only decides  *)
(* whether it pauses before it does.                                       *)
(***************************************************************************)
ClaimCandidate(w) ==
  /\ worker[w] = "selected"
  /\ LET j == workJob[w] IN
       IF Claimable(j)
         THEN /\ normState' = [normState EXCEPT ![j] = "CLAIMED"]
              /\ normOwner' = [normOwner EXCEPT ![j] = w]
              /\ leaseLapsed' = [leaseLapsed EXCEPT ![j] = FALSE]
              /\ attempts' = [attempts EXCEPT ![j] = @ + 1]
              /\ Goto(w, "claimed")
              /\ UNCHANGED <<normalized, todo, skipped, slipRun>>
         ELSE Release(w, "idle") /\ UNCHANGED normVars
  /\ UNCHANGED <<jobStatus, jobConnector, runStatus, faults>>

\* The heartbeat before the try throws: the cycle ends, the claim stays.
AbandonClaim(w) ==
  /\ worker[w] = "claimed"
  /\ Fault
  /\ Release(w, "idle")
  /\ UNCHANGED rowVars

\* normalizationJob: the checks before the first payslip.
CheckClaim(w) ==
  /\ worker[w] = "claimed"
  /\ LET j == workJob[w] IN
       IF jobStatus[j] = "COMPLETED" /\ ~normalized[j] /\ Owns(w, j)
         THEN Goto(w, "persisting") /\ todo' = [todo EXCEPT ![w] = Slips]
         ELSE Goto(w, "failing") /\ UNCHANGED todo
  /\ UNCHANGED <<rowVars, skipped, slipRun, faults>>

(***************************************************************************)
(* persistNormalizedPayroll, one transaction: a new version of the payslip *)
(* belongs to this job's run, a repaired one keeps the run it has if it    *)
(* has one, an unchanged one is left alone, and a payslip without an       *)
(* employee is skipped.  The lease is not read here.                       *)
(***************************************************************************)
PersistSlip(w) ==
  /\ worker[w] = "persisting"
  /\ \E s \in todo[w] :
       /\ todo' = [todo EXCEPT ![w] = @ \ {s}]
       /\ \/ /\ slipRun' = [slipRun EXCEPT ![s] = RunOf[workJob[w]]]
             /\ UNCHANGED skipped
          \/ /\ slipRun[s] # Absent
             /\ slipRun' = [slipRun EXCEPT
                              ![s] = IF @ = NoRun THEN RunOf[workJob[w]] ELSE @]
             /\ UNCHANGED skipped
          \/ /\ slipRun[s] # Absent
             /\ UNCHANGED <<slipRun, skipped>>
          \/ /\ skipped' = [skipped EXCEPT ![w] = TRUE]
             /\ UNCHANGED slipRun
  /\ Goto(w, "renewing")
  /\ UNCHANGED <<rowVars, faults>>

(***************************************************************************)
(* Any statement inside the try may throw: an employee of another company, *)
(* a payslip whose current version changed, a lost connection.  What its   *)
(* transaction had written is rolled back.                                 *)
(***************************************************************************)
NormalizationThrows(w) ==
  /\ worker[w] \in {"claimed", "persisting", "renewing"}
  /\ Goto(w, "failing")
  /\ UNCHANGED <<rowVars, todo, skipped, slipRun, faults>>

\* A deadlock or lock timeout: the payslip is tried again after a renew.
PersistBlocked(w) ==
  /\ worker[w] = "persisting"
  /\ todo[w] # {}
  /\ Fault
  /\ Goto(w, "renewing")
  /\ UNCHANGED <<rowVars, todo, skipped, slipRun>>

(***************************************************************************)
(* renew, after each payslip: extends the lease, or throws when the claim  *)
(* is lost; its answer may be lost too, which is one more exception.       *)
(***************************************************************************)
RenewLease(w) ==
  /\ worker[w] = "renewing"
  /\ LET j == workJob[w] IN
       IF Owns(w, j) /\ ~normalized[j]
         THEN /\ leaseLapsed' = [leaseLapsed EXCEPT ![j] = FALSE]
              /\ Goto(w, "persisting") \/ Goto(w, "failing")
         ELSE Goto(w, "failing") /\ UNCHANGED leaseLapsed
  /\ UNCHANGED <<jobStatus, jobConnector, normState, normOwner, attempts,
                 normalized, runStatus, todo, skipped, slipRun, faults>>

\* Mutant: skipped payslips do not count.
OutcomeDespiteSkips(w) == "COMPLETED"

\* The status complete gives the run: a skipped payslip makes it PARTIAL.
Outcome(w) == IF skipped[w] THEN "PARTIAL" ELSE "COMPLETED"

(***************************************************************************)
(* complete: one transaction over the job and its run.  When COMMIT takes  *)
(* effect but its answer is lost, the worker goes on to the catch block.   *)
(***************************************************************************)
CompleteClaim(w) ==
  /\ worker[w] = "persisting"
  /\ todo[w] = {}
  /\ LET j == workJob[w] IN
       IF Owns(w, j) /\ ~normalized[j]
         THEN /\ LeaveClaim(j, "COMPLETED")
              /\ normalized' = [normalized EXCEPT ![j] = TRUE]
              /\ runStatus' = SetRun(j, OpenRun, Outcome(w))
              /\ \/ Release(w, "idle")
                 \/ Goto(w, "failing") /\ UNCHANGED <<todo, skipped, slipRun>>
         ELSE /\ Goto(w, "failing")
              /\ UNCHANGED <<normState, normalized, normOwner, leaseLapsed,
                             runStatus, todo, skipped, slipRun>>
  /\ UNCHANGED <<jobStatus, jobConnector, attempts, faults>>

\* Mutant: the limit is off by one.
TerminalLate(w) == seen[w] + 1 > MaxAttempts

\* claim.attempt, one more than the count the SELECT read, is at the limit.
Terminal(w) == seen[w] + 1 >= MaxAttempts

\* Mutant: a terminal fail leaves the run as it is.
FailedOutcomeForgotten(j) ==
  IF RunOf[j] = NoRun THEN "FAILED" ELSE runStatus[RunOf[j]]

\* The status a terminal fail gives the run: PARTIAL if it has payslips.
FailedOutcome(j) ==
  IF \E s \in Slips : slipRun[s] = RunOf[j] THEN "PARTIAL" ELSE "FAILED"

(***************************************************************************)
(* The catch block: fail puts the job back in the queue, or ends it when   *)
(* claim.attempt has reached the limit, in one transaction with the run.   *)
(* If the claim is not this worker's any more it throws, and the throw is  *)
(* logged.                                                                 *)
(***************************************************************************)
FailClaim(w) ==
  /\ worker[w] = "failing"
  /\ LET j == workJob[w] IN
       \/ /\ Owns(w, j) /\ Terminal(w)
          /\ LeaveClaim(j, "FAILED")
          /\ runStatus' = SetRun(j, OpenRun, FailedOutcome(j))
       \/ /\ Owns(w, j) /\ ~Terminal(w)
          /\ LeaveClaim(j, "PENDING")
          /\ UNCHANGED runStatus
       \/ /\ ~Owns(w, j)
          /\ UNCHANGED <<normState, normOwner, leaseLapsed, runStatus>>
  /\ Release(w, "idle")
  /\ UNCHANGED <<jobStatus, jobConnector, attempts, normalized, faults>>

FailClaimLost(w) ==
  /\ worker[w] = "failing"
  /\ Fault
  /\ Release(w, "idle")
  /\ UNCHANGED rowVars

(***************************************************************************)
(* The process dies, by itself or by its watchdog: its memory is gone and  *)
(* its claim stays in the row until the lease lapses.                      *)
(***************************************************************************)
WorkerCrashes(w) ==
  /\ worker[w] # "down"
  /\ Fault
  /\ Release(w, "down")
  /\ UNCHANGED rowVars

-----------------------------------------------------------------------------

\* A live worker is in the middle of the claim that job j's row records.
HeldByLive(j) ==
  \E w \in Workers : /\ Owns(w, j)
                     /\ workJob[w] = j
                     /\ worker[w] \in {"claimed", "persisting", "renewing",
                                       "failing"}

LeaseLapses(j) ==
  /\ normState[j] = "CLAIMED"
  /\ ~leaseLapsed[j]
  /\ leaseLapsed' = [leaseLapsed EXCEPT ![j] = TRUE]
  /\ UNCHANGED <<jobStatus, jobConnector, normState, normOwner, attempts,
                 normalized, runStatus>>

OrphanLapses(j) ==
  /\ ~HeldByLive(j)
  /\ LeaseLapses(j)
  /\ UNCHANGED workerVars

LapsesUnderWorker(j) ==
  /\ HeldByLive(j)
  /\ Fault
  /\ LeaseLapses(j)
  /\ UNCHANGED <<worker, workJob, seen, todo, skipped, slipRun>>

-----------------------------------------------------------------------------

\* What a worker does by itself when nothing goes wrong around it.
WorkerStep(w) ==
  \/ WorkerStarts(w)
  \/ SelectCandidate(w)
  \/ ClaimCandidate(w)
  \/ CheckClaim(w)
  \/ PersistSlip(w)
  \/ NormalizationThrows(w)
  \/ RenewLease(w)
  \/ CompleteClaim(w)
  \/ FailClaim(w)

WorkerFault(w) ==
  \/ AbandonClaim(w)
  \/ PersistBlocked(w)
  \/ FailClaimLost(w)
  \/ WorkerCrashes(w)

WorkerNext ==
  \/ \E w \in Workers : WorkerStep(w) \/ WorkerFault(w)
  \/ \E j \in Jobs : OrphanLapses(j) \/ LapsesUnderWorker(j)
=============================================================================
