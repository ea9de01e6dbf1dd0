--------------------------- MODULE ImportPipeline ---------------------------
(***************************************************************************)
(* The import pipeline: runs and jobs are created by the API, collected by *)
(* the Sage connector through the agent endpoints, and turned into         *)
(* payslips by the workers, all of them at the same time over the rows of  *)
(* ImportRows.                                                             *)
(***************************************************************************)
EXTENDS ConnectorAgent, NormalizationWorker, FiniteSets

ASSUME PipelineAssumption == IsFiniteSet(Workers)

vars == <<rowVars, agentVars, workerVars>>

Init == RowsInit /\ AgentInit /\ WorkerInit

RowsNext ==
  \/ \E r \in Runs : StartRun(r)
  \/ \E j \in Jobs : CreateJob(j)

Next ==
  \/ RowsNext /\ UNCHANGED <<agentVars, workerVars>>
  \/ AgentNext /\ UNCHANGED workerVars
  \/ WorkerNext /\ UNCHANGED agentVars

(***************************************************************************)
(* PM2 restarts a worker that died, a worker that runs takes its next      *)
(* step, and the clock passes every lease that nobody renews.  Nothing is  *)
(* assumed of the connector or of the users.                               *)
(***************************************************************************)
Fairness ==
  /\ \A w \in Workers : WF_vars(WorkerStep(w) /\ UNCHANGED agentVars)
  /\ \A j \in Jobs : WF_vars(OrphanLapses(j) /\ UNCHANGED agentVars)

Spec == Init /\ [][Next]_vars

FairSpec == Spec /\ Fairness

-----------------------------------------------------------------------------

\* Every column, place and request has the type that the code gives it.
TypeOK == RowsTypeOK /\ AgentTypeOK /\ WorkerTypeOK

(***************************************************************************)
(* The claim columns agree with each other: a row has an owner exactly     *)
(* while it is CLAIMED, and normalized_at is set exactly when the state is *)
(* COMPLETED.  Four services write these columns with statements of their  *)
(* own.                                                                    *)
(***************************************************************************)
ClaimColumnsAgree ==
  \A j \in Jobs : /\ normState[j] = "CLAIMED" <=> normOwner[j] # None
                  /\ normState[j] = "COMPLETED" <=> normalized[j]
                  /\ leaseLapsed[j] => normState[j] = "CLAIMED"

(***************************************************************************)
(* A run never stays QUEUED or RUNNING once every job it has got is        *)
(* normalized or has failed for good, whatever the connector still sends   *)
(* and however the claims of its jobs, each of which sets the run to       *)
(* RUNNING, interleave with their ends.                                    *)
(***************************************************************************)
Settled(j) == normState[j] \in {"COMPLETED", "FAILED"}

JobsOf(r) == {j \in Jobs : RunOf[j] = r /\ jobStatus[j] # "absent"}

RunClosesWithItsJobs ==
  \A r \in Runs :
    runStatus[r] \in OpenRun /\ JobsOf(r) # {}
      => \E j \in JobsOf(r) : ~Settled(j)

(***************************************************************************)
(* A run that says COMPLETED left no payslip of its data behind: each has  *)
(* a current version, whichever workers stored them and however often the  *)
(* job changed hands before it was completed.                              *)
(***************************************************************************)
CompletedRunIsWhole ==
  \A r \in Runs :
    runStatus[r] = "COMPLETED" => \A s \in Slips : slipRun[s] # Absent

(***************************************************************************)
(* A job is given up only after it has been claimed MaxAttempts times.     *)
(***************************************************************************)
GivenUpAfterMaxAttempts ==
  \A j \in Jobs : normState[j] = "FAILED" => attempts[j] >= MaxAttempts

(***************************************************************************)
(* How often a job is claimed at all.  claim.attempt comes from the SELECT *)
(* and not from the UPDATE that takes the job, so each other worker may    *)
(* make a claim count for less than it is, and each fault of the           *)
(* environment may cost a claim that no fail recorded.                     *)
(***************************************************************************)
ClaimBudget ==
  \A j \in Jobs : attempts[j] <= MaxAttempts + faults + Cardinality(Workers) - 1

(***************************************************************************)
(* Only the worker whose claim the row records takes the row out of        *)
(* CLAIMED, and only in the last step of that claim: a worker that lost    *)
(* its lease, or the connector of the job, settles nothing.                *)
(***************************************************************************)
HeldBy(w, j) ==
  /\ normOwner[j] = w /\ workJob[w] = j
  /\ worker[w] \in {"persisting", "failing"}

OnlyHolderSettles ==
  [][\A j \in Jobs :
       normState[j] = "CLAIMED" /\ normState'[j] # "CLAIMED"
         => \E w \in Workers : /\ HeldBy(w, j)
                               /\ worker'[w] \in {"idle", "failing"}]_vars

(***************************************************************************)
(* The normalization columns are a durable queue.                          *)
(***************************************************************************)
PhaseOf(state) ==
  CASE state = "null" -> "out"
    [] state = "PENDING" -> "ready"
    [] state = "CLAIMED" -> "held"
    [] state = "COMPLETED" -> "done"
    [] state = "FAILED" -> "dead"

Queue ==
  INSTANCE DurableQueue WITH
    Items <- Jobs, Holders <- Workers, Nobody <- None,
    phase <- [j \in Jobs |-> PhaseOf(normState[j])],
    holder <- normOwner,
    lapsed <- leaseLapsed

QueueSpec == Queue!Spec

(***************************************************************************)
(* Every payroll job that Sage has delivered ends normalized or FAILED,    *)
(* unless a late fail of its connector withdraws it, after any finite      *)
(* number of crashes and lost leases.                                      *)
(***************************************************************************)
DeliveredJobSettles ==
  \A j \in PayrollJobs :
    jobStatus[j] = "COMPLETED" ~> (Settled(j) \/ jobStatus[j] = "FAILED")
-----------------------------------------------------------------------------
(***************************************************************************)
(* Why they hold.  PipelineInv, with TypeOK, is inductive.                 *)
(***************************************************************************)

Collecting == {"absent", "QUEUED", "RUNNING"}
Reported == {"RUNNING", "COMPLETED", "FAILED"}

\* Normalization begins with the collection's end, and a job after its run.
StateFollowsCollection ==
  \A j \in Jobs :
    /\ jobStatus[j] \in Collecting => normState[j] = "null"
    /\ jobStatus[j] = "COMPLETED" /\ j \in PayrollJobs => normState[j] # "null"
    /\ RunOf[j] # NoRun /\ runStatus[RunOf[j]] = "absent"
         => jobStatus[j] = "absent"

\* A connector between the claim and the end of ExecuteJobAsync.
AgentKnowsItsJob ==
  \A c \in Connectors :
    /\ agent[c] # "idle" => /\ agentJob[c] \in Jobs
                            /\ jobConnector[agentJob[c]] = c
                            /\ jobStatus[agentJob[c]] \in Reported
    /\ agent[c] = "collecting" => /\ jobStatus[agentJob[c]] = "RUNNING"
                                  /\ \A k \in calls : k.job # agentJob[c]

\* A request in progress; a job sees at most one complete in its life.
CallsKnowTheirJob ==
  \A k \in calls :
    /\ jobConnector[k.job] = k.conn
    /\ jobStatus[k.job] \in Reported
    /\ k.op = "complete"
         => /\ normState[k.job] = "null"
            /\ \A l \in calls : l.op = "complete" /\ l.job = k.job => l = k

\* The count that a worker's SELECT read is in the row, and then its claim.
ClaimIsCounted ==
  \A w \in Workers :
    /\ worker[w] \notin {"down", "idle"} => /\ workJob[w] \in Jobs
                                            /\ seen[w] <= attempts[workJob[w]]
    /\ worker[w] \notin {"down", "idle", "selected"}
         => seen[w] + 1 <= attempts[workJob[w]]

\* A worker that skipped nothing has stored all it no longer has to do.
StoredUnlessSkipped ==
  \A w \in Workers :
    worker[w] \in {"persisting", "renewing"} /\ ~skipped[w]
      => \A s \in Slips \ todo[w] : slipRun[s] # Absent

\* The workers whose SELECT has read j early: their claims may fail, and the
\* job is not given up.
EarlyReaders(j) ==
  {w \in Workers : worker[w] = "selected" /\ workJob[w] = j /\ ~Terminal(w)}

\* The job is over, or will be with the claim that it is under: a live worker
\* has it, whose fail is the last.
LastClaim(j) ==
  \/ Settled(j)
  \/ /\ ~leaseLapsed[j]
     /\ \E w \in Workers :
          /\ Owns(w, j) /\ workJob[w] = j
          /\ worker[w] \notin {"down", "idle", "selected"} /\ Terminal(w)

(***************************************************************************)
(* A job at the limit may still be claimed once by each early reader, once *)
(* by the worker whose claim is the last, and once more for each fault     *)
(* that such a claim was lost to.                                          *)
(***************************************************************************)
BudgetIsKept ==
  \A j \in Jobs :
    attempts[j] > 0 /\ attempts[j] + 1 >= MaxAttempts =>
      attempts[j] + Cardinality(EarlyReaders(j)) + 2
        <= MaxAttempts + faults + Cardinality(Workers)
             + (IF LastClaim(j) THEN 1 ELSE 0)

(***************************************************************************)
(* The inductive invariant: what the connector and the requests it left    *)
(* behind may still assume of a job, what a worker may assume of its claim *)
(* whatever has happened to the lease, and the properties above.           *)
(***************************************************************************)
PipelineInv ==
  /\ StateFollowsCollection
  /\ AgentKnowsItsJob
  /\ CallsKnowTheirJob
  /\ ClaimIsCounted
  /\ StoredUnlessSkipped
  /\ ClaimColumnsAgree
  /\ RunClosesWithItsJobs
  /\ CompletedRunIsWhole
  /\ GivenUpAfterMaxAttempts
  /\ BudgetIsKept

-----------------------------------------------------------------------------
(***************************************************************************)
(* Three claims of the repository that the code does not keep.             *)
(***************************************************************************)

JobInRun(j) == j \in PayrollJobs /\ RunOf[j] # NoRun

(***************************************************************************)
(* completed_runs_with_unfinished_job of verify-durable-worker.ts: a run   *)
(* that is COMPLETED or PARTIAL has no payroll job that is not normalized. *)
(* The terminal branch of fail makes a run PARTIAL whose job is FAILED.    *)
(***************************************************************************)
CompletedRunHasNormalizedJob ==
  calls = {} =>
    \A j \in Jobs :
      JobInRun(j) /\ runStatus[RunOf[j]] \in {"COMPLETED", "PARTIAL"}
        => jobStatus[j] = "COMPLETED" /\ normState[j] = "COMPLETED"

(***************************************************************************)
(* running_runs_with_terminal_job of verify-durable-worker.ts: a RUNNING   *)
(* run has no job that failed or was normalized.  connector.fail updates   *)
(* the job and the run in two statements, and the API may die between.     *)
(***************************************************************************)
RunningRunHasLiveJob ==
  calls = {} =>
    \A j \in Jobs :
      JobInRun(j) /\ runStatus[RunOf[j]] = "RUNNING"
        => jobStatus[j] # "FAILED" /\ ~Settled(j)

(***************************************************************************)
(* The design of the durable worker: at the third failure the job becomes  *)
(* FAILED.  So a job that is back in the queue has failed fewer times than *)
(* that (its claims are its failures, when nothing crashes).  claimNext    *)
(* takes claim.attempt from a SELECT that another worker may have made     *)
(* stale, and fail compares that number with the limit.                    *)
(***************************************************************************)
QueuedJobHasAttemptsLeft ==
  faults = 0 =>
    \A j \in Jobs : normState[j] = "PENDING" => attempts[j] < MaxAttempts
=============================================================================
