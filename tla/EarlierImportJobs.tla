-------------------------- MODULE EarlierImportJobs --------------------------
(***************************************************************************)
(* The import jobs of the earlier API tree (domain, infra, http), behind   *)
(* one service and two repositories: the one in memory, of its tests, and  *)
(* the one in MySQL, whose claimNext first takes back the jobs on which a  *)
(* connector has made no progress for ten minutes.  Only progress counts:  *)
(* batches and log lines do not touch the job.                             *)
(*                                                                         *)
(* The transaction of claimNext locks the rows it writes until it commits, *)
(* so that it is one step.  The assertion of ownership before a batch is a *)
(* statement of its own.                                                   *)
(***************************************************************************)
EXTENDS Naturals, FiniteSetsExt

CONSTANTS
  Agents,     \* the connectors
  Steady,     \* those that are registered from the start and never disabled
  MaxJobs,    \* bound: jobs that users create
  MaxClaims,  \* how often a job is claimed before it is given up
  NoAgent     \* connector_id is NULL

ASSUME EarlierImportJobsAssumption ==
  /\ Steady \subseteq Agents /\ NoAgent \notin Agents
  /\ MaxJobs \in Nat /\ MaxClaims \in Nat \ {0}

VARIABLES
  repository,  \* "memory" or "mysql", for the life of the process
  importJobs,  \* import_jobs; stale: updated_at is ten minutes old
  registered,  \* connectors.status
  agentWork,   \* the job that a connector believes to have, and what it sends
  storedBy     \* connector_raw_batches: who has written batches of the job

earlierVars == <<repository, importJobs, registered, agentWork, storedBy>>

----------------------------------------------------------------------------
ImportJobIds == 1 .. MaxJobs

ImportJob ==
  [status : {"NONE", "QUEUED", "RUNNING", "COMPLETED", "FAILED"},
   connector : Agents \cup {NoAgent}, attempts : 0 .. MaxClaims, stale : BOOLEAN]

AgentWork ==
  [at : {"idle"}, job : {0}] \cup [at : {"working", "storing"}, job : ImportJobIds]

NoJob == [status |-> "NONE", connector |-> NoAgent, attempts |-> 0, stale |-> FALSE]

IdleAgent == [at |-> "idle", job |-> 0]

EarlierTypeOK ==
  /\ repository \in {"memory", "mysql"}
  /\ importJobs \in [ImportJobIds -> ImportJob]
  /\ registered \in [Agents -> {"NONE", "PENDING", "ONLINE", "DISABLED"}]
  /\ agentWork \in [Agents -> AgentWork]
  /\ storedBy \in [ImportJobIds -> SUBSET Agents]

EarlierInit ==
  /\ repository \in {"memory", "mysql"}
  /\ importJobs = [j \in ImportJobIds |-> NoJob]
  /\ registered = [c \in Agents |-> IF c \in Steady THEN "PENDING" ELSE "NONE"]
  /\ agentWork = [c \in Agents |-> IdleAgent]
  /\ storedBy = [j \in ImportJobIds |-> {}]

----------------------------------------------------------------------------
(* Users, connectors and time.                                             *)

NewJob == [NoJob EXCEPT !.status = "QUEUED"]

\* POST /import-jobs; the new id is above all others.
CreateImportJob(j) ==
  /\ importJobs[j] = NoJob
  /\ \A i \in 1 .. j - 1 : importJobs[i] # NoJob
  /\ importJobs' = [importJobs EXCEPT ![j] = NewJob]
  /\ UNCHANGED <<repository, registered, agentWork, storedBy>>

CreateConnector(c) ==
  /\ registered[c] = "NONE"
  /\ registered' = [registered EXCEPT ![c] = "PENDING"]
  /\ UNCHANGED <<repository, importJobs, agentWork, storedBy>>

\* authenticate, before every call of a connector.
Accepted(c) == registered[c] \notin {"NONE", "DISABLED"}

\* The UPDATE leaves a connector alone that was disabled after the SELECT.
Seen(status) == IF status = "DISABLED" THEN status ELSE "ONLINE"

Heartbeat(c) ==
  /\ Accepted(c)
  /\ registered' = [registered EXCEPT ![c] = Seen(@)]
  /\ UNCHANGED <<repository, importJobs, agentWork, storedBy>>

DisableConnector(c) ==
  /\ c \notin Steady /\ Accepted(c)
  /\ registered' = [registered EXCEPT ![c] = "DISABLED"]
  /\ UNCHANGED <<repository, importJobs, agentWork, storedBy>>

TenMinutesPass(j) ==
  /\ importJobs[j].status = "RUNNING" /\ ~importJobs[j].stale
  /\ importJobs' = [importJobs EXCEPT ![j].stale = TRUE]
  /\ UNCHANGED <<repository, registered, agentWork, storedBy>>

----------------------------------------------------------------------------
(* claimNext                                                               *)

Abandoned(job) == job.status = "RUNNING" /\ job.stale

\* Mutant: one claim more, for which the second UPDATE has no room.
GivenUpLater(job) == Abandoned(job) /\ job.attempts > MaxClaims

\* The WHERE of the first UPDATE.
GivenUp(job) == Abandoned(job) /\ job.attempts >= MaxClaims

\* The WHERE of the second UPDATE.
TakenBack(job) == Abandoned(job) /\ job.attempts < MaxClaims

Recovered(jobs) ==
  [j \in ImportJobIds |->
     CASE GivenUp(jobs[j]) -> [jobs[j] EXCEPT !.status = "FAILED", !.stale = FALSE]
       [] TakenBack(jobs[j]) ->
            [jobs[j] EXCEPT !.status = "QUEUED", !.connector = NoAgent,
                            !.stale = FALSE]
       [] OTHER -> jobs[j]]

ClaimableBy(c, jobs) ==
  {j \in ImportJobIds : jobs[j].status = "QUEUED"
                        /\ jobs[j].connector \in {NoAgent, c}}

Taken(jobs, j, c) ==
  [jobs EXCEPT ![j] = [status |-> "RUNNING", connector |-> c,
                       attempts |-> @.attempts + 1, stale |-> FALSE]]

\* The answer may be lost; then nobody works on the job.
Claims(c, jobs) ==
  LET mine == ClaimableBy(c, jobs)
  IN IF mine = {}
     THEN importJobs' = jobs /\ UNCHANGED agentWork
     ELSE /\ importJobs' = Taken(jobs, Min(mine), c)
          /\ agentWork' \in
               {agentWork,
                [agentWork EXCEPT ![c] = [at |-> "working", job |-> Min(mine)]]}

\* The memory keeps what a connector has, for good.
MemoryClaims(c) == repository = "memory" /\ Claims(c, importJobs)

MySqlClaims(c) == repository = "mysql" /\ Claims(c, Recovered(importJobs))

ClaimNextJob(c) ==
  /\ agentWork[c].at = "idle" /\ Accepted(c)
  /\ MemoryClaims(c) \/ MySqlClaims(c)
  /\ UNCHANGED <<repository, registered, storedBy>>

----------------------------------------------------------------------------
(* The reports of a connector.  One that is refused gives the job up.      *)

Owns(c) ==
  /\ Accepted(c)
  /\ importJobs[agentWork[c].job].status = "RUNNING"
  /\ importJobs[agentWork[c].job].connector = c

\* Every report that is accepted sets updated_at.
Reported(job, status) == [job EXCEPT !.status = status, !.stale = FALSE]

UpdateProgress(c) ==
  /\ agentWork[c].at = "working" /\ Owns(c)
  /\ importJobs' = [importJobs EXCEPT ![agentWork[c].job] = Reported(@, "RUNNING")]
  /\ UNCHANGED <<repository, registered, agentWork, storedBy>>

\* assertOwnedRunningJob, then the INSERT, which asks no more.
AssertOwnedRunningJob(c) ==
  /\ agentWork[c].at = "working" /\ Owns(c) /\ c \notin storedBy[agentWork[c].job]
  /\ agentWork' = [agentWork EXCEPT ![c].at = "storing"]
  /\ UNCHANGED <<repository, importJobs, registered, storedBy>>

Stored(writers, c) == writers \cup {c}

StoreBatch(c) ==
  /\ agentWork[c].at = "storing"
  /\ storedBy' = [storedBy EXCEPT ![agentWork[c].job] = Stored(@, c)]
  /\ agentWork' = [agentWork EXCEPT ![c].at = "working"]
  /\ UNCHANGED <<repository, importJobs, registered>>

Report(c, status) ==
  /\ agentWork[c].at = "working"
  /\ importJobs' = IF Owns(c)
                   THEN [importJobs EXCEPT ![agentWork[c].job] = Reported(@, status)]
                   ELSE importJobs
  /\ agentWork' = [agentWork EXCEPT ![c] = IdleAgent]
  /\ UNCHANGED <<repository, registered, storedBy>>

CompleteJob(c) == Report(c, "COMPLETED")

FailJob(c) == Report(c, "FAILED")

\* The connector restarts, and has no job that it knows of.
AgentRestarts(c) ==
  /\ agentWork[c].at # "idle"
  /\ agentWork' = [agentWork EXCEPT ![c] = IdleAgent]
  /\ UNCHANGED <<repository, importJobs, registered, storedBy>>

----------------------------------------------------------------------------
EarlierNext ==
  \/ \E j \in ImportJobIds : CreateImportJob(j) \/ TenMinutesPass(j)
  \/ \E c \in Agents :
       \/ CreateConnector(c) \/ Heartbeat(c) \/ DisableConnector(c)
       \/ ClaimNextJob(c)
       \/ UpdateProgress(c) \/ AssertOwnedRunningJob(c) \/ StoreBatch(c)
       \/ CompleteJob(c) \/ FailJob(c) \/ AgentRestarts(c)

\* Time passes, a connector that works comes to an end of it, and one that has
\* nothing to do polls.
EarlierFairness ==
  /\ \A j \in ImportJobIds : WF_earlierVars(TenMinutesPass(j))
  /\ \A c \in Agents : WF_earlierVars(StoreBatch(c))
  /\ \A c \in Agents : WF_earlierVars(CompleteJob(c) \/ FailJob(c))
  /\ \A c \in Steady : WF_earlierVars(ClaimNextJob(c))

EarlierSpec == EarlierInit /\ [][EarlierNext]_earlierVars /\ EarlierFairness

----------------------------------------------------------------------------
(***************************************************************************)
(* In MySQL no job stays RUNNING for ever, whatever becomes of the answers *)
(* to its claims and of the connectors that take it, as long as one of     *)
(* them goes on polling: it is taken back until it has been claimed        *)
(* MaxClaims times, and then given up.                                     *)
(***************************************************************************)
AbandonedJobSettles ==
  \A j \in ImportJobIds :
    repository = "mysql" /\ importJobs[j].status = "RUNNING"
      ~> importJobs[j].status \in {"COMPLETED", "FAILED"}
=============================================================================
