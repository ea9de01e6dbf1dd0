--------------------------- MODULE ConnectorAgent ---------------------------
(***************************************************************************)
(* The Windows Sage connector (Worker.cs) and the agent endpoints of the   *)
(* API that serve it (ConnectorService).                                   *)
(*                                                                         *)
(* The connector takes one job at a time and reports it by HTTP calls,     *)
(* which it waits for for up to five minutes.  A call that the connector   *)
(* has given up may still be running, or about to run, in the API: calls   *)
(* holds every request the API has received and not finished, each at one  *)
(* of its statements, which run in autocommit.                             *)
(***************************************************************************)
EXTENDS ImportRows

VARIABLES
  agent,     \* where each connector stands in ExecuteJobAsync
  agentJob,  \* the job it executes
  calls      \* requests the API is executing

agentVars == <<agent, agentJob, calls>>

Op == {"complete", "log", "fail"}
Call == [conn : Connectors, job : Jobs, op : Op,
         at : {"received", "checked", "jobUpdated"}]

AgentState == {"idle", "collecting", "complete", "log", "fail"}

AgentTypeOK ==
  /\ agent \in [Connectors -> AgentState]
  /\ agentJob \in [Connectors -> Jobs \cup {None}]
  /\ calls \subseteq Call

AgentInit ==
  /\ agent = [c \in Connectors |-> "idle"]
  /\ agentJob = [c \in Connectors |-> None]
  /\ calls = {}

-----------------------------------------------------------------------------

\* assertOwnedJob: the job is RUNNING in this connector.
OwnedJob(c, j) == jobStatus[j] = "RUNNING" /\ jobConnector[j] = c

Request(c, j, op) == [conn |-> c, job |-> j, op |-> op, at |-> "received"]

\* The connector still waits for the answer of call k.
Awaited(k) == agent[k.conn] = k.op /\ agentJob[k.conn] = k.job

\* Connector c leaves ExecuteJobAsync and polls for another job.
Leave(c) ==
  /\ agent' = [agent EXCEPT ![c] = "idle"]
  /\ agentJob' = [agentJob EXCEPT ![c] = None]

\* Connector c sends its next call about its job; rest are the other calls.
Send(c, op, rest) ==
  /\ agent' = [agent EXCEPT ![c] = op]
  /\ calls' = rest \cup {Request(c, agentJob[c], op)}
  /\ UNCHANGED agentJob

-----------------------------------------------------------------------------

\* Mutant: a job that was claimed may be claimed again.
NextUnfinished(j) ==
  /\ jobStatus[j] \in {"QUEUED", "RUNNING"}
  /\ \A i \in Jobs : i < j => jobStatus[i] \notin {"QUEUED", "RUNNING"}

(***************************************************************************)
(* claimNext: one transaction gives the oldest QUEUED job to the connector *)
(* and sets its run to RUNNING whatever the run's status was.  If the      *)
(* answer does not arrive the connector never learns of the job.           *)
(***************************************************************************)
NextQueued(j) ==
  /\ jobStatus[j] = "QUEUED"
  /\ \A i \in Jobs : i < j => jobStatus[i] # "QUEUED"

AgentClaims(c) ==
  /\ agent[c] = "idle"
  /\ \E j \in Jobs, heard \in BOOLEAN :
       /\ NextQueued(j)
       /\ jobStatus' = [jobStatus EXCEPT ![j] = "RUNNING"]
       /\ jobConnector' = [jobConnector EXCEPT ![j] = c]
       /\ runStatus' = SetRun(j, AnyRun, "RUNNING")
       /\ agent' = [agent EXCEPT ![c] = IF heard THEN "collecting" ELSE @]
       /\ agentJob' = [agentJob EXCEPT ![c] = IF heard THEN j ELSE @]
  /\ UNCHANGED <<normVars, calls>>

(***************************************************************************)
(* RunPayrollImportAsync and its siblings read Sage and send progress,     *)
(* logs and batches; each of these calls starts with assertOwnedJob.  Any  *)
(* exception ends in the catch block, which logs first.                    *)
(***************************************************************************)
AgentCollects(c) ==
  /\ agent[c] = "collecting"
  /\ OwnedJob(c, agentJob[c])
  /\ Send(c, "complete", calls)
  /\ UNCHANGED rowVars

AgentCollectFails(c) ==
  /\ agent[c] = "collecting"
  /\ Send(c, "log", calls)
  /\ UNCHANGED rowVars

\* A timeout or a broken connection: the call itself may live on in the API.
AgentGivesUp(c) ==
  /\ \/ agent[c] = "complete" /\ Send(c, "log", calls)
     \/ agent[c] \in {"log", "fail"} /\ Leave(c) /\ UNCHANGED calls
  /\ UNCHANGED rowVars

AgentRestarts(c) ==
  /\ agent[c] # "idle"
  /\ Leave(c)
  /\ UNCHANGED <<rowVars, calls>>

-----------------------------------------------------------------------------

\* The request never reaches the API, or the API process dies over it.
CallLost(k) ==
  /\ calls' = calls \ {k}
  /\ UNCHANGED <<rowVars, agent, agentJob>>

\* A refused call (400): inside the try it is one more exception to report.
Refuse(k) ==
  IF Awaited(k) /\ k.op = "complete"
    THEN Send(k.conn, "log", calls \ {k})
    ELSE /\ calls' = calls \ {k}
         /\ IF Awaited(k) THEN Leave(k.conn) ELSE UNCHANGED <<agent, agentJob>>

\* The call is over; its answer reaches the connector or is lost.
Answer(k) ==
  /\ calls' = calls \ {k}
  /\ \/ Awaited(k) /\ Leave(k.conn)
     \/ UNCHANGED <<agent, agentJob>>

\* Mutant: the collection status written into the normalization column.
CollectedAsQueued(j) == IF j \in PayrollJobs THEN "QUEUED" ELSE normState[j]

\* The normalization_state of a job whose collection is complete.
Collected(j) == IF j \in PayrollJobs THEN "PENDING" ELSE normState[j]

(***************************************************************************)
(* complete: assertOwnedJob is one statement and the UPDATE another, which *)
(* names the row by id alone.                                              *)
(***************************************************************************)
CompleteCheck(k) ==
  /\ k.op = "complete" /\ k.at = "received"
  /\ IF OwnedJob(k.conn, k.job)
       THEN /\ calls' = (calls \ {k}) \cup {[k EXCEPT !.at = "checked"]}
            /\ UNCHANGED <<agent, agentJob>>
       ELSE Refuse(k)
  /\ UNCHANGED rowVars

CompleteUpdate(k) ==
  /\ k.op = "complete" /\ k.at = "checked"
  /\ jobStatus' = [jobStatus EXCEPT ![k.job] = "COMPLETED"]
  /\ LeaveClaim(k.job, Collected(k.job))
  /\ Answer(k)
  /\ UNCHANGED <<jobConnector, attempts, normalized, runStatus>>

\* appendLog of the catch block: only if it is accepted does FailAsync follow.
LogServed(k) ==
  /\ k.op = "log"
  /\ IF OwnedJob(k.conn, k.job)
       THEN \/ Awaited(k) /\ Send(k.conn, "fail", calls \ {k})
            \/ calls' = calls \ {k} /\ UNCHANGED <<agent, agentJob>>
       ELSE Refuse(k)
  /\ UNCHANGED rowVars

(***************************************************************************)
(* fail: checks only that the job belongs to this connector, not that it   *)
(* still runs, and then updates the job and the run in two statements.     *)
(* connector_id never changes after the claim, so the check is taken with  *)
(* the first update.                                                       *)
(***************************************************************************)
FailJob(k) ==
  /\ k.op = "fail" /\ k.at = "received"
  /\ jobConnector[k.job] = k.conn
  /\ jobStatus' = [jobStatus EXCEPT ![k.job] = "FAILED"]
  /\ IF RunOf[k.job] = NoRun
       THEN Answer(k)
       ELSE /\ calls' = (calls \ {k}) \cup {[k EXCEPT !.at = "jobUpdated"]}
            /\ UNCHANGED <<agent, agentJob>>
  /\ UNCHANGED <<jobConnector, normVars, runStatus>>

FailRun(k) ==
  /\ k.op = "fail" /\ k.at = "jobUpdated"
  /\ runStatus' = SetRun(k.job, AnyRun, "FAILED")
  /\ Answer(k)
  /\ UNCHANGED <<jobStatus, jobConnector, normVars>>

-----------------------------------------------------------------------------

Serve(k) ==
  \/ CompleteCheck(k)
  \/ CompleteUpdate(k)
  \/ LogServed(k)
  \/ FailJob(k)
  \/ FailRun(k)

AgentNext ==
  \/ \E c \in Connectors : \/ AgentClaims(c)
                           \/ AgentCollects(c)
                           \/ AgentCollectFails(c)
                           \/ AgentGivesUp(c)
                           \/ AgentRestarts(c)
  \/ \E k \in calls : CallLost(k) \/ Serve(k)
=============================================================================
