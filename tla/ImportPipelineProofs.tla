------------------------ MODULE ImportPipelineProofs ------------------------
(***************************************************************************)
(* Theorems about the import pipeline, for any number of jobs, runs,       *)
(* connectors, workers and payslips.                                       *)
(*                                                                         *)
(* TypeOK is not inductive by itself: that a connector or a worker in the  *)
(* middle of a job has a job at all is part of PipelineInv.  So the types  *)
(* and the invariant are proved together, as IInv.                         *)
(***************************************************************************)
EXTENDS ImportPipeline, FiniteSetTheorems, TLAPS

IInv == TypeOK /\ PipelineInv

-----------------------------------------------------------------------------
(***************************************************************************)
(* Types: the agent.                                                       *)
(***************************************************************************)

\* SetRun writes a status into a run and nothing else.
LEMMA SetRunType ==
  ASSUME TypeOK, NEW j \in Jobs, NEW from, NEW s \in OpenRun \cup ClosedRun
  PROVE  SetRun(j, from, s) \in [Runs -> {"absent"} \cup OpenRun \cup ClosedRun]
BY DEF SetRun, TypeOK, RowsTypeOK

\* A connector that is not idle has a job; so has a request.
LEMMA AgentHasJob ==
  ASSUME IInv, NEW c \in Connectors, agent[c] # "idle"
  PROVE  agentJob[c] \in Jobs
BY DEF IInv, PipelineInv, AgentKnowsItsJob

\* A new request is a Call, about the job its connector has.
LEMMA SendType ==
  ASSUME TypeOK, NEW c \in Connectors, agentJob[c] \in Jobs, NEW op \in Op,
         NEW rest \in SUBSET Call, Send(c, op, rest)
  PROVE  AgentTypeOK'
<1>1. Request(c, agentJob[c], op) \in Call
  BY DEF Request, Call
<1>2. op \in AgentState
  BY DEF Op, AgentState
<1>3. QED
  BY <1>1, <1>2 DEF Send, TypeOK, AgentTypeOK

\* A connector that leaves ExecuteJobAsync is idle and has no job.
LEMMA LeaveType ==
  ASSUME TypeOK, NEW c \in Connectors, Leave(c)
  PROVE  /\ agent' \in [Connectors -> AgentState]
         /\ agentJob' \in [Connectors -> Jobs \cup {None}]
BY DEF Leave, TypeOK, AgentTypeOK, AgentState

\* What the type of calls says of one request.
LEMMA CallHasJob ==
  ASSUME TypeOK, NEW k \in calls
  PROVE  k \in Call /\ k.job \in Jobs /\ k.conn \in Connectors /\ k.op \in Op
BY DEF TypeOK, AgentTypeOK, Call

\* A refused request is gone, and leads to a log at most.
LEMMA RefuseType ==
  ASSUME TypeOK, NEW k \in calls, Refuse(k) PROVE AgentTypeOK'
<1>1. k.job \in Jobs /\ k.conn \in Connectors /\ calls \ {k} \in SUBSET Call
  BY CallHasJob DEF TypeOK, AgentTypeOK
<1>2. CASE Awaited(k) /\ k.op = "complete"
  <2>1. agentJob[k.conn] \in Jobs /\ "log" \in Op
    BY <1>1, <1>2 DEF Awaited, Op
  <2>2. QED
    BY <1>1, <1>2, <2>1, SendType DEF Refuse
<1>3. CASE ~(Awaited(k) /\ k.op = "complete")
  <2>1. calls' \in SUBSET Call
    BY <1>1, <1>3 DEF Refuse
  <2>2. CASE Awaited(k)
    BY <1>1, <1>3, <2>1, <2>2, LeaveType DEF Refuse, AgentTypeOK
  <2>3. CASE ~Awaited(k)
    BY <1>3, <2>1, <2>3 DEF Refuse, TypeOK, AgentTypeOK
  <2>4. QED
    BY <2>2, <2>3
<1>4. QED
  BY <1>2, <1>3

\* An answered request is gone.
LEMMA AnswerType ==
  ASSUME TypeOK, NEW k \in calls, Answer(k) PROVE AgentTypeOK'
<1>1. k.conn \in Connectors /\ calls' \in SUBSET Call
  BY CallHasJob DEF Answer, TypeOK, AgentTypeOK
<1>2. QED
  BY <1>1, LeaveType DEF Answer, TypeOK, AgentTypeOK

\* Rows and workers untouched, types kept.
LEMMA RowsKeepTypes ==
  ASSUME TypeOK, UNCHANGED rowVars PROVE RowsTypeOK'
BY DEF TypeOK, RowsTypeOK, rowVars, normVars

\* Workers untouched, types kept.
LEMMA WorkersKeepTypes ==
  ASSUME TypeOK, UNCHANGED workerVars PROVE WorkerTypeOK'
BY DEF TypeOK, WorkerTypeOK, workerVars

\* Leaving a claim writes a state, no owner and no lease.
LEMMA LeaveClaimType ==
  ASSUME TypeOK, NEW j \in Jobs, NEW s \in NormState, LeaveClaim(j, s)
  PROVE  /\ normState' \in [Jobs -> NormState]
         /\ normOwner' \in [Jobs -> Workers \cup {None}]
         /\ leaseLapsed' \in [Jobs -> BOOLEAN]
BY DEF LeaveClaim, TypeOK, RowsTypeOK

\* Types through every step of the connector and of the agent API.
LEMMA AgentKeepsTypes ==
  ASSUME IInv, AgentNext PROVE RowsTypeOK' /\ AgentTypeOK'
<1> USE DEF IInv
<1>1. ASSUME NEW c \in Connectors, AgentClaims(c)
      PROVE  RowsTypeOK' /\ AgentTypeOK'
  <2>1. PICK j \in Jobs, heard \in BOOLEAN :
          /\ jobStatus' = [jobStatus EXCEPT ![j] = "RUNNING"]
          /\ jobConnector' = [jobConnector EXCEPT ![j] = c]
          /\ runStatus' = SetRun(j, AnyRun, "RUNNING")
          /\ agent' = [agent EXCEPT ![c] = IF heard THEN "collecting" ELSE @]
          /\ agentJob' = [agentJob EXCEPT ![c] = IF heard THEN j ELSE @]
    BY <1>1 DEF AgentClaims
  <2>2. runStatus' \in [Runs -> {"absent"} \cup OpenRun \cup ClosedRun]
    BY <2>1, SetRunType DEF OpenRun
  <2>3. QED
    BY <1>1, <2>1, <2>2 DEF AgentClaims, JobStatus, AgentState, TypeOK,
       RowsTypeOK, AgentTypeOK, normVars
<1>2. ASSUME NEW c \in Connectors, NEW op \in Op, agent[c] # "idle",
             Send(c, op, calls), UNCHANGED rowVars
      PROVE  RowsTypeOK' /\ AgentTypeOK'
  <2>1. calls \in SUBSET Call
    BY DEF TypeOK, AgentTypeOK
  <2>2. QED
    BY <1>2, <2>1, AgentHasJob, SendType, RowsKeepTypes
<1>3. ASSUME NEW c \in Connectors, Leave(c), UNCHANGED <<rowVars, calls>>
      PROVE  RowsTypeOK' /\ AgentTypeOK'
  BY <1>3, LeaveType, RowsKeepTypes DEF TypeOK, AgentTypeOK
<1>4. ASSUME NEW c \in Connectors,
             AgentCollects(c) \/ AgentCollectFails(c) \/ AgentGivesUp(c)
               \/ AgentRestarts(c)
      PROVE  RowsTypeOK' /\ AgentTypeOK'
  <2>1. CASE Leave(c) /\ UNCHANGED <<rowVars, calls>>
    BY <2>1, <1>3
  <2>2. CASE /\ agent[c] # "idle" /\ UNCHANGED rowVars
             /\ Send(c, "complete", calls) \/ Send(c, "log", calls)
    BY <2>2, <1>2 DEF Op
  <2>3. QED
    BY <1>4, <2>1, <2>2 DEF AgentCollects, AgentCollectFails, AgentGivesUp,
       AgentRestarts
<1>5. ASSUME NEW k \in calls, CallLost(k)
      PROVE  RowsTypeOK' /\ AgentTypeOK'
  BY <1>5, RowsKeepTypes DEF CallLost, TypeOK, AgentTypeOK
<1>6. ASSUME NEW k \in calls, CompleteCheck(k)
      PROVE  RowsTypeOK' /\ AgentTypeOK'
  <2>1. [k EXCEPT !.at = "checked"] \in Call
    BY CallHasJob DEF Call
  <2>2. QED
    BY <1>6, <2>1, RefuseType, RowsKeepTypes
       DEF CompleteCheck, TypeOK, AgentTypeOK
<1>7. ASSUME NEW k \in calls, CompleteUpdate(k)
      PROVE  RowsTypeOK' /\ AgentTypeOK'
  <2>1. k.job \in Jobs /\ Collected(k.job) \in NormState
    BY CallHasJob DEF Collected, NormState, TypeOK, RowsTypeOK
  <2>2. AgentTypeOK'
    BY <1>7, AnswerType DEF CompleteUpdate
  <2>3. QED
    BY <1>7, <2>1, <2>2, LeaveClaimType
       DEF CompleteUpdate, TypeOK, RowsTypeOK, JobStatus
<1>8. ASSUME NEW k \in calls, LogServed(k)
      PROVE  RowsTypeOK' /\ AgentTypeOK'
  <2>1. k.conn \in Connectors /\ k.job \in Jobs /\ calls \ {k} \in SUBSET Call
    BY CallHasJob DEF TypeOK, AgentTypeOK
  <2>2. ASSUME Awaited(k), Send(k.conn, "fail", calls \ {k}) PROVE AgentTypeOK'
    <3>1. agentJob[k.conn] \in Jobs /\ "fail" \in Op
      BY <2>1, <2>2 DEF Awaited, Op
    <3>2. QED
      BY <2>1, <2>2, <3>1, SendType
  <2>3. QED
    BY <1>8, <2>1, <2>2, RefuseType, RowsKeepTypes
       DEF LogServed, TypeOK, AgentTypeOK
<1>9. ASSUME NEW k \in calls, FailJob(k)
      PROVE  RowsTypeOK' /\ AgentTypeOK'
  <2>1. k.job \in Jobs /\ [k EXCEPT !.at = "jobUpdated"] \in Call
    BY CallHasJob DEF Call
  <2>2. AgentTypeOK'
    BY <1>9, <2>1, AnswerType DEF FailJob, TypeOK, AgentTypeOK
  <2>3. QED
    BY <1>9, <2>1, <2>2 DEF FailJob, TypeOK, RowsTypeOK, JobStatus, normVars
<1>10. ASSUME NEW k \in calls, FailRun(k)
       PROVE  RowsTypeOK' /\ AgentTypeOK'
  <2>1. runStatus' \in [Runs -> {"absent"} \cup OpenRun \cup ClosedRun]
    BY <1>10, SetRunType, CallHasJob DEF FailRun, ClosedRun
  <2>2. QED
    BY <1>10, <2>1, AnswerType DEF FailRun, TypeOK, RowsTypeOK, normVars
<1>11. QED
  BY <1>1, <1>4, <1>5, <1>6, <1>7, <1>8, <1>9, <1>10 DEF AgentNext, Serve

-----------------------------------------------------------------------------
(***************************************************************************)
(* Types: the rows and the workers.                                        *)
(***************************************************************************)

\* Types through the creation of runs and jobs.
LEMMA CreationKeepsTypes ==
  ASSUME TypeOK, RowsNext PROVE RowsTypeOK'
BY DEF RowsNext, StartRun, CreateJob, TypeOK, RowsTypeOK, JobStatus, OpenRun,
   normVars

\* A worker in the middle of claimNext or of a job has a job.
LEMMA WorkerHasJob ==
  ASSUME IInv, NEW w \in Workers, worker[w] \notin {"down", "idle"}
  PROVE  workJob[w] \in Jobs
BY DEF IInv, PipelineInv, ClaimIsCounted

\* A worker that is done with its job forgets it.
LEMMA ReleaseType ==
  ASSUME TypeOK, NEW w \in Workers, NEW where \in WorkerState,
         Release(w, where), faults' \in 0..MaxFaults
  PROVE  WorkerTypeOK'
BY DEF Release, TypeOK, WorkerTypeOK

\* A worker that moves on keeps what it knows of its job.
LEMMA GotoType ==
  ASSUME TypeOK, NEW w \in Workers, NEW where \in WorkerState,
         Goto(w, where)
  PROVE  /\ worker' \in [Workers -> WorkerState]
         /\ workJob' \in [Workers -> Jobs \cup {None}]
         /\ seen' \in [Workers -> Nat]
BY DEF Goto, TypeOK, WorkerTypeOK

\* The count of faults stays within its bound.
LEMMA FaultType ==
  ASSUME TypeOK, Fault PROVE faults' \in 0..MaxFaults
BY WorkerAssumption DEF Fault, TypeOK, WorkerTypeOK

\* Types through every step of the workers and of the clock.
LEMMA WorkerKeepsTypes ==
  ASSUME IInv, WorkerNext PROVE RowsTypeOK' /\ WorkerTypeOK'
<1> USE DEF IInv
<1> DEFINE Typed == RowsTypeOK' /\ WorkerTypeOK'
<1>1. ASSUME NEW w \in Workers, WorkerStarts(w) PROVE Typed
  BY <1>1, RowsKeepTypes
     DEF WorkerStarts, TypeOK, WorkerTypeOK, WorkerState
<1>2. ASSUME NEW w \in Workers, SelectCandidate(w) PROVE Typed
  BY <1>2, RowsKeepTypes
     DEF SelectCandidate, TypeOK, RowsTypeOK, WorkerTypeOK, WorkerState
<1>3. ASSUME NEW w \in Workers, ClaimCandidate(w) PROVE Typed
  <2>1. workJob[w] \in Jobs
    BY <1>3, WorkerHasJob DEF ClaimCandidate
  <2>2. CASE Claimable(workJob[w])
    <3>1. "claimed" \in WorkerState
      BY DEF WorkerState
    <3>2. WorkerTypeOK'
      BY <1>3, <2>2, <3>1, GotoType DEF ClaimCandidate, TypeOK, WorkerTypeOK
    <3>3. RowsTypeOK'
      <4>1. /\ normState' = [normState EXCEPT ![workJob[w]] = "CLAIMED"]
            /\ normOwner' = [normOwner EXCEPT ![workJob[w]] = w]
            /\ leaseLapsed' = [leaseLapsed EXCEPT ![workJob[w]] = FALSE]
            /\ attempts' = [attempts EXCEPT ![workJob[w]] = @ + 1]
            /\ UNCHANGED <<jobStatus, jobConnector, normalized, runStatus>>
        BY <1>3, <2>2 DEF ClaimCandidate
      <4>2. QED
        BY <2>1, <4>1 DEF TypeOK, RowsTypeOK, NormState
    <3>4. QED
      BY <3>2, <3>3
  <2>3. CASE ~Claimable(workJob[w])
    BY <1>3, <2>3, ReleaseType, RowsKeepTypes
       DEF ClaimCandidate, WorkerState, TypeOK, WorkerTypeOK, rowVars
  <2>4. QED
    BY <2>2, <2>3
<1>4. ASSUME NEW w \in Workers, CheckClaim(w) PROVE Typed
  BY <1>4, RowsKeepTypes
     DEF CheckClaim, Goto, TypeOK, WorkerTypeOK, WorkerState
<1>5. ASSUME NEW w \in Workers, PersistSlip(w) PROVE Typed
  <2>1. RunOf[workJob[w]] \in Runs \cup {NoRun, Absent}
    BY <1>5, WorkerHasJob, RowsAssumption DEF PersistSlip
  <2>2. worker' \in [Workers -> WorkerState] /\ workJob' = workJob /\ seen' = seen
    BY <1>5 DEF PersistSlip, Goto, TypeOK, WorkerTypeOK, WorkerState
  <2>3. PICK s \in todo[w] : /\ todo' = [todo EXCEPT ![w] = @ \ {s}]
                             /\ skipped' \in [Workers -> BOOLEAN]
                             /\ slipRun' \in [Slips -> Runs \cup {NoRun, Absent}]
    <3>1. PICK s \in todo[w] :
            /\ todo' = [todo EXCEPT ![w] = @ \ {s}]
            /\ \/ /\ slipRun' = [slipRun EXCEPT ![s] = RunOf[workJob[w]]]
                  /\ UNCHANGED skipped
               \/ /\ slipRun' = [slipRun EXCEPT
                        ![s] = IF @ = NoRun THEN RunOf[workJob[w]] ELSE @]
                  /\ UNCHANGED skipped
               \/ UNCHANGED <<slipRun, skipped>>
               \/ /\ skipped' = [skipped EXCEPT ![w] = TRUE]
                  /\ UNCHANGED slipRun
      BY <1>5 DEF PersistSlip
    <3>2. s \in Slips
      BY DEF TypeOK, WorkerTypeOK
    <3>3. skipped' \in [Workers -> BOOLEAN]
      BY <3>1 DEF TypeOK, WorkerTypeOK
    <3>4. slipRun' \in [Slips -> Runs \cup {NoRun, Absent}]
      BY <3>1, <3>2, <2>1 DEF TypeOK, WorkerTypeOK
    <3>5. QED
      BY <3>1, <3>3, <3>4
  <2>4. RowsTypeOK' /\ faults' = faults
    BY <1>5, RowsKeepTypes DEF PersistSlip
  <2>5. QED
    BY <2>2, <2>3, <2>4 DEF TypeOK, WorkerTypeOK
<1>6. ASSUME NEW w \in Workers,
             NormalizationThrows(w) \/ PersistBlocked(w)
      PROVE  Typed
  <2>1. faults' \in 0..MaxFaults
    BY <1>6, FaultType
       DEF NormalizationThrows, PersistBlocked, TypeOK, WorkerTypeOK
  <2>2. QED
    BY <1>6, <2>1, RowsKeepTypes
       DEF NormalizationThrows, PersistBlocked, Goto, TypeOK, WorkerTypeOK,
           WorkerState
<1>7. ASSUME NEW w \in Workers, RenewLease(w) PROVE Typed
  <2>1. leaseLapsed' \in [Jobs -> BOOLEAN]
    BY <1>7, WorkerHasJob DEF RenewLease, TypeOK, RowsTypeOK
  <2>2. worker' \in [Workers -> WorkerState] /\ workJob' = workJob /\ seen' = seen
    BY <1>7 DEF RenewLease, Goto, TypeOK, WorkerTypeOK, WorkerState
  <2>3. QED
    BY <1>7, <2>1, <2>2 DEF RenewLease, TypeOK, RowsTypeOK, WorkerTypeOK
<1>8. ASSUME NEW w \in Workers, CompleteClaim(w) PROVE Typed
  <2>1. workJob[w] \in Jobs
    BY <1>8, WorkerHasJob DEF CompleteClaim
  <2>2. CASE Owns(w, workJob[w]) /\ ~normalized[workJob[w]]
    <3>1. Outcome(w) \in OpenRun \cup ClosedRun
      BY DEF Outcome, ClosedRun
    <3>2. runStatus' \in [Runs -> {"absent"} \cup OpenRun \cup ClosedRun]
      BY <1>8, <2>1, <2>2, <3>1, SetRunType DEF CompleteClaim
    <3>3. RowsTypeOK'
      BY <1>8, <2>1, <2>2, <3>2, LeaveClaimType
         DEF CompleteClaim, TypeOK, RowsTypeOK, NormState
    <3>4. Release(w, "idle") => WorkerTypeOK'
      BY <1>8, ReleaseType DEF CompleteClaim, WorkerState, TypeOK, WorkerTypeOK
    <3>5. Goto(w, "failing") /\ UNCHANGED <<todo, skipped, slipRun>>
            => WorkerTypeOK'
      BY <1>8, GotoType DEF CompleteClaim, WorkerState, TypeOK, WorkerTypeOK
    <3>6. QED
      BY <1>8, <2>2, <3>3, <3>4, <3>5 DEF CompleteClaim
  <2>3. CASE ~(Owns(w, workJob[w]) /\ ~normalized[workJob[w]])
    BY <1>8, <2>3 DEF CompleteClaim, Goto, TypeOK, RowsTypeOK, WorkerTypeOK,
       WorkerState
  <2>4. QED
    BY <2>2, <2>3
<1>9. ASSUME NEW w \in Workers, FailClaim(w) PROVE Typed
  <2>1. workJob[w] \in Jobs
    BY <1>9, WorkerHasJob DEF FailClaim
  <2>2. FailedOutcome(workJob[w]) \in OpenRun \cup ClosedRun
    BY DEF FailedOutcome, ClosedRun
  <2>3. SetRun(workJob[w], OpenRun, FailedOutcome(workJob[w]))
          \in [Runs -> {"absent"} \cup OpenRun \cup ClosedRun]
    BY <2>1, <2>2, SetRunType
  <2>4. RowsTypeOK'
    BY <1>9, <2>1, <2>3, LeaveClaimType
       DEF FailClaim, TypeOK, RowsTypeOK, NormState
  <2>5. QED
    BY <1>9, <2>4, ReleaseType
       DEF FailClaim, WorkerState, TypeOK, WorkerTypeOK
<1>10. ASSUME NEW w \in Workers, WorkerFault(w), ~PersistBlocked(w) PROVE Typed
  <2>1. PICK where \in {"idle", "down"} : Release(w, where)
    BY <1>10 DEF WorkerFault, AbandonClaim, FailClaimLost, WorkerCrashes
  <2>2. Fault /\ UNCHANGED rowVars
    BY <1>10 DEF WorkerFault, AbandonClaim, FailClaimLost, WorkerCrashes
  <2>3. QED
    BY <2>1, <2>2, FaultType, ReleaseType, RowsKeepTypes DEF WorkerState
<1>11. ASSUME NEW j \in Jobs, OrphanLapses(j) \/ LapsesUnderWorker(j)
       PROVE  Typed
  <2>1. faults' \in 0..MaxFaults
    BY <1>11, FaultType
       DEF OrphanLapses, LapsesUnderWorker, workerVars, TypeOK, WorkerTypeOK
  <2>2. QED
    BY <1>11, <2>1 DEF OrphanLapses, LapsesUnderWorker, LeaseLapses,
       workerVars, TypeOK, RowsTypeOK, WorkerTypeOK
<1>12. QED
  BY <1>1, <1>2, <1>3, <1>4, <1>5, <1>6, <1>7, <1>8, <1>9, <1>10, <1>11
     DEF WorkerNext, WorkerStep, WorkerFault

\* Types through any step.
LEMMA NextKeepsTypes ==
  ASSUME IInv, [Next]_vars PROVE TypeOK'
<1>1. CASE RowsNext /\ UNCHANGED <<agentVars, workerVars>>
  BY <1>1, CreationKeepsTypes, WorkersKeepTypes
     DEF IInv, TypeOK, AgentTypeOK, agentVars
<1>2. CASE AgentNext /\ UNCHANGED workerVars
  BY <1>2, AgentKeepsTypes, WorkersKeepTypes DEF IInv, TypeOK
<1>3. CASE WorkerNext /\ UNCHANGED agentVars
  BY <1>3, WorkerKeepsTypes DEF IInv, TypeOK, AgentTypeOK, agentVars
<1>4. CASE UNCHANGED vars
  BY <1>4, RowsKeepTypes, WorkersKeepTypes
     DEF IInv, TypeOK, AgentTypeOK, vars, agentVars
<1>5. QED
  BY <1>1, <1>2, <1>3, <1>4 DEF Next

-----------------------------------------------------------------------------
(***************************************************************************)
(* What the connector and its requests may assume of a job.                *)
(***************************************************************************)

AgentInv == StateFollowsCollection /\ AgentKnowsItsJob /\ CallsKnowTheirJob

\* A job is normalized by the workers without its collection noticing.
LEMMA WorkerMovesRows ==
  ASSUME IInv, WorkerNext
  PROVE  /\ UNCHANGED <<jobStatus, jobConnector>>
         /\ \A j \in Jobs :
              \/ normState'[j] = normState[j]
              \/ /\ normState[j] \in {"PENDING", "CLAIMED"}
                 /\ normState'[j] = "CLAIMED"
              \/ /\ normState[j] = "CLAIMED"
                 /\ normState'[j] \in {"PENDING", "COMPLETED", "FAILED"}
         /\ \A r \in Runs :
              \/ runStatus'[r] = runStatus[r]
              \/ runStatus[r] \in OpenRun /\ runStatus'[r] \in ClosedRun
<1> USE DEF IInv, TypeOK, RowsTypeOK
<1> DEFINE Moved ==
      /\ UNCHANGED <<jobStatus, jobConnector>>
      /\ \A j \in Jobs :
           \/ normState'[j] = normState[j]
           \/ /\ normState[j] \in {"PENDING", "CLAIMED"}
              /\ normState'[j] = "CLAIMED"
           \/ /\ normState[j] = "CLAIMED"
              /\ normState'[j] \in {"PENDING", "COMPLETED", "FAILED"}
      /\ \A r \in Runs :
           \/ runStatus'[r] = runStatus[r]
           \/ runStatus[r] \in OpenRun /\ runStatus'[r] \in ClosedRun
<1>1. CASE UNCHANGED rowVars
  BY <1>1 DEF rowVars, normVars
<1>2. ASSUME NEW w \in Workers, ClaimCandidate(w) PROVE Moved
  <2>1. workJob[w] \in Jobs
    BY <1>2, WorkerHasJob DEF ClaimCandidate
  <2>2. CASE Claimable(workJob[w])
    <3>1. normState[workJob[w]] \in {"PENDING", "CLAIMED"}
      BY <2>1, <2>2 DEF Claimable, PipelineInv, StateFollowsCollection
    <3>2. /\ normState' = [normState EXCEPT ![workJob[w]] = "CLAIMED"]
          /\ UNCHANGED <<jobStatus, jobConnector, runStatus>>
      BY <1>2, <2>2 DEF ClaimCandidate
    <3>3. QED
      BY <2>1, <3>1, <3>2
  <2>3. CASE ~Claimable(workJob[w])
    BY <1>2, <2>3 DEF ClaimCandidate, normVars
  <2>4. QED
    BY <2>2, <2>3
<1>3. ASSUME NEW w \in Workers, CompleteClaim(w) PROVE Moved
  <2>1. workJob[w] \in Jobs
    BY <1>3, WorkerHasJob DEF CompleteClaim
  <2>2. CASE Owns(w, workJob[w]) /\ ~normalized[workJob[w]]
    BY <1>3, <2>1, <2>2
       DEF CompleteClaim, LeaveClaim, SetRun, Owns, Outcome, ClosedRun
  <2>3. CASE ~(Owns(w, workJob[w]) /\ ~normalized[workJob[w]])
    BY <1>3, <2>3 DEF CompleteClaim
  <2>4. QED
    BY <2>2, <2>3
<1>4. ASSUME NEW w \in Workers, FailClaim(w) PROVE Moved
  <2>1. workJob[w] \in Jobs
    BY <1>4, WorkerHasJob DEF FailClaim
  <2>2. FailedOutcome(workJob[w]) \in ClosedRun
    BY DEF FailedOutcome, ClosedRun
  <2>3. QED
    BY <1>4, <2>1, <2>2 DEF FailClaim, LeaveClaim, SetRun, Owns
<1>5. ASSUME NEW w \in Workers, RenewLease(w) PROVE Moved
  BY <1>5 DEF RenewLease
<1>6. ASSUME NEW j \in Jobs, LeaseLapses(j) PROVE Moved
  BY <1>6 DEF LeaseLapses
<1>7. QED
  BY <1>1, <1>2, <1>3, <1>4, <1>5, <1>6
     DEF WorkerNext, WorkerStep, WorkerFault, WorkerStarts, SelectCandidate,
         CheckClaim, PersistSlip, NormalizationThrows, AbandonClaim,
         PersistBlocked, FailClaimLost, WorkerCrashes, OrphanLapses,
         LapsesUnderWorker

\* The connector hears an answer, gives up or restarts; nothing new is sent.
LEMMA QuietStep ==
  ASSUME IInv, calls' \subseteq calls,
         \A c \in Connectors :
           \/ agent'[c] = "idle"
           \/ agent'[c] = agent[c] /\ agentJob'[c] = agentJob[c],
         UNCHANGED <<jobStatus, jobConnector, normState>>,
         \A r \in Runs : runStatus'[r] = "absent" => runStatus[r] = "absent"
  PROVE  AgentInv'
<1> USE DEF IInv, PipelineInv
<1>1. StateFollowsCollection'
  BY RowsAssumption DEF StateFollowsCollection
<1>2. AgentKnowsItsJob'
  BY DEF AgentKnowsItsJob
<1>3. CallsKnowTheirJob'
  BY DEF CallsKnowTheirJob
<1>4. QED
  BY <1>1, <1>2, <1>3 DEF AgentInv

\* A connector that leaves changes no other connector.
LEMMA LeaveIsQuiet ==
  ASSUME TypeOK, NEW c \in Connectors, Leave(c)
  PROVE  \A d \in Connectors :
           \/ agent'[d] = "idle"
           \/ agent'[d] = agent[d] /\ agentJob'[d] = agentJob[d]
BY DEF Leave, TypeOK, AgentTypeOK

\* The connector reports about its job.
LEMMA SendStep ==
  ASSUME IInv, NEW c \in Connectors, agent[c] # "idle",
         NEW op \in {"log", "fail"}, NEW rest \in SUBSET calls,
         Send(c, op, rest), UNCHANGED rowVars
  PROVE  AgentInv'
<1> USE DEF IInv, PipelineInv
<1>1. /\ agent' = [agent EXCEPT ![c] = op] /\ agentJob' = agentJob
      /\ calls' = rest \cup {Request(c, agentJob[c], op)}
      /\ UNCHANGED <<jobStatus, jobConnector, normState, runStatus>>
  BY DEF Send, rowVars, normVars
<1>2. StateFollowsCollection'
  BY <1>1 DEF StateFollowsCollection
<1>3. /\ agentJob[c] \in Jobs /\ jobConnector[agentJob[c]] = c
      /\ jobStatus[agentJob[c]] \in Reported
  BY DEF AgentKnowsItsJob
<1>4. AgentKnowsItsJob'
  <2> SUFFICES ASSUME NEW d \in Connectors
               PROVE  /\ agent'[d] # "idle"
                           => /\ agentJob'[d] \in Jobs
                              /\ jobConnector'[agentJob'[d]] = d
                              /\ jobStatus'[agentJob'[d]] \in Reported
                      /\ agent'[d] = "collecting"
                           => /\ jobStatus'[agentJob'[d]] = "RUNNING"
                              /\ \A k \in calls' : k.job # agentJob'[d]
    BY DEF AgentKnowsItsJob
  <2>1. CASE d = c
    BY <1>1, <1>3, <2>1 DEF TypeOK, AgentTypeOK
  <2>2. CASE d # c
    <3>1. agent'[d] = agent[d]
      BY <1>1, <2>2 DEF TypeOK, AgentTypeOK
    <3>2. agent[d] = "collecting" => agentJob[d] # agentJob[c]
      BY <1>3, <2>2 DEF AgentKnowsItsJob
    <3>3. QED
      BY <1>1, <3>1, <3>2 DEF AgentKnowsItsJob, Request
  <2>3. QED
    BY <2>1, <2>2
<1>5. CallsKnowTheirJob'
  <2>1. \A k \in calls' : k \in calls \/ k = Request(c, agentJob[c], op)
    BY <1>1
  <2>2. QED
    BY <1>1, <1>3, <2>1 DEF CallsKnowTheirJob, Request
<1>6. QED
  BY <1>2, <1>4, <1>5 DEF AgentInv

\* claimNext: nothing is under way for a job that is still QUEUED.
LEMMA AgentClaimsStep ==
  ASSUME IInv, NEW c \in Connectors, AgentClaims(c) PROVE AgentInv'
<1> USE DEF IInv, PipelineInv
<1>1. PICK j \in Jobs, heard \in BOOLEAN :
        /\ jobStatus[j] = "QUEUED"
        /\ jobStatus' = [jobStatus EXCEPT ![j] = "RUNNING"]
        /\ jobConnector' = [jobConnector EXCEPT ![j] = c]
        /\ runStatus' = SetRun(j, AnyRun, "RUNNING")
        /\ agent' = [agent EXCEPT ![c] = IF heard THEN "collecting" ELSE @]
        /\ agentJob' = [agentJob EXCEPT ![c] = IF heard THEN j ELSE @]
  BY DEF AgentClaims, NextQueued
<1>2. agent[c] = "idle" /\ calls' = calls /\ normState' = normState
  BY DEF AgentClaims, normVars
<1>3. \A k \in calls : k.job # j
  BY <1>1 DEF CallsKnowTheirJob, Reported
<1>4. \A d \in Connectors : agent[d] # "idle" => agentJob[d] # j
  BY <1>1 DEF AgentKnowsItsJob, Reported
<1>5. StateFollowsCollection'
  <2>1. \A r \in Runs : runStatus'[r] = "absent" => runStatus[r] = "absent"
    BY <1>1 DEF SetRun
  <2>2. normState[j] = "null"
    BY <1>1 DEF StateFollowsCollection, Collecting
  <2>3. RunOf[j] # NoRun => runStatus[RunOf[j]] # "absent"
    BY <1>1 DEF StateFollowsCollection
  <2>4. QED
    BY <1>1, <1>2, <2>1, <2>2, <2>3, RowsAssumption
       DEF StateFollowsCollection, TypeOK, RowsTypeOK
<1>6. AgentKnowsItsJob'
  <2> SUFFICES ASSUME NEW d \in Connectors, agent'[d] # "idle"
               PROVE  /\ agentJob'[d] \in Jobs
                      /\ jobConnector'[agentJob'[d]] = d
                      /\ jobStatus'[agentJob'[d]] \in Reported
                      /\ agent'[d] = "collecting"
                           => /\ jobStatus'[agentJob'[d]] = "RUNNING"
                              /\ \A k \in calls' : k.job # agentJob'[d]
    BY DEF AgentKnowsItsJob
  <2>1. CASE d = c
    <3>1. agent'[c] = "collecting" /\ agentJob'[c] = j
      BY <1>1, <1>2, <2>1 DEF TypeOK, AgentTypeOK
    <3>2. QED
      BY <1>1, <1>2, <1>3, <2>1, <3>1 DEF TypeOK, RowsTypeOK, Reported
  <2>2. CASE d # c
    <3>1. agent'[d] = agent[d] /\ agentJob'[d] = agentJob[d]
      BY <1>1, <2>2 DEF TypeOK, AgentTypeOK
    <3>2. agentJob[d] # j /\ agentJob[d] \in Jobs
      BY <3>1, <1>4 DEF AgentKnowsItsJob
    <3>3. QED
      BY <1>1, <1>2, <3>1, <3>2 DEF AgentKnowsItsJob, TypeOK, RowsTypeOK
  <2>3. QED
    BY <2>1, <2>2
<1>7. CallsKnowTheirJob'
  <2>1. \A k \in calls : /\ jobStatus'[k.job] = jobStatus[k.job]
                         /\ jobConnector'[k.job] = jobConnector[k.job]
    BY <1>1, <1>3, CallHasJob DEF TypeOK, RowsTypeOK
  <2>2. QED
    BY <1>2, <2>1 DEF CallsKnowTheirJob
<1>8. QED
  BY <1>5, <1>6, <1>7 DEF AgentInv

\* The one complete of a job is sent by the connector that still collects it.
LEMMA AgentCollectsStep ==
  ASSUME IInv, NEW c \in Connectors, AgentCollects(c) PROVE AgentInv'
<1> USE DEF IInv, PipelineInv
<1>1. /\ agent[c] = "collecting"
      /\ agent' = [agent EXCEPT ![c] = "complete"] /\ agentJob' = agentJob
      /\ calls' = calls \cup {Request(c, agentJob[c], "complete")}
      /\ UNCHANGED <<jobStatus, jobConnector, normState, runStatus>>
  BY DEF AgentCollects, Send, rowVars, normVars
<1>2. /\ agentJob[c] \in Jobs /\ jobConnector[agentJob[c]] = c
      /\ jobStatus[agentJob[c]] = "RUNNING"
      /\ \A k \in calls : k.job # agentJob[c]
  BY <1>1 DEF AgentKnowsItsJob
<1>3. normState[agentJob[c]] = "null"
  BY <1>2 DEF StateFollowsCollection, Collecting
<1>4. StateFollowsCollection'
  BY <1>1 DEF StateFollowsCollection
<1>5. AgentKnowsItsJob'
  <2> SUFFICES ASSUME NEW d \in Connectors
               PROVE  /\ agent'[d] # "idle"
                           => /\ agentJob'[d] \in Jobs
                              /\ jobConnector'[agentJob'[d]] = d
                              /\ jobStatus'[agentJob'[d]] \in Reported
                      /\ agent'[d] = "collecting"
                           => /\ jobStatus'[agentJob'[d]] = "RUNNING"
                              /\ \A k \in calls' : k.job # agentJob'[d]
    BY DEF AgentKnowsItsJob
  <2>1. CASE d = c
    BY <1>1, <1>2, <2>1 DEF TypeOK, AgentTypeOK, Reported
  <2>2. CASE d # c
    <3>1. agent'[d] = agent[d]
      BY <1>1, <2>2 DEF TypeOK, AgentTypeOK
    <3>2. agent[d] = "collecting" => agentJob[d] # agentJob[c]
      BY <1>2, <2>2 DEF AgentKnowsItsJob
    <3>3. QED
      BY <1>1, <3>1, <3>2 DEF AgentKnowsItsJob, Request
  <2>3. QED
    BY <2>1, <2>2
<1>6. CallsKnowTheirJob'
  <2>1. \A k \in calls' : \/ k \in calls /\ k.job # agentJob[c]
                          \/ k = Request(c, agentJob[c], "complete")
    BY <1>1, <1>2
  <2>2. QED
    BY <1>1, <1>2, <1>3, <2>1 DEF CallsKnowTheirJob, Request, Reported
<1>7. QED
  BY <1>4, <1>5, <1>6 DEF AgentInv

\* A refused request promises nothing new.
LEMMA RefuseStep ==
  ASSUME IInv, NEW k \in calls, Refuse(k), UNCHANGED rowVars PROVE AgentInv'
<1>1. k.conn \in Connectors
  BY CallHasJob DEF IInv
<1>2. CASE Awaited(k) /\ k.op = "complete"
  <2>1. agent[k.conn] # "idle"
    BY <1>2 DEF Awaited
  <2>2. QED
    BY <1>1, <1>2, <2>1, SendStep DEF Refuse
<1>3. CASE ~(Awaited(k) /\ k.op = "complete")
  BY <1>1, <1>3, LeaveIsQuiet, QuietStep DEF Refuse, IInv, rowVars, normVars
<1>4. QED
  BY <1>2, <1>3

\* An answer changes its connector at most, by making it idle.
LEMMA AnswerIsQuiet ==
  ASSUME IInv, NEW k \in calls, Answer(k)
  PROVE  /\ calls' = calls \ {k}
         /\ \A c \in Connectors :
              \/ agent'[c] = "idle"
              \/ agent'[c] = agent[c] /\ agentJob'[c] = agentJob[c]
BY CallHasJob, LeaveIsQuiet DEF Answer, IInv

\* A request at its next statement is still the same request.
LEMMA AdvanceStep ==
  ASSUME IInv, NEW k \in calls, NEW at,
         calls' = (calls \ {k}) \cup {[k EXCEPT !.at = at]},
         UNCHANGED <<agent, agentJob, jobConnector, normState, runStatus>>,
         \/ UNCHANGED jobStatus
         \/ k.op = "fail" /\ jobStatus' = [jobStatus EXCEPT ![k.job] = "FAILED"]
  PROVE  AgentInv'
<1> USE DEF IInv, PipelineInv
<1> DEFINE m == [k EXCEPT !.at = at]
<1>1. m.conn = k.conn /\ m.job = k.job /\ m.op = k.op /\ k.job \in Jobs
  BY CallHasJob DEF Call
<1>2. \A l \in calls' : (l \in calls /\ l # k) \/ l = m
  OBVIOUS
<1>3. \A j \in Jobs : jobStatus'[j] = jobStatus[j]
                        \/ (j = k.job /\ jobStatus'[j] = "FAILED")
  BY <1>1 DEF TypeOK, RowsTypeOK
<1>4. jobStatus[k.job] \in Reported
  BY DEF CallsKnowTheirJob
<1>5. StateFollowsCollection'
  BY <1>1, <1>3, <1>4 DEF StateFollowsCollection, Collecting, Reported
<1>6. AgentKnowsItsJob'
  <2>1. \A l \in calls' : \E i \in calls : i.job = l.job
    BY <1>1, <1>2
  <2> HIDE DEF m
  <2>2. \A c \in Connectors :
          agent[c] = "collecting" => /\ \A l \in calls' : l.job # agentJob[c]
                                     /\ jobStatus'[agentJob[c]] = "RUNNING"
    BY <1>3, <2>1 DEF AgentKnowsItsJob
  <2>3. \A j \in Jobs : jobStatus[j] \in Reported => jobStatus'[j] \in Reported
    BY <1>3 DEF Reported
  <2>4. QED
    BY <2>2, <2>3 DEF AgentKnowsItsJob
<1>7. CallsKnowTheirJob'
  <2>1. \A l \in calls : jobStatus'[l.job] \in Reported
    BY <1>3, CallHasJob DEF CallsKnowTheirJob, Reported
  <2> HIDE DEF m
  <2>2. QED
    BY <1>1, <1>2, <2>1 DEF CallsKnowTheirJob
<1>8. QED
  BY <1>5, <1>6, <1>7 DEF AgentInv

\* The UPDATE of complete meets a job whose normalization has not begun.
LEMMA CompleteUpdateStep ==
  ASSUME IInv, NEW k \in calls, CompleteUpdate(k) PROVE AgentInv'
<1> USE DEF IInv, PipelineInv
<1>1. k.job \in Jobs /\ k.op = "complete" /\ normState[k.job] = "null"
  BY CallHasJob DEF CallsKnowTheirJob, CompleteUpdate
<1>2. /\ jobStatus' = [jobStatus EXCEPT ![k.job] = "COMPLETED"]
      /\ normState' = [normState EXCEPT ![k.job] = Collected(k.job)]
      /\ calls' = calls \ {k}
      /\ UNCHANGED <<jobConnector, runStatus>>
  BY DEF CompleteUpdate, LeaveClaim, Answer
<1>3. \A c \in Connectors :
        \/ agent'[c] = "idle"
        \/ agent'[c] = agent[c] /\ agentJob'[c] = agentJob[c]
  BY AnswerIsQuiet DEF CompleteUpdate
<1>4. jobStatus[k.job] \in Reported
  BY DEF CallsKnowTheirJob
<1>5. \A j \in Jobs :
        IF j = k.job THEN jobStatus'[j] = "COMPLETED"
                     ELSE jobStatus'[j] = jobStatus[j] /\ normState'[j] = normState[j]
  BY <1>2 DEF TypeOK, RowsTypeOK
<1>6. k.job \in PayrollJobs => normState'[k.job] # "null"
  BY <1>1, <1>2 DEF Collected, TypeOK, RowsTypeOK
<1>7. StateFollowsCollection'
  BY <1>1, <1>2, <1>4, <1>5, <1>6
     DEF StateFollowsCollection, Collecting, Reported
<1>8. AgentKnowsItsJob'
  BY <1>1, <1>2, <1>3, <1>5 DEF AgentKnowsItsJob, Reported
<1>9. CallsKnowTheirJob'
  <2>1. \A l \in calls' : l \in calls /\ l # k /\ l.job \in Jobs
    BY <1>2, CallHasJob
  <2>2. \A l \in calls' : l.op = "complete" => l.job # k.job
    BY <1>1, <2>1 DEF CallsKnowTheirJob
  <2>3. QED
    BY <1>2, <1>5, <2>1, <2>2 DEF CallsKnowTheirJob, Reported
<1>10. QED
  BY <1>7, <1>8, <1>9 DEF AgentInv

\* AgentInv through every step of the connector and of the agent API.
LEMMA AgentNextKeepsAgentInv ==
  ASSUME IInv, AgentNext PROVE AgentInv'
<1>1. ASSUME NEW c \in Connectors, AgentClaims(c) PROVE AgentInv'
  BY <1>1, AgentClaimsStep
<1>2. ASSUME NEW c \in Connectors, AgentCollects(c) PROVE AgentInv'
  BY <1>2, AgentCollectsStep
<1>3. ASSUME NEW c \in Connectors, Leave(c), UNCHANGED <<rowVars, calls>>
      PROVE  AgentInv'
  BY <1>3, LeaveIsQuiet, QuietStep DEF IInv, rowVars, normVars
<1>4. ASSUME NEW c \in Connectors,
             AgentCollectFails(c) \/ AgentGivesUp(c) \/ AgentRestarts(c)
      PROVE  AgentInv'
  <2>1. CASE Leave(c) /\ UNCHANGED <<rowVars, calls>>
    BY <2>1, <1>3
  <2>2. CASE agent[c] # "idle" /\ Send(c, "log", calls) /\ UNCHANGED rowVars
    BY <2>2, SendStep
  <2>3. QED
    BY <1>4, <2>1, <2>2 DEF AgentCollectFails, AgentGivesUp, AgentRestarts
<1>5. ASSUME NEW k \in calls, CallLost(k) PROVE AgentInv'
  BY <1>5, QuietStep DEF CallLost, rowVars, normVars
<1>6. ASSUME NEW k \in calls, CompleteCheck(k) PROVE AgentInv'
  <2>1. CASE OwnedJob(k.conn, k.job)
    BY <1>6, <2>1, AdvanceStep DEF CompleteCheck, rowVars, normVars
  <2>2. CASE ~OwnedJob(k.conn, k.job)
    BY <1>6, <2>2, RefuseStep DEF CompleteCheck
  <2>3. QED
    BY <2>1, <2>2
<1>7. ASSUME NEW k \in calls, CompleteUpdate(k) PROVE AgentInv'
  BY <1>7, CompleteUpdateStep
<1>8. ASSUME NEW k \in calls, LogServed(k) PROVE AgentInv'
  <2>1. CASE Refuse(k)
    BY <1>8, <2>1, RefuseStep DEF LogServed
  <2>2. CASE Awaited(k) /\ Send(k.conn, "fail", calls \ {k})
    <3>1. k.conn \in Connectors /\ agent[k.conn] # "idle"
      BY <1>8, <2>2, CallHasJob DEF IInv, Awaited, LogServed
    <3>2. QED
      BY <1>8, <2>2, <3>1, SendStep DEF LogServed
  <2>3. CASE calls' = calls \ {k} /\ UNCHANGED <<agent, agentJob>>
    BY <1>8, <2>3, QuietStep DEF LogServed, rowVars, normVars
  <2>4. QED
    BY <1>8, <2>1, <2>2, <2>3 DEF LogServed
<1>9. ASSUME NEW k \in calls, FailJob(k) PROVE AgentInv'
  <2>1. CASE RunOf[k.job] # NoRun
    BY <1>9, <2>1, AdvanceStep DEF FailJob, normVars
  <2>2. CASE RunOf[k.job] = NoRun
    <3> USE DEF IInv, PipelineInv
    <3>1. /\ Answer(k) /\ k.job \in Jobs
          /\ jobStatus' = [jobStatus EXCEPT ![k.job] = "FAILED"]
          /\ UNCHANGED <<jobConnector, normState, runStatus>>
      BY <1>9, <2>2, CallHasJob DEF FailJob, normVars
    <3>2. \A j \in Jobs : jobStatus'[j] = jobStatus[j]
                            \/ (j = k.job /\ jobStatus'[j] = "FAILED")
      BY <3>1 DEF TypeOK, RowsTypeOK
    <3>3. jobStatus[k.job] \in Reported
      BY DEF CallsKnowTheirJob
    <3>4. /\ calls' = calls \ {k}
          /\ \A c \in Connectors :
               \/ agent'[c] = "idle"
               \/ agent'[c] = agent[c] /\ agentJob'[c] = agentJob[c]
      BY <3>1, AnswerIsQuiet
    <3>5. StateFollowsCollection'
      BY <3>1, <3>2, <3>3 DEF StateFollowsCollection, Collecting, Reported
    <3>6. AgentKnowsItsJob'
      BY <3>1, <3>2, <3>4 DEF AgentKnowsItsJob, Reported
    <3>7. CallsKnowTheirJob'
      BY <3>1, <3>2, <3>4, CallHasJob DEF CallsKnowTheirJob, Reported
    <3>8. QED
      BY <3>5, <3>6, <3>7 DEF AgentInv
  <2>3. QED
    BY <2>1, <2>2
<1>10. ASSUME NEW k \in calls, FailRun(k) PROVE AgentInv'
  <2>1. Answer(k) /\ UNCHANGED <<jobStatus, jobConnector, normState>>
    BY <1>10 DEF FailRun, normVars
  <2>2. \A r \in Runs : runStatus'[r] = "absent" => runStatus[r] = "absent"
    BY <1>10 DEF FailRun, SetRun
  <2>3. QED
    BY <2>1, <2>2, AnswerIsQuiet, QuietStep
<1>11. QED
  BY <1>1, <1>2, <1>4, <1>5, <1>6, <1>7, <1>8, <1>9, <1>10
     DEF AgentNext, Serve

\* AgentInv through the creation of runs and jobs.
LEMMA RowsNextKeepsAgentInv ==
  ASSUME IInv, RowsNext, UNCHANGED agentVars PROVE AgentInv'
<1> USE DEF IInv, PipelineInv, agentVars
<1>1. ASSUME NEW r \in Runs, StartRun(r) PROVE AgentInv'
  <2>1. \A q \in Runs : runStatus'[q] = "absent" => runStatus[q] = "absent"
    BY <1>1 DEF StartRun, TypeOK, RowsTypeOK
  <2>2. QED
    BY <1>1, <2>1, QuietStep DEF StartRun, normVars
<1>2. ASSUME NEW j \in Jobs, CreateJob(j) PROVE AgentInv'
  <2>1. /\ jobStatus[j] = "absent"
        /\ jobStatus' = [jobStatus EXCEPT ![j] = "QUEUED"]
        /\ RunOf[j] # NoRun => runStatus[RunOf[j]] # "absent"
        /\ UNCHANGED <<jobConnector, normState, runStatus>>
    BY <1>2 DEF CreateJob, normVars
  <2>2. \A i \in Jobs : i # j => jobStatus'[i] = jobStatus[i]
    BY <2>1 DEF TypeOK, RowsTypeOK
  <2>3. jobStatus'[j] = "QUEUED"
    BY <2>1 DEF TypeOK, RowsTypeOK
  <2>4. StateFollowsCollection'
    BY <2>1, <2>2, <2>3 DEF StateFollowsCollection, Collecting
  <2>5. AgentKnowsItsJob'
    BY <2>1, <2>2 DEF AgentKnowsItsJob, Reported
  <2>6. CallsKnowTheirJob'
    BY <2>1, <2>2, CallHasJob DEF CallsKnowTheirJob, Reported
  <2>7. QED
    BY <2>4, <2>5, <2>6 DEF AgentInv
<1>3. QED
  BY <1>1, <1>2 DEF RowsNext

\* AgentInv through every step of the workers and of the clock.
LEMMA WorkerNextKeepsAgentInv ==
  ASSUME IInv, WorkerNext, UNCHANGED agentVars PROVE AgentInv'
<1> USE DEF IInv, PipelineInv, agentVars
<1>1. /\ UNCHANGED <<jobStatus, jobConnector>>
      /\ \A j \in Jobs :
           \/ normState'[j] = normState[j]
           \/ /\ normState[j] \in {"PENDING", "CLAIMED"}
              /\ normState'[j] = "CLAIMED"
           \/ /\ normState[j] = "CLAIMED"
              /\ normState'[j] \in {"PENDING", "COMPLETED", "FAILED"}
      /\ \A r \in Runs :
           \/ runStatus'[r] = runStatus[r]
           \/ runStatus[r] \in OpenRun /\ runStatus'[r] \in ClosedRun
  BY WorkerMovesRows
<1>2. \A j \in Jobs : normState'[j] = "null" <=> normState[j] = "null"
  BY <1>1
<1>3. \A r \in Runs : runStatus'[r] = "absent" => runStatus[r] = "absent"
  BY <1>1 DEF ClosedRun
<1>4. StateFollowsCollection'
  BY <1>1, <1>2, <1>3, RowsAssumption DEF StateFollowsCollection
<1>5. AgentKnowsItsJob'
  BY <1>1 DEF AgentKnowsItsJob
<1>6. CallsKnowTheirJob'
  BY <1>1, <1>2, CallHasJob DEF CallsKnowTheirJob
<1>7. QED
  BY <1>4, <1>5, <1>6 DEF AgentInv

\* AgentInv through any step.
LEMMA AgentInvStep ==
  ASSUME IInv, [Next]_vars PROVE AgentInv'
<1>1. CASE UNCHANGED vars
  BY <1>1, QuietStep DEF vars, rowVars, normVars, agentVars
<1>2. QED
  BY <1>1, AgentNextKeepsAgentInv, RowsNextKeepsAgentInv,
     WorkerNextKeepsAgentInv DEF Next

-----------------------------------------------------------------------------
(***************************************************************************)
(* The workers' claims and the number of attempts.                         *)
(***************************************************************************)

\* A worker's place, and what it remembers of its job.
Unmoved(w) == /\ worker'[w] = worker[w]
              /\ workJob'[w] = workJob[w]
              /\ seen'[w] = seen[w]

Busy == {"claimed", "persisting", "renewing", "failing"}

\* How a step may move a worker, and what it does to the attempts.
LEMMA WorkerMoves ==
  ASSUME IInv, WorkerNext, NEW v \in Workers
  PROVE  \/ Unmoved(v) /\ attempts' = attempts
         \/ Unmoved(v) /\ \A j \in Jobs : attempts'[j] >= attempts[j]
         \/ worker'[v] \in {"idle", "down"} /\ attempts' = attempts
         \/ /\ worker[v] \in Busy /\ worker'[v] \in Busy
            /\ workJob'[v] = workJob[v] /\ seen'[v] = seen[v]
            /\ attempts' = attempts
         \/ /\ worker'[v] = "selected" /\ workJob'[v] \in Jobs
            /\ seen'[v] = attempts[workJob'[v]]
            /\ attempts' = attempts
         \/ /\ worker[v] = "selected" /\ worker'[v] = "claimed"
            /\ workJob'[v] = workJob[v] /\ seen'[v] = seen[v]
            /\ attempts' = [attempts EXCEPT ![workJob[v]] = @ + 1]
<1> USE DEF IInv, TypeOK, RowsTypeOK, WorkerTypeOK
<1>1. CASE UNCHANGED <<worker, workJob, seen, attempts>>
  BY <1>1 DEF Unmoved
<1>2. ASSUME NEW w \in Workers, NEW where \in {"idle", "down"},
             Release(w, where), attempts' = attempts
      PROVE  Unmoved(v) \/ worker'[v] \in {"idle", "down"}
  BY <1>2 DEF Release, Unmoved
<1>3. ASSUME NEW w \in Workers, NEW where \in Busy, worker[w] \in Busy,
             Goto(w, where), attempts' = attempts
      PROVE  \/ Unmoved(v)
             \/ /\ worker[v] \in Busy /\ worker'[v] \in Busy
                /\ workJob'[v] = workJob[v] /\ seen'[v] = seen[v]
  BY <1>3 DEF Goto, Unmoved
<1>4. ASSUME NEW w \in Workers, WorkerStarts(w)
      PROVE  attempts' = attempts
             /\ (Unmoved(v) \/ worker'[v] \in {"idle", "down"})
  BY <1>4 DEF WorkerStarts, Unmoved, rowVars, normVars
<1>5. ASSUME NEW w \in Workers, SelectCandidate(w)
      PROVE  /\ attempts' = attempts
             /\ \/ Unmoved(v)
                \/ /\ worker'[v] = "selected" /\ workJob'[v] \in Jobs
                   /\ seen'[v] = attempts[workJob'[v]]
  <2>1. PICK j \in Jobs : /\ workJob' = [workJob EXCEPT ![w] = j]
                          /\ seen' = [seen EXCEPT ![w] = attempts[j]]
    BY <1>5 DEF SelectCandidate
  <2>2. QED
    BY <1>5, <2>1 DEF SelectCandidate, Unmoved, rowVars, normVars
<1>6. ASSUME NEW w \in Workers, ClaimCandidate(w)
      PROVE  \/ Unmoved(v) /\ attempts' = attempts
             \/ Unmoved(v) /\ \A j \in Jobs : attempts'[j] >= attempts[j]
             \/ worker'[v] \in {"idle", "down"} /\ attempts' = attempts
             \/ /\ worker[v] = "selected" /\ worker'[v] = "claimed"
                /\ workJob'[v] = workJob[v] /\ seen'[v] = seen[v]
                /\ attempts' = [attempts EXCEPT ![workJob[v]] = @ + 1]
  <2>1. workJob[w] \in Jobs
    BY <1>6, WorkerHasJob DEF ClaimCandidate
  <2>2. CASE Claimable(workJob[w])
    <3>1. /\ worker' = [worker EXCEPT ![w] = "claimed"]
          /\ UNCHANGED <<workJob, seen>>
          /\ attempts' = [attempts EXCEPT ![workJob[w]] = @ + 1]
      BY <1>6, <2>2 DEF ClaimCandidate, Goto
    <3>2. \A j \in Jobs : attempts'[j] >= attempts[j]
      BY <2>1, <3>1
    <3>3. CASE v = w
      BY <1>6, <3>1, <3>3 DEF ClaimCandidate
    <3>4. CASE v # w
      BY <3>1, <3>2, <3>4 DEF Unmoved
    <3>5. QED
      BY <3>3, <3>4
  <2>3. CASE ~Claimable(workJob[w])
    <3>1. Release(w, "idle") /\ attempts' = attempts
      BY <1>6, <2>3 DEF ClaimCandidate, normVars
    <3>2. QED
      BY <3>1, <1>2
  <2>4. QED
    BY <2>2, <2>3
<1>7. ASSUME NEW w \in Workers,
             CheckClaim(w) \/ PersistSlip(w) \/ NormalizationThrows(w)
               \/ PersistBlocked(w) \/ RenewLease(w)
      PROVE  /\ attempts' = attempts
             /\ \/ Unmoved(v)
                \/ /\ worker[v] \in Busy /\ worker'[v] \in Busy
                   /\ workJob'[v] = workJob[v] /\ seen'[v] = seen[v]
  <2>1. PICK where \in Busy : Goto(w, where)
    BY <1>7 DEF CheckClaim, PersistSlip, NormalizationThrows, PersistBlocked,
       RenewLease, Busy
  <2>2. worker[w] \in Busy /\ attempts' = attempts
    BY <1>7 DEF CheckClaim, PersistSlip, NormalizationThrows, PersistBlocked,
       RenewLease, Busy, rowVars, normVars
  <2>3. QED
    BY <2>1, <2>2, <1>3
<1>8. ASSUME NEW w \in Workers, CompleteClaim(w) \/ FailClaim(w)
      PROVE  /\ attempts' = attempts
             /\ \/ Unmoved(v)
                \/ worker'[v] \in {"idle", "down"}
                \/ /\ worker[v] \in Busy /\ worker'[v] \in Busy
                   /\ workJob'[v] = workJob[v] /\ seen'[v] = seen[v]
  <2>1. /\ worker[w] \in Busy /\ attempts' = attempts
        /\ Release(w, "idle") \/ Goto(w, "failing")
    BY <1>8 DEF CompleteClaim, FailClaim, Busy
  <2>2. "failing" \in Busy
    BY DEF Busy
  <2>3. QED
    BY <2>1, <2>2, <1>2, <1>3
<1>9. ASSUME NEW w \in Workers,
             AbandonClaim(w) \/ FailClaimLost(w) \/ WorkerCrashes(w)
      PROVE  attempts' = attempts
             /\ (Unmoved(v) \/ worker'[v] \in {"idle", "down"})
  <2>1. PICK where \in {"idle", "down"} : Release(w, where)
    BY <1>9 DEF AbandonClaim, FailClaimLost, WorkerCrashes
  <2>2. attempts' = attempts
    BY <1>9 DEF AbandonClaim, FailClaimLost, WorkerCrashes, rowVars, normVars
  <2>3. QED
    BY <2>1, <2>2, <1>2
<1>10. ASSUME NEW j \in Jobs, OrphanLapses(j) \/ LapsesUnderWorker(j)
       PROVE  Unmoved(v) /\ attempts' = attempts
  BY <1>10 DEF OrphanLapses, LapsesUnderWorker, LeaseLapses, workerVars, Unmoved
<1> HIDE DEF IInv, TypeOK, RowsTypeOK, WorkerTypeOK
<1>11. QED
  BY <1>4, <1>5, <1>6, <1>7, <1>8, <1>9, <1>10
     DEF WorkerNext, WorkerStep, WorkerFault

\* The count a worker read stays within the row's count.
LEMMA ClaimIsCountedStep ==
  ASSUME IInv, [Next]_vars PROVE ClaimIsCounted'
<1> USE DEF IInv, PipelineInv
<1>1. CASE UNCHANGED <<worker, workJob, seen, attempts>>
  BY <1>1 DEF ClaimIsCounted
<1>2. CASE WorkerNext
  <2> SUFFICES ASSUME NEW v \in Workers
               PROVE  /\ worker'[v] \notin {"down", "idle"}
                           => /\ workJob'[v] \in Jobs
                              /\ seen'[v] <= attempts'[workJob'[v]]
                      /\ worker'[v] \notin {"down", "idle", "selected"}
                           => seen'[v] + 1 <= attempts'[workJob'[v]]
    BY DEF ClaimIsCounted
  <2> USE DEF TypeOK, RowsTypeOK, WorkerTypeOK, ClaimIsCounted, Unmoved, Busy
  <2>1. CASE Unmoved(v) /\ attempts' = attempts
    BY <2>1
  <2>2. CASE Unmoved(v) /\ \A j \in Jobs : attempts'[j] >= attempts[j]
    <3>1. attempts' \in [Jobs -> Nat] /\ seen' \in [Workers -> Nat]
      BY NextKeepsTypes
    <3>2. QED
      BY <2>2, <3>1
  <2>3. CASE worker'[v] \in {"idle", "down"}
    BY <2>3
  <2>4. CASE /\ worker[v] \in Busy /\ worker'[v] \in Busy
             /\ workJob'[v] = workJob[v] /\ seen'[v] = seen[v]
             /\ attempts' = attempts
    BY <2>4
  <2>5. CASE /\ worker'[v] = "selected" /\ workJob'[v] \in Jobs
             /\ seen'[v] = attempts[workJob'[v]] /\ attempts' = attempts
    BY <2>5
  <2>6. CASE /\ worker[v] = "selected" /\ worker'[v] = "claimed"
             /\ workJob'[v] = workJob[v] /\ seen'[v] = seen[v]
             /\ attempts' = [attempts EXCEPT ![workJob[v]] = @ + 1]
    BY <2>6
  <2> HIDE DEF TypeOK, RowsTypeOK, WorkerTypeOK, ClaimIsCounted, Unmoved, Busy
  <2>7. QED
    BY <1>2, <2>1, <2>2, <2>3, <2>4, <2>5, <2>6, WorkerMoves
<1>3. attempts' = attempts \/ WorkerNext
  BY DEF Next, RowsNext, StartRun, CreateJob, AgentNext, AgentClaims,
     AgentCollects, AgentCollectFails, AgentGivesUp, AgentRestarts, CallLost,
     Serve, CompleteCheck, CompleteUpdate, LogServed, FailJob, FailRun,
     vars, rowVars, normVars
<1>4. QED
  BY <1>1, <1>2, <1>3 DEF Next, workerVars, vars

-----------------------------------------------------------------------------
(***************************************************************************)
(* The normalization columns: what any step may do to a job.               *)
(***************************************************************************)

QueueCols == <<normState, normOwner, leaseLapsed, normalized>>

Offered(j) ==
  normState[j] = "null" /\ LeaveClaim(j, "PENDING") /\ UNCHANGED normalized

Taken(j, w) ==
  /\ normState[j] = "PENDING" \/ (normState[j] = "CLAIMED" /\ leaseLapsed[j])
  /\ normState' = [normState EXCEPT ![j] = "CLAIMED"]
  /\ normOwner' = [normOwner EXCEPT ![j] = w]
  /\ leaseLapsed' = [leaseLapsed EXCEPT ![j] = FALSE]
  /\ UNCHANGED normalized

LeaseSet(j, b) ==
  /\ normState[j] = "CLAIMED"
  /\ leaseLapsed' = [leaseLapsed EXCEPT ![j] = b]
  /\ UNCHANGED <<normState, normOwner, normalized>>

GivenBack(j, s) ==
  /\ normState[j] = "CLAIMED"
  /\ LeaveClaim(j, s)
  /\ IF s = "COMPLETED" THEN normalized' = [normalized EXCEPT ![j] = TRUE]
                        ELSE UNCHANGED normalized
  /\ s = "FAILED" => attempts[j] >= MaxAttempts

QueueMove(j) ==
  \/ Offered(j)
  \/ \E w \in Workers : Taken(j, w)
  \/ \E b \in BOOLEAN : LeaseSet(j, b)
  \/ \E s \in {"PENDING", "COMPLETED", "FAILED"} : GivenBack(j, s)

\* Whatever happens, at most one job makes a move of the queue.
LEMMA QueueStep ==
  ASSUME IInv, [Next]_vars
  PROVE  UNCHANGED QueueCols \/ \E j \in Jobs : QueueMove(j)
<1> USE DEF IInv, PipelineInv, QueueCols
<1> DEFINE Move == UNCHANGED QueueCols \/ \E j \in Jobs : QueueMove(j)
<1>1. ASSUME NEW k \in calls, CompleteUpdate(k) PROVE Move
  <2>1. /\ k.job \in Jobs /\ normState[k.job] = "null"
        /\ LeaveClaim(k.job, Collected(k.job)) /\ UNCHANGED normalized
    BY <1>1, CallHasJob DEF CompleteUpdate, CallsKnowTheirJob
  <2>2. CASE k.job \in PayrollJobs
    BY <2>1, <2>2 DEF Collected, QueueMove, Offered
  <2>3. CASE k.job \notin PayrollJobs
    <3>1. normOwner[k.job] = None /\ ~leaseLapsed[k.job]
      BY <2>1 DEF ClaimColumnsAgree
    <3>2. UNCHANGED QueueCols
      BY <2>1, <2>3, <3>1 DEF Collected, LeaveClaim, TypeOK, RowsTypeOK
    <3>3. QED
      BY <3>2
  <2>4. QED
    BY <2>2, <2>3
<1>2. ASSUME NEW w \in Workers, ClaimCandidate(w) PROVE Move
  <2>1. workJob[w] \in Jobs
    BY <1>2, WorkerHasJob DEF ClaimCandidate
  <2>2. CASE Claimable(workJob[w])
    <3>1. \/ normState[workJob[w]] = "PENDING"
          \/ normState[workJob[w]] = "CLAIMED" /\ leaseLapsed[workJob[w]]
      BY <2>1, <2>2 DEF Claimable, StateFollowsCollection
    <3>2. Taken(workJob[w], w)
      BY <1>2, <2>2, <3>1 DEF ClaimCandidate, Taken
    <3>3. QED
      BY <2>1, <3>2 DEF QueueMove
  <2>3. CASE ~Claimable(workJob[w])
    BY <1>2, <2>3 DEF ClaimCandidate, normVars
  <2>4. QED
    BY <2>2, <2>3
<1>3. ASSUME NEW w \in Workers, RenewLease(w) PROVE Move
  <2>1. workJob[w] \in Jobs
    BY <1>3, WorkerHasJob DEF RenewLease
  <2>2. CASE Owns(w, workJob[w]) /\ ~normalized[workJob[w]]
    <3>1. LeaseSet(workJob[w], FALSE)
      BY <1>3, <2>2 DEF RenewLease, LeaseSet, Owns
    <3>2. QED
      BY <2>1, <3>1 DEF QueueMove
  <2>3. CASE ~(Owns(w, workJob[w]) /\ ~normalized[workJob[w]])
    BY <1>3, <2>3 DEF RenewLease
  <2>4. QED
    BY <2>2, <2>3
<1>4. ASSUME NEW w \in Workers, CompleteClaim(w) PROVE Move
  <2>1. workJob[w] \in Jobs
    BY <1>4, WorkerHasJob DEF CompleteClaim
  <2>2. CASE Owns(w, workJob[w]) /\ ~normalized[workJob[w]]
    <3>1. GivenBack(workJob[w], "COMPLETED")
      BY <1>4, <2>2 DEF CompleteClaim, GivenBack, Owns
    <3>2. QED
      BY <2>1, <3>1 DEF QueueMove
  <2>3. CASE ~(Owns(w, workJob[w]) /\ ~normalized[workJob[w]])
    BY <1>4, <2>3 DEF CompleteClaim
  <2>4. QED
    BY <2>2, <2>3
<1>5. ASSUME NEW w \in Workers, FailClaim(w) PROVE Move
  <2>1. workJob[w] \in Jobs /\ worker[w] = "failing"
    BY <1>5, WorkerHasJob DEF FailClaim
  <2>2. Terminal(w) => attempts[workJob[w]] >= MaxAttempts
    BY <2>1, WorkerAssumption
       DEF Terminal, ClaimIsCounted, TypeOK, RowsTypeOK, WorkerTypeOK
  <2>3. \/ GivenBack(workJob[w], "FAILED")
        \/ GivenBack(workJob[w], "PENDING")
        \/ UNCHANGED QueueCols
    BY <1>5, <2>2 DEF FailClaim, GivenBack, Owns
  <2>4. QED
    BY <2>1, <2>3 DEF QueueMove
<1>6. ASSUME NEW j \in Jobs, LeaseLapses(j) PROVE Move
  <2>1. LeaseSet(j, TRUE)
    BY <1>6 DEF LeaseLapses, LeaseSet
  <2>2. QED
    BY <2>1 DEF QueueMove
<1>7. CASE WorkerNext
  <2>1. CASE UNCHANGED rowVars
    BY <2>1 DEF rowVars, normVars
  <2>2. QED
    BY <1>7, <2>1, <1>2, <1>3, <1>4, <1>5, <1>6
       DEF WorkerNext, WorkerStep, WorkerFault, WorkerStarts, SelectCandidate,
           CheckClaim, PersistSlip, NormalizationThrows, AbandonClaim,
           PersistBlocked, FailClaimLost, WorkerCrashes, OrphanLapses,
           LapsesUnderWorker
<1>8. CASE AgentNext
  <2>1. CASE \E k \in calls : CompleteUpdate(k)
    BY <2>1, <1>1
  <2>2. CASE ~\E k \in calls : CompleteUpdate(k)
    BY <1>8, <2>2 DEF AgentNext, AgentClaims, AgentCollects,
       AgentCollectFails, AgentGivesUp, AgentRestarts, CallLost, Serve,
       CompleteCheck, LogServed, FailJob, FailRun, rowVars, normVars
  <2>3. QED
    BY <2>1, <2>2
<1>9. CASE RowsNext \/ UNCHANGED vars
  BY <1>9 DEF RowsNext, StartRun, CreateJob, vars, rowVars, normVars
<1>10. QED
  BY <1>7, <1>8, <1>9 DEF Next

\* The moves of the queue keep its columns in agreement.
LEMMA ClaimColumnsAgreeStep ==
  ASSUME IInv, [Next]_vars PROVE ClaimColumnsAgree'
<1> USE DEF IInv, PipelineInv, TypeOK, RowsTypeOK
<1>1. CASE UNCHANGED QueueCols
  BY <1>1 DEF QueueCols, ClaimColumnsAgree
<1>2. ASSUME NEW j \in Jobs, QueueMove(j) PROVE ClaimColumnsAgree'
  <2> USE <1>2 DEF ClaimColumnsAgree
  <2>1. CASE Offered(j)
    BY <2>1 DEF Offered, LeaveClaim
  <2>2. ASSUME NEW w \in Workers, Taken(j, w) PROVE ClaimColumnsAgree'
    BY <2>2, RowsAssumption DEF Taken
  <2>3. ASSUME NEW b \in BOOLEAN, LeaseSet(j, b) PROVE ClaimColumnsAgree'
    BY <2>3 DEF LeaseSet
  <2>4. ASSUME NEW s \in {"PENDING", "COMPLETED", "FAILED"}, GivenBack(j, s)
        PROVE  ClaimColumnsAgree'
    BY <2>4 DEF GivenBack, LeaveClaim
  <2>5. QED
    BY <2>1, <2>2, <2>3, <2>4 DEF QueueMove
<1>3. QED
  BY <1>1, <1>2, QueueStep

\* No step lowers a count of attempts.
LEMMA AttemptsGrow ==
  ASSUME IInv, [Next]_vars, NEW j \in Jobs PROVE attempts'[j] >= attempts[j]
<1> USE DEF IInv, TypeOK, RowsTypeOK
<1>1. CASE attempts' = attempts
  BY <1>1
<1>2. ASSUME NEW w \in Workers, ClaimCandidate(w)
      PROVE  attempts'[j] >= attempts[j]
  <2>1. workJob[w] \in Jobs
    BY <1>2, WorkerHasJob DEF ClaimCandidate
  <2>2. \/ attempts' = attempts
        \/ attempts' = [attempts EXCEPT ![workJob[w]] = @ + 1]
    BY <1>2 DEF ClaimCandidate, normVars
  <2>3. QED
    BY <2>1, <2>2
<1> HIDE DEF IInv, TypeOK, RowsTypeOK
<1>3. attempts' = attempts \/ WorkerNext
  BY DEF Next, RowsNext, StartRun, CreateJob, AgentNext, AgentClaims,
     AgentCollects, AgentCollectFails, AgentGivesUp, AgentRestarts, CallLost,
     Serve, CompleteCheck, CompleteUpdate, LogServed, FailJob, FailRun,
     vars, rowVars, normVars
<1>4. WorkerNext => \/ attempts' = attempts
                    \/ \E w \in Workers : ClaimCandidate(w)
  BY DEF WorkerNext, WorkerStep, WorkerFault, WorkerStarts, SelectCandidate,
     CheckClaim, PersistSlip, NormalizationThrows, RenewLease, CompleteClaim,
     FailClaim, AbandonClaim, PersistBlocked, FailClaimLost, WorkerCrashes,
     OrphanLapses, LapsesUnderWorker, LeaseLapses, rowVars, normVars
<1>5. QED
  BY <1>1, <1>2, <1>3, <1>4

\* The move to FAILED needs the attempts, and attempts do not shrink.
LEMMA GivenUpStep ==
  ASSUME IInv, [Next]_vars PROVE GivenUpAfterMaxAttempts'
<1> SUFFICES ASSUME NEW i \in Jobs, normState'[i] = "FAILED"
             PROVE  attempts'[i] >= MaxAttempts
  BY DEF GivenUpAfterMaxAttempts
<1>1. /\ attempts[i] \in Nat /\ attempts'[i] \in Nat /\ MaxAttempts \in Nat
      /\ attempts'[i] >= attempts[i]
  BY AttemptsGrow, NextKeepsTypes, WorkerAssumption DEF IInv, TypeOK, RowsTypeOK
<1>2. attempts[i] >= MaxAttempts
  <2> USE DEF IInv, PipelineInv, GivenUpAfterMaxAttempts, TypeOK, RowsTypeOK
  <2>1. CASE UNCHANGED QueueCols
    BY <2>1 DEF QueueCols
  <2>2. ASSUME NEW j \in Jobs, QueueMove(j) PROVE attempts[i] >= MaxAttempts
    BY <2>2 DEF QueueMove, Offered, Taken, LeaseSet, GivenBack, LeaveClaim
  <2>3. QED
    BY <2>1, <2>2, QueueStep
<1>3. QED
  BY <1>1, <1>2

-----------------------------------------------------------------------------
(***************************************************************************)
(* Payslips and runs.                                                      *)
(***************************************************************************)

\* The one action that writes a payslip, for each worker.
LEMMA PersistSlipStores ==
  ASSUME IInv, NEW w \in Workers, PersistSlip(w)
  PROVE  \E s \in todo[w] :
           /\ s \in Slips
           /\ todo' = [todo EXCEPT ![w] = @ \ {s}]
           /\ \/ /\ skipped' = skipped /\ slipRun'[s] # Absent
                 /\ \A t \in Slips : t # s => slipRun'[t] = slipRun[t]
              \/ skipped' = [skipped EXCEPT ![w] = TRUE] /\ slipRun' = slipRun
<1> USE DEF IInv, TypeOK, WorkerTypeOK
<1>1. RunOf[workJob[w]] # Absent
  <2>1. workJob[w] \in Jobs
    BY WorkerHasJob DEF PersistSlip
  <2>2. QED
    BY <2>1, RowsAssumption, WorkerAssumption
<1>2. PICK s \in todo[w] :
        /\ todo' = [todo EXCEPT ![w] = @ \ {s}]
        /\ \/ /\ slipRun' = [slipRun EXCEPT ![s] = RunOf[workJob[w]]]
              /\ UNCHANGED skipped
           \/ /\ slipRun[s] # Absent
              /\ slipRun' = [slipRun EXCEPT
                   ![s] = IF @ = NoRun THEN RunOf[workJob[w]] ELSE @]
              /\ UNCHANGED skipped
           \/ slipRun[s] # Absent /\ UNCHANGED <<slipRun, skipped>>
           \/ /\ skipped' = [skipped EXCEPT ![w] = TRUE]
              /\ UNCHANGED slipRun
  BY DEF PersistSlip
<1>3. s \in Slips
  OBVIOUS
<1>4. CASE slipRun' = [slipRun EXCEPT ![s] = RunOf[workJob[w]]] /\ UNCHANGED skipped
  <2>1. slipRun'[s] # Absent /\ \A t \in Slips : t # s => slipRun'[t] = slipRun[t]
    BY <1>1, <1>3, <1>4
  <2>2. QED
    BY <1>2, <1>3, <1>4, <2>1
<1>5. CASE /\ slipRun[s] # Absent /\ UNCHANGED skipped
           /\ slipRun' = [slipRun EXCEPT
                ![s] = IF @ = NoRun THEN RunOf[workJob[w]] ELSE @]
  <2>1. slipRun'[s] # Absent /\ \A t \in Slips : t # s => slipRun'[t] = slipRun[t]
    BY <1>1, <1>3, <1>5
  <2>2. QED
    BY <1>2, <1>3, <1>5, <2>1
<1>6. CASE slipRun[s] # Absent /\ UNCHANGED <<slipRun, skipped>>
  BY <1>2, <1>3, <1>6
<1>7. CASE skipped' = [skipped EXCEPT ![w] = TRUE] /\ UNCHANGED slipRun
  <2> HIDE DEF IInv, TypeOK, WorkerTypeOK
  <2>1. QED
    BY <1>2, <1>3, <1>7
<1>8. QED
  BY <1>2, <1>4, <1>5, <1>6, <1>7

\* A stored payslip stays stored.
LEMMA SlipsStay ==
  ASSUME IInv, [Next]_vars, NEW s \in Slips, slipRun[s] # Absent
  PROVE  slipRun'[s] # Absent
<1>1. ASSUME NEW w \in Workers, PersistSlip(w) PROVE slipRun'[s] # Absent
  BY <1>1, PersistSlipStores
<1>2. slipRun' = slipRun \/ \E w \in Workers : PersistSlip(w)
  BY DEF Next, WorkerNext, WorkerStep, WorkerFault, WorkerStarts,
     SelectCandidate, ClaimCandidate, CheckClaim, NormalizationThrows,
     RenewLease, CompleteClaim, FailClaim, AbandonClaim, PersistBlocked,
     FailClaimLost, WorkerCrashes, OrphanLapses, LapsesUnderWorker, Release,
     vars, workerVars
<1>3. QED
  BY <1>1, <1>2

\* How a step may move a worker among its payslips.
LEMMA TodoMoves ==
  ASSUME IInv, WorkerNext, NEW v \in Workers,
         worker'[v] \in {"persisting", "renewing"}
  PROVE  \/ /\ worker[v] \in {"persisting", "renewing"}
            /\ todo'[v] = todo[v] /\ skipped'[v] = skipped[v]
         \/ todo'[v] = Slips
         \/ worker[v] = "persisting" /\ PersistSlip(v)
<1> USE DEF IInv, TypeOK, WorkerTypeOK
<1> DEFINE Moved ==
      \/ /\ worker[v] \in {"persisting", "renewing"}
         /\ todo'[v] = todo[v] /\ skipped'[v] = skipped[v]
      \/ todo'[v] = Slips
      \/ worker[v] = "persisting" /\ PersistSlip(v)
<1>1. CASE UNCHANGED <<worker, todo, skipped>>
  BY <1>1
<1>2. ASSUME NEW w \in Workers, NEW where \in {"idle", "down"},
             Release(w, where) PROVE Moved
  BY <1>2 DEF Release
<1>3. ASSUME NEW w \in Workers, NEW where \in Busy, Goto(w, where),
             worker[w] \in {"persisting", "renewing"} \/ where = "failing"
                \/ where = "claimed",
             UNCHANGED <<todo, skipped>>
      PROVE Moved
  BY <1>3 DEF Goto
<1>4. ASSUME NEW w \in Workers, WorkerStarts(w) \/ SelectCandidate(w) PROVE Moved
  BY <1>4 DEF WorkerStarts, SelectCandidate
<1>5. ASSUME NEW w \in Workers, ClaimCandidate(w) PROVE Moved
  BY <1>5, <1>2, <1>3 DEF ClaimCandidate, Busy
<1>6. ASSUME NEW w \in Workers, CheckClaim(w) PROVE Moved
  BY <1>6 DEF CheckClaim, Goto
<1>7. ASSUME NEW w \in Workers, PersistSlip(w) PROVE Moved
  <2>1. CASE v = w
    BY <1>7, <2>1 DEF PersistSlip
  <2>2. CASE v # w
    <3>1. \E s : todo' = [todo EXCEPT ![w] = @ \ {s}]
      BY <1>7 DEF PersistSlip
    <3>2. skipped' = skipped \/ skipped' = [skipped EXCEPT ![w] = TRUE]
      BY <1>7 DEF PersistSlip
    <3>3. worker' = [worker EXCEPT ![w] = "renewing"]
      BY <1>7 DEF PersistSlip, Goto
    <3>4. QED
      BY <2>2, <3>1, <3>2, <3>3
  <2>3. QED
    BY <2>1, <2>2
<1>8. ASSUME NEW w \in Workers,
             NormalizationThrows(w) \/ PersistBlocked(w) \/ RenewLease(w)
      PROVE  Moved
  <2>1. PICK where \in Busy :
          /\ Goto(w, where)
          /\ worker[w] \in {"persisting", "renewing"} \/ where = "failing"
    BY <1>8 DEF NormalizationThrows, PersistBlocked, RenewLease, Busy
  <2>2. UNCHANGED <<todo, skipped>>
    BY <1>8 DEF NormalizationThrows, PersistBlocked, RenewLease
  <2>3. QED
    BY <2>1, <2>2, <1>3
<1>9. ASSUME NEW w \in Workers, CompleteClaim(w) PROVE Moved
  BY <1>9, <1>2, <1>3 DEF CompleteClaim, Busy
<1>10. ASSUME NEW w \in Workers,
              FailClaim(w) \/ AbandonClaim(w) \/ FailClaimLost(w)
                \/ WorkerCrashes(w)
       PROVE  Moved
  <2>1. Release(w, "idle") \/ Release(w, "down")
    BY <1>10 DEF FailClaim, AbandonClaim, FailClaimLost, WorkerCrashes
  <2>2. QED
    BY <2>1, <1>2
<1>11. ASSUME NEW j \in Jobs, OrphanLapses(j) \/ LapsesUnderWorker(j) PROVE Moved
  BY <1>11 DEF OrphanLapses, LapsesUnderWorker, workerVars
<1> HIDE DEF IInv, TypeOK, WorkerTypeOK, Moved
<1>12. Moved
  BY <1>4, <1>5, <1>6, <1>7, <1>8, <1>9, <1>10, <1>11
     DEF WorkerNext, WorkerStep, WorkerFault
<1>13. QED
  BY <1>12 DEF Moved

\* What a worker has stored or skipped, through any step.
LEMMA StoredUnlessSkippedStep ==
  ASSUME IInv, [Next]_vars PROVE StoredUnlessSkipped'
<1> SUFFICES ASSUME NEW v \in Workers,
                    worker'[v] \in {"persisting", "renewing"}, ~skipped'[v],
                    NEW s \in Slips, s \notin todo'[v]
             PROVE  slipRun'[s] # Absent
  BY DEF StoredUnlessSkipped
<1> USE DEF IInv, PipelineInv
<1>1. ASSUME worker[v] \in {"persisting", "renewing"},
             todo'[v] = todo[v], skipped'[v] = skipped[v]
      PROVE  slipRun'[s] # Absent
  BY <1>1, SlipsStay DEF StoredUnlessSkipped
<1>2. ASSUME worker[v] = "persisting", PersistSlip(v)
      PROVE  slipRun'[s] # Absent
  <2>1. PICK t \in todo[v] :
          /\ t \in Slips
          /\ todo' = [todo EXCEPT ![v] = @ \ {t}]
          /\ \/ /\ skipped' = skipped /\ slipRun'[t] # Absent
                /\ \A u \in Slips : u # t => slipRun'[u] = slipRun[u]
             \/ skipped' = [skipped EXCEPT ![v] = TRUE] /\ slipRun' = slipRun
    BY <1>2, PersistSlipStores
  <2>2. todo'[v] = todo[v] \ {t} /\ ~skipped[v] /\ slipRun'[t] # Absent
    BY <2>1 DEF TypeOK, WorkerTypeOK
  <2>3. s = t \/ s \notin todo[v]
    BY <2>2
  <2>4. s \notin todo[v] => slipRun[s] # Absent
    BY <1>2, <2>2 DEF StoredUnlessSkipped
  <2>5. QED
    BY <2>2, <2>3, <2>4, SlipsStay
<1>3. CASE WorkerNext
  BY <1>1, <1>2, <1>3, TodoMoves
<1>4. CASE UNCHANGED <<worker, todo, skipped, slipRun>>
  BY <1>4, <1>1
<1>5. QED
  BY <1>3, <1>4 DEF Next, vars, workerVars

\* Only complete makes a run COMPLETED, and it knows of every payslip.
LEMMA CompletedRunIsWholeStep ==
  ASSUME IInv, [Next]_vars PROVE CompletedRunIsWhole'
<1> USE DEF IInv, PipelineInv
<1> SUFFICES ASSUME NEW r \in Runs, runStatus'[r] = "COMPLETED",
                    NEW s \in Slips
             PROVE  slipRun'[s] # Absent
  BY DEF CompletedRunIsWhole
<1>1. CASE runStatus[r] = "COMPLETED"
  BY <1>1, SlipsStay DEF CompletedRunIsWhole
<1>2. CASE runStatus[r] # "COMPLETED"
  <2>1. PICK w \in Workers : CompleteClaim(w)
    <3>1. \/ runStatus' = runStatus
          \/ \E q \in Runs : StartRun(q)
          \/ \E c \in Connectors : AgentClaims(c)
          \/ \E k \in calls : FailRun(k)
          \/ \E w \in Workers : CompleteClaim(w) \/ FailClaim(w)
      BY DEF Next, RowsNext, CreateJob, AgentNext, AgentCollects,
         AgentCollectFails, AgentGivesUp, AgentRestarts, CallLost, Serve,
         CompleteCheck, CompleteUpdate, LogServed, FailJob, WorkerNext,
         WorkerStep, WorkerFault, WorkerStarts, SelectCandidate,
         ClaimCandidate, CheckClaim, PersistSlip, NormalizationThrows,
         RenewLease, AbandonClaim, PersistBlocked, FailClaimLost,
         WorkerCrashes, OrphanLapses, LapsesUnderWorker, LeaseLapses,
         vars, rowVars, normVars
    <3>2. \A q \in Runs : ~StartRun(q)
      BY <1>2 DEF StartRun, TypeOK, RowsTypeOK
    <3>3. \A c \in Connectors : ~AgentClaims(c)
      BY <1>2 DEF AgentClaims, SetRun
    <3>4. \A k \in calls : ~FailRun(k)
      BY <1>2 DEF FailRun, SetRun
    <3>5. \A w \in Workers : ~FailClaim(w)
      BY <1>2 DEF FailClaim, SetRun, FailedOutcome
    <3>6. QED
      BY <1>2, <3>1, <3>2, <3>3, <3>4, <3>5
  <2>2. worker[w] = "persisting" /\ todo[w] = {} /\ ~skipped[w]
    BY <1>2, <2>1 DEF CompleteClaim, SetRun, Outcome
  <2>3. slipRun[s] # Absent
    BY <2>2 DEF StoredUnlessSkipped
  <2>4. QED
    BY <2>3, SlipsStay
<1>3. QED
  BY <1>1, <1>2

Unsettled(j) == normState[j] \notin {"COMPLETED", "FAILED"}

\* Why an open run may stay open, or become open, in a step.
LEMMA OpenRunStep ==
  ASSUME IInv,
         \A r \in Runs :
           runStatus'[r] \in OpenRun =>
             \/ \A j \in Jobs : RunOf[j] = r => jobStatus'[j] = "absent"
             \/ \E j \in Jobs : /\ RunOf[j] = r /\ jobStatus'[j] # "absent"
                                /\ Unsettled(j)'
             \/ /\ runStatus[r] \in OpenRun
                /\ \A j \in Jobs : RunOf[j] = r =>
                     /\ jobStatus'[j] = "absent" <=> jobStatus[j] = "absent"
                     /\ Unsettled(j) => Unsettled(j)'
  PROVE  RunClosesWithItsJobs'
<1> SUFFICES ASSUME NEW r \in Runs, runStatus'[r] \in OpenRun, JobsOf(r)' # {}
             PROVE  \E j \in JobsOf(r)' : ~Settled(j)'
  BY DEF RunClosesWithItsJobs
<1> USE DEF JobsOf, Settled, Unsettled
<1>1. ~\A j \in Jobs : RunOf[j] = r => jobStatus'[j] = "absent"
  OBVIOUS
<1>2. CASE \E j \in Jobs : /\ RunOf[j] = r /\ jobStatus'[j] # "absent"
                           /\ Unsettled(j)'
  BY <1>2
<1>3. CASE /\ runStatus[r] \in OpenRun
           /\ \A j \in Jobs : RunOf[j] = r =>
                /\ jobStatus'[j] = "absent" <=> jobStatus[j] = "absent"
                /\ Unsettled(j) => Unsettled(j)'
  <2>1. JobsOf(r) # {}
    BY <1>1, <1>3
  <2>2. PICK j \in JobsOf(r) : ~Settled(j)
    BY <1>3, <2>1 DEF IInv, PipelineInv, RunClosesWithItsJobs
  <2>3. QED
    BY <1>3, <2>2
<1>4. QED
  BY <1>1, <1>2, <1>3

\* The statements that end a job end its run with it.
LEMMA SettlingStep ==
  ASSUME IInv, NEW w \in Workers, NEW s \in ClosedRun,
         runStatus' = SetRun(workJob[w], OpenRun, s), workJob[w] \in Jobs,
         UNCHANGED jobStatus,
         \A j \in Jobs : j # workJob[w] => normState'[j] = normState[j]
  PROVE  RunClosesWithItsJobs'
<1>1. \A r \in Runs : r # RunOf[workJob[w]] => runStatus'[r] = runStatus[r]
  BY DEF SetRun
<1>2. \A r \in Runs : r = RunOf[workJob[w]] => runStatus'[r] \notin OpenRun
  BY DEF SetRun, OpenRun, ClosedRun
<1>3. QED
  BY <1>1, <1>2, OpenRunStep DEF Unsettled

\* Through any step, an open run has a job that may still close it.
LEMMA RunClosesStep ==
  ASSUME IInv, [Next]_vars PROVE RunClosesWithItsJobs'
<1> USE DEF IInv, PipelineInv, TypeOK, RowsTypeOK
<1>1. ASSUME \A j \in Jobs : /\ jobStatus'[j] = "absent" <=> jobStatus[j] = "absent"
                             /\ Unsettled(j) => Unsettled(j)',
             \A r \in Runs : runStatus'[r] \in OpenRun => runStatus[r] \in OpenRun
      PROVE  RunClosesWithItsJobs'
  BY <1>1, OpenRunStep
<1>2. ASSUME NEW q \in Runs, StartRun(q) PROVE RunClosesWithItsJobs'
  <2>1. \A j \in Jobs : RunOf[j] = q => jobStatus[j] = "absent"
    BY <1>2, RowsAssumption DEF StartRun, StateFollowsCollection
  <2>2. /\ \A r \in Runs : r # q => runStatus'[r] = runStatus[r]
        /\ UNCHANGED <<jobStatus, normState>>
    BY <1>2 DEF StartRun, normVars
  <2>3. QED
    BY <2>1, <2>2, OpenRunStep DEF Unsettled
<1>3. ASSUME NEW i \in Jobs, CreateJob(i) PROVE RunClosesWithItsJobs'
  <2>1. /\ jobStatus' = [jobStatus EXCEPT ![i] = "QUEUED"]
        /\ UNCHANGED <<normState, runStatus>>
        /\ normState[i] = "null"
    BY <1>3 DEF CreateJob, normVars, StateFollowsCollection, Collecting
  <2>2. Unsettled(i)' /\ jobStatus'[i] # "absent"
    BY <2>1 DEF Unsettled
  <2>3. \A j \in Jobs : j # i => jobStatus'[j] = jobStatus[j]
    BY <2>1
  <2>4. QED
    BY <2>1, <2>2, <2>3, OpenRunStep DEF Unsettled
<1>4. ASSUME NEW c \in Connectors, AgentClaims(c) PROVE RunClosesWithItsJobs'
  <2>1. PICK i \in Jobs : /\ jobStatus[i] = "QUEUED"
                          /\ jobStatus' = [jobStatus EXCEPT ![i] = "RUNNING"]
                          /\ runStatus' = SetRun(i, AnyRun, "RUNNING")
    BY <1>4 DEF AgentClaims, NextQueued
  <2>2. normState' = normState /\ normState[i] = "null"
    BY <1>4, <2>1 DEF AgentClaims, normVars, StateFollowsCollection, Collecting
  <2>3. Unsettled(i)' /\ jobStatus'[i] # "absent"
    BY <2>1, <2>2 DEF Unsettled
  <2>4. \A r \in Runs : r # RunOf[i] => runStatus'[r] = runStatus[r]
    BY <2>1 DEF SetRun
  <2>5. \A j \in Jobs : jobStatus'[j] = "absent" <=> jobStatus[j] = "absent"
    BY <2>1
  <2>6. QED
    BY <2>2, <2>3, <2>4, <2>5, OpenRunStep DEF Unsettled
<1>5. ASSUME NEW k \in calls, CompleteUpdate(k) PROVE RunClosesWithItsJobs'
  <2>1. /\ k.job \in Jobs /\ normState[k.job] = "null"
        /\ jobStatus[k.job] # "absent"
        /\ jobStatus' = [jobStatus EXCEPT ![k.job] = "COMPLETED"]
        /\ normState' = [normState EXCEPT ![k.job] = Collected(k.job)]
        /\ UNCHANGED runStatus
    BY <1>5, CallHasJob
       DEF CompleteUpdate, LeaveClaim, CallsKnowTheirJob, Reported
  <2>2. Collected(k.job) \in {"null", "PENDING"}
    BY <2>1 DEF Collected
  <2>3. QED
    BY <2>1, <2>2, <1>1 DEF Unsettled
<1>6. ASSUME NEW k \in calls, FailJob(k) PROVE RunClosesWithItsJobs'
  <2>1. /\ k.job \in Jobs /\ jobStatus[k.job] # "absent"
        /\ jobStatus' = [jobStatus EXCEPT ![k.job] = "FAILED"]
        /\ UNCHANGED <<normState, runStatus>>
    BY <1>6, CallHasJob DEF FailJob, normVars, CallsKnowTheirJob, Reported
  <2>2. QED
    BY <2>1, <1>1 DEF Unsettled
<1>7. ASSUME NEW k \in calls, FailRun(k) PROVE RunClosesWithItsJobs'
  <2>1. UNCHANGED <<jobStatus, normState>>
    BY <1>7 DEF FailRun, normVars
  <2>2. \A r \in Runs : runStatus'[r] \in OpenRun => runStatus[r] \in OpenRun
    BY <1>7 DEF FailRun, SetRun, OpenRun
  <2>3. QED
    BY <2>1, <2>2, <1>1 DEF Unsettled
<1>8. CASE UNCHANGED <<jobStatus, normState, runStatus>>
  BY <1>8, <1>1 DEF Unsettled
<1>9. ASSUME NEW w \in Workers, ClaimCandidate(w) PROVE RunClosesWithItsJobs'
  <2>1. workJob[w] \in Jobs /\ UNCHANGED <<jobStatus, runStatus>>
    BY <1>9, WorkerHasJob DEF ClaimCandidate
  <2>2. \/ normState' = normState
        \/ normState' = [normState EXCEPT ![workJob[w]] = "CLAIMED"]
    BY <1>9 DEF ClaimCandidate, normVars
  <2>3. QED
    BY <2>1, <2>2, <1>1 DEF Unsettled
<1>10. ASSUME NEW w \in Workers, CompleteClaim(w) PROVE RunClosesWithItsJobs'
  <2>1. workJob[w] \in Jobs /\ UNCHANGED jobStatus
    BY <1>10, WorkerHasJob DEF CompleteClaim
  <2>2. CASE Owns(w, workJob[w]) /\ ~normalized[workJob[w]]
    <3>1. /\ runStatus' = SetRun(workJob[w], OpenRun, Outcome(w))
          /\ \A j \in Jobs : j # workJob[w] => normState'[j] = normState[j]
      BY <1>10, <2>2 DEF CompleteClaim, LeaveClaim
    <3>2. Outcome(w) \in ClosedRun
      BY DEF Outcome, ClosedRun
    <3>3. QED
      BY <2>1, <3>1, <3>2, SettlingStep
  <2>3. CASE ~(Owns(w, workJob[w]) /\ ~normalized[workJob[w]])
    BY <1>10, <2>1, <2>3, <1>8 DEF CompleteClaim
  <2>4. QED
    BY <2>2, <2>3
<1>11. ASSUME NEW w \in Workers, FailClaim(w) PROVE RunClosesWithItsJobs'
  <2>1. workJob[w] \in Jobs /\ UNCHANGED jobStatus
    BY <1>11, WorkerHasJob DEF FailClaim
  <2>2. CASE /\ LeaveClaim(workJob[w], "FAILED")
             /\ runStatus' = SetRun(workJob[w], OpenRun, FailedOutcome(workJob[w]))
    <3>1. FailedOutcome(workJob[w]) \in ClosedRun
      BY DEF FailedOutcome, ClosedRun
    <3>2. \A j \in Jobs : j # workJob[w] => normState'[j] = normState[j]
      BY <2>2 DEF LeaveClaim
    <3>3. QED
      BY <2>1, <2>2, <3>1, <3>2, SettlingStep
  <2>3. CASE LeaveClaim(workJob[w], "PENDING") /\ UNCHANGED runStatus
    BY <2>1, <2>3, <1>1 DEF LeaveClaim, Unsettled
  <2>4. CASE UNCHANGED <<normState, runStatus>>
    BY <2>1, <2>4, <1>8
  <2>5. QED
    BY <1>11, <2>2, <2>3, <2>4 DEF FailClaim
<1>12. CASE RowsNext
  BY <1>12, <1>2, <1>3 DEF RowsNext
<1>13. CASE AgentNext
  <2>1. CASE UNCHANGED rowVars
    BY <2>1, <1>8 DEF rowVars, normVars
  <2>2. QED
    BY <1>13, <2>1, <1>4, <1>5, <1>6, <1>7
       DEF AgentNext, AgentCollects, AgentCollectFails, AgentGivesUp,
           AgentRestarts, CallLost, Serve, CompleteCheck, LogServed
<1>14. CASE WorkerNext
  <2>1. CASE UNCHANGED rowVars
    BY <2>1, <1>8 DEF rowVars, normVars
  <2>2. ASSUME NEW w \in Workers, RenewLease(w) PROVE RunClosesWithItsJobs'
    BY <2>2, <1>8 DEF RenewLease
  <2>3. ASSUME NEW j \in Jobs, LeaseLapses(j) PROVE RunClosesWithItsJobs'
    BY <2>3, <1>8 DEF LeaseLapses
  <2>4. QED
    BY <1>14, <2>1, <2>2, <2>3, <1>9, <1>10, <1>11
       DEF WorkerNext, WorkerStep, WorkerFault, WorkerStarts, SelectCandidate,
           CheckClaim, PersistSlip, NormalizationThrows, AbandonClaim,
           PersistBlocked, FailClaimLost, WorkerCrashes, OrphanLapses,
           LapsesUnderWorker
<1>15. QED
  BY <1>8, <1>12, <1>13, <1>14 DEF Next, vars, rowVars, normVars

-----------------------------------------------------------------------------
(***************************************************************************)
(* How often a job is claimed.                                             *)
(***************************************************************************)

\* The early readers of a job can be counted.
LEMMA ReadersCounted ==
  ASSUME NEW j \in Jobs
  PROVE  /\ IsFiniteSet(EarlyReaders(j))
         /\ Cardinality(EarlyReaders(j)) \in Nat
         /\ Cardinality(EarlyReaders(j)) <= Cardinality(Workers)
         /\ Cardinality(Workers) \in Nat
BY PipelineAssumption, FS_Subset, FS_CardinalityType DEF EarlyReaders

\* A SELECT that reads the count of a job at the limit does not read early, and
\* nothing else makes a worker an early reader.
LEMMA ReadersLeave ==
  ASSUME IInv, [Next]_vars, NEW j \in Jobs, attempts[j] + 1 >= MaxAttempts
  PROVE  EarlyReaders(j)' \subseteq EarlyReaders(j)
<1> USE DEF IInv
<1> SUFFICES ASSUME NEW v \in Workers, worker'[v] = "selected",
                    workJob'[v] = j, ~(seen'[v] + 1 >= MaxAttempts)
             PROVE  v \in EarlyReaders(j)
  BY DEF EarlyReaders, Terminal
<1>1. Unmoved(v) => v \in EarlyReaders(j)
  BY DEF Unmoved, EarlyReaders, Terminal
<1>2. CASE WorkerNext
  BY <1>1, <1>2, WorkerMoves DEF Busy
<1>3. CASE UNCHANGED <<worker, workJob, seen>>
  BY <1>1, <1>3 DEF Unmoved
<1>4. QED
  BY <1>2, <1>3 DEF Next, workerVars, vars

\* A fault is counted by one; a step without one counts none.
LEMMA FaultsGrow ==
  ASSUME IInv, [Next]_vars PROVE faults' = faults \/ faults' = faults + 1
BY DEF Next, WorkerNext, WorkerStep, WorkerFault, WorkerStarts,
   SelectCandidate, ClaimCandidate, CheckClaim, PersistSlip,
   NormalizationThrows, RenewLease, CompleteClaim, FailClaim, AbandonClaim,
   PersistBlocked, FailClaimLost, WorkerCrashes, OrphanLapses,
   LapsesUnderWorker, Fault, workerVars, vars

\* The claim of w on j, with the place and the count of w.
Keeps(w, j) ==
  /\ Owns(w, j) /\ ~leaseLapsed[j] /\ workJob[w] = j
  /\ worker[w] \notin {"down", "idle", "selected"}

\* A worker whose claim stands loses it to a fault or by the end of the job; all
\* that the other workers do is about other jobs or comes to nothing.
LEMMA LastClaimHeld ==
  ASSUME IInv, WorkerNext, NEW j \in Jobs, NEW w \in Workers,
         Keeps(w, j), Terminal(w)
  PROVE  \/ faults' = faults + 1
         \/ Settled(j)'
         \/ Keeps(w, j)' /\ seen'[w] = seen[w]
<1> USE DEF IInv, TypeOK, RowsTypeOK, WorkerTypeOK
<1> DEFINE Kept == Keeps(w, j)' /\ seen'[w] = seen[w]
<1>1. ASSUME NEW u \in Workers, u # w, NEW where, Release(u, where),
             UNCHANGED <<normState, normOwner, leaseLapsed>>
      PROVE  Kept
  BY <1>1 DEF Release, Keeps, Owns
<1>2. ASSUME NEW u \in Workers, NEW where \in Busy, Goto(u, where),
             normState'[j] = normState[j], normOwner'[j] = normOwner[j],
             leaseLapsed'[j] = FALSE
      PROVE  Kept
  BY <1>2 DEF Goto, Keeps, Owns, Busy
<1>3. ASSUME NEW u \in Workers, WorkerStarts(u) \/ SelectCandidate(u)
      PROVE  Kept
  BY <1>3 DEF WorkerStarts, SelectCandidate, Keeps, Owns, rowVars, normVars
<1>4. ASSUME NEW u \in Workers, ClaimCandidate(u) PROVE Kept
  <2>1. u # w /\ workJob[u] \in Jobs
    BY <1>4, WorkerHasJob DEF ClaimCandidate, Keeps
  <2>2. CASE Claimable(workJob[u])
    <3>1. workJob[u] # j
      BY <2>2 DEF Claimable, Keeps, Owns
    <3>2. QED
      BY <1>4, <2>1, <2>2, <3>1 DEF ClaimCandidate, Goto, Keeps, Owns
  <2>3. CASE ~Claimable(workJob[u])
    BY <1>1, <1>4, <2>1, <2>3 DEF ClaimCandidate, normVars
  <2>4. QED
    BY <2>2, <2>3
<1>5. ASSUME NEW u \in Workers,
             CheckClaim(u) \/ PersistSlip(u) \/ NormalizationThrows(u)
               \/ PersistBlocked(u)
      PROVE  Kept
  <2>1. PICK where \in Busy : Goto(u, where)
    BY <1>5 DEF CheckClaim, PersistSlip, NormalizationThrows, PersistBlocked,
       Busy
  <2>2. UNCHANGED <<normState, normOwner, leaseLapsed>> /\ leaseLapsed[j] = FALSE
    BY <1>5 DEF CheckClaim, PersistSlip, NormalizationThrows, PersistBlocked,
       rowVars, normVars, Keeps
  <2>3. QED
    BY <1>2, <2>1, <2>2
<1>6. ASSUME NEW u \in Workers, RenewLease(u) PROVE Kept
  <2>1. PICK where \in Busy : Goto(u, where)
    BY <1>6 DEF RenewLease, Busy
  <2>2. /\ UNCHANGED <<normState, normOwner>>
        /\ leaseLapsed' = leaseLapsed
             \/ leaseLapsed' = [leaseLapsed EXCEPT ![workJob[u]] = FALSE]
    BY <1>6 DEF RenewLease
  <2>3. leaseLapsed'[j] = FALSE
    BY <2>2 DEF Keeps
  <2>4. QED
    BY <1>2, <2>1, <2>2, <2>3
<1>7. ASSUME NEW u \in Workers, CompleteClaim(u) PROVE Kept \/ Settled(j)'
  <2>1. workJob[u] \in Jobs
    BY <1>7, WorkerHasJob DEF CompleteClaim
  <2>2. CASE Owns(u, workJob[u]) /\ ~normalized[workJob[u]]
    <3>1. LeaveClaim(workJob[u], "COMPLETED")
          /\ (Release(u, "idle") \/ Goto(u, "failing"))
      BY <1>7, <2>2 DEF CompleteClaim
    <3>2. CASE workJob[u] = j
      BY <2>1, <3>1, <3>2 DEF LeaveClaim, Settled
    <3>3. CASE workJob[u] # j
      <4>1. u # w
        BY <3>3 DEF Keeps
      <4>2. QED
        BY <2>1, <3>1, <3>3, <4>1 DEF LeaveClaim, Release, Goto, Keeps, Owns
    <3>4. QED
      BY <3>2, <3>3
  <2>3. CASE ~(Owns(u, workJob[u]) /\ ~normalized[workJob[u]])
    <3>1. Goto(u, "failing") /\ UNCHANGED <<normState, normOwner, leaseLapsed>>
      BY <1>7, <2>3 DEF CompleteClaim
    <3>2. leaseLapsed[j] = FALSE /\ "failing" \in Busy
      BY DEF Keeps, Busy
    <3>3. QED
      BY <1>2, <3>1, <3>2
  <2>4. QED
    BY <2>2, <2>3
<1>8. ASSUME NEW u \in Workers, FailClaim(u) PROVE Kept \/ Settled(j)'
  <2>1. workJob[u] \in Jobs
    BY <1>8, WorkerHasJob DEF FailClaim
  <2>2. CASE ~Owns(u, workJob[u])
    <3>1. u # w
      BY <2>2 DEF Keeps
    <3>2. QED
      BY <1>1, <1>8, <2>2, <3>1 DEF FailClaim
  <2>3. CASE Owns(u, workJob[u]) /\ workJob[u] = j
    <3>1. u = w
      BY <2>3 DEF Owns, Keeps
    <3>2. QED
      BY <1>8, <2>3, <3>1 DEF FailClaim, LeaveClaim, Settled
  <2>4. CASE Owns(u, workJob[u]) /\ workJob[u] # j
    <3>1. u # w
      BY <2>4 DEF Keeps
    <3>2. Release(u, "idle")
          /\ (LeaveClaim(workJob[u], "FAILED") \/ LeaveClaim(workJob[u], "PENDING"))
      BY <1>8, <2>4 DEF FailClaim
    <3>3. QED
      BY <2>1, <2>4, <3>1, <3>2 DEF LeaveClaim, Release, Keeps, Owns
  <2>5. QED
    BY <2>2, <2>3, <2>4
<1>9. ASSUME NEW u \in Workers, WorkerFault(u) PROVE faults' = faults + 1
  BY <1>9 DEF WorkerFault, AbandonClaim, PersistBlocked, FailClaimLost,
     WorkerCrashes, Fault
<1>10. ASSUME NEW i \in Jobs, OrphanLapses(i) PROVE Kept
  <2>1. HeldByLive(j)
    BY DEF HeldByLive, Keeps, WorkerState
  <2>2. i # j
    BY <1>10, <2>1 DEF OrphanLapses
  <2>3. QED
    BY <1>10, <2>2 DEF OrphanLapses, LeaseLapses, workerVars, Keeps, Owns
<1>11. ASSUME NEW i \in Jobs, LapsesUnderWorker(i) PROVE faults' = faults + 1
  BY <1>11 DEF LapsesUnderWorker, Fault
<1> HIDE DEF IInv, TypeOK, RowsTypeOK, WorkerTypeOK, Kept
<1>12. QED
  <2>1. faults' = faults + 1 \/ Settled(j)' \/ Kept
    BY <1>3, <1>4, <1>5, <1>6, <1>7, <1>8, <1>9, <1>10, <1>11
       DEF WorkerNext, WorkerStep
  <2>2. QED
    BY <2>1 DEF Kept

\* What ends with the claim it is under, or has ended, does so unless a fault
\* comes between.
LEMMA LastClaimStays ==
  ASSUME IInv, [Next]_vars, NEW j \in Jobs, LastClaim(j)
  PROVE  faults' = faults + 1 \/ LastClaim(j)'
<1> USE DEF IInv, PipelineInv
<1>1. CASE Settled(j)
  <2>1. \A i \in Jobs : QueueMove(i) => i # j /\ normState'[j] = normState[j]
    BY <1>1 DEF QueueMove, Offered, Taken, LeaseSet, GivenBack, LeaveClaim,
       Settled, TypeOK, RowsTypeOK
  <2>2. normState'[j] = normState[j]
    BY <2>1, QueueStep DEF QueueCols
  <2>3. QED
    BY <1>1, <2>2 DEF Settled, LastClaim
<1>2. CASE ~Settled(j)
  <2>1. PICK w \in Workers : Keeps(w, j) /\ Terminal(w)
    BY <1>2 DEF LastClaim, Keeps
  <2>2. CASE WorkerNext
    BY <2>1, <2>2, LastClaimHeld DEF LastClaim, Keeps, Terminal
  <2>3. CASE ~WorkerNext
    <3>1. UNCHANGED <<worker, workJob, seen>>
      BY <2>3 DEF Next, workerVars, vars
    <3>2. ASSUME NEW k \in calls, CompleteUpdate(k)
          PROVE  UNCHANGED <<normState[j], normOwner[j], leaseLapsed[j]>>
      <4>1. k.job \in Jobs /\ normState[k.job] = "null"
        BY <3>2, CallHasJob DEF CompleteUpdate, CallsKnowTheirJob
      <4>2. QED
        BY <2>1, <3>2, <4>1 DEF CompleteUpdate, LeaveClaim, Keeps, Owns,
           TypeOK, RowsTypeOK
    <3>3. UNCHANGED <<normState[j], normOwner[j], leaseLapsed[j]>>
      BY <2>3, <3>2 DEF Next, RowsNext, StartRun, CreateJob, AgentNext,
         AgentClaims, AgentCollects, AgentCollectFails, AgentGivesUp,
         AgentRestarts, CallLost, Serve, CompleteCheck, LogServed, FailJob,
         FailRun, vars, rowVars, normVars
    <3>4. QED
      BY <2>1, <3>1, <3>3 DEF LastClaim, Keeps, Owns, Terminal
  <2>4. QED
    BY <2>2, <2>3
<1>3. QED
  BY <1>1, <1>2

\* A claim of j: it was open, and is closed by a worker that did not read early.
LEMMA ClaimOfJob ==
  ASSUME IInv, NEW w \in Workers, ClaimCandidate(w), NEW j \in Jobs,
         attempts'[j] # attempts[j]
  PROVE  /\ worker[w] = "selected" /\ workJob[w] = j
         /\ attempts'[j] = attempts[j] + 1 /\ faults' = faults
         /\ seen[w] <= attempts[j]
         /\ EarlyReaders(j)' = EarlyReaders(j) \ {w}
         /\ ~LastClaim(j)
         /\ Terminal(w) => LastClaim(j)'
<1> USE DEF IInv, TypeOK, RowsTypeOK, WorkerTypeOK
<1>1. worker[w] = "selected" /\ workJob[w] \in Jobs
  BY WorkerHasJob DEF ClaimCandidate
<1>2. Claimable(workJob[w])
  BY DEF ClaimCandidate, normVars
<1>3. /\ attempts' = [attempts EXCEPT ![workJob[w]] = @ + 1]
      /\ normState' = [normState EXCEPT ![workJob[w]] = "CLAIMED"]
      /\ normOwner' = [normOwner EXCEPT ![workJob[w]] = w]
      /\ leaseLapsed' = [leaseLapsed EXCEPT ![workJob[w]] = FALSE]
      /\ worker' = [worker EXCEPT ![w] = "claimed"]
      /\ UNCHANGED <<workJob, seen, faults>>
  BY <1>2 DEF ClaimCandidate, Goto
<1>4. workJob[w] = j
  BY <1>1, <1>3
<1>5. seen[w] <= attempts[j]
  BY <1>1, <1>4 DEF PipelineInv, ClaimIsCounted
<1>6. EarlyReaders(j)' = EarlyReaders(j) \ {w}
  BY <1>1, <1>3, <1>4 DEF EarlyReaders, Terminal
<1>7. ~LastClaim(j)
  <2>1. \/ normState[j] \in {"null", "PENDING"}
        \/ normState[j] = "CLAIMED" /\ leaseLapsed[j]
    BY <1>2, <1>4 DEF Claimable
  <2>2. QED
    BY <2>1 DEF LastClaim, Settled, Owns
<1>8. Terminal(w) => LastClaim(j)'
  BY <1>1, <1>3, <1>4 DEF LastClaim, Owns, Terminal
<1>9. QED
  BY <1>1, <1>3, <1>4, <1>5, <1>6, <1>7, <1>8

\* The numbers of a job's claims change with a claim of it only.
LEMMA OnlyClaimsCount ==
  ASSUME IInv, [Next]_vars
  PROVE  attempts' = attempts \/ \E w \in Workers : ClaimCandidate(w)
BY DEF Next, RowsNext, StartRun, CreateJob, AgentNext, AgentClaims,
   AgentCollects, AgentCollectFails, AgentGivesUp, AgentRestarts, CallLost,
   Serve, CompleteCheck, CompleteUpdate, LogServed, FailJob, FailRun,
   WorkerNext, WorkerStep, WorkerFault, WorkerStarts, SelectCandidate,
   CheckClaim, PersistSlip, NormalizationThrows, RenewLease, CompleteClaim,
   FailClaim, AbandonClaim, PersistBlocked, FailClaimLost, WorkerCrashes,
   OrphanLapses, LapsesUnderWorker, LeaseLapses, workerVars, vars, rowVars,
   normVars

\* The budget through every step: a claim uses up an early reader, or is the
\* last; the claim that brings the job to the limit finds fewer early readers
\* than there are workers.
LEMMA BudgetStep ==
  ASSUME IInv, [Next]_vars PROVE BudgetIsKept'
<1> SUFFICES ASSUME NEW j \in Jobs,
                    attempts'[j] > 0, attempts'[j] + 1 >= MaxAttempts
             PROVE  attempts'[j] + Cardinality(EarlyReaders(j)') + 2
                      <= MaxAttempts + faults' + Cardinality(Workers)
                           + (IF LastClaim(j)' THEN 1 ELSE 0)
  BY DEF BudgetIsKept
<1> DEFINE a == attempts[j]          aNew == attempts'[j]
           r == Cardinality(EarlyReaders(j))
           rNew == Cardinality(EarlyReaders(j)')
           n == Cardinality(Workers)
           last == IF LastClaim(j) THEN 1 ELSE 0
           lastNew == IF LastClaim(j)' THEN 1 ELSE 0
<1>1. /\ a \in Nat /\ aNew \in Nat /\ r \in Nat /\ n \in Nat /\ r <= n
      /\ faults \in Nat /\ MaxAttempts \in Nat /\ MaxAttempts >= 1
      /\ last \in {0, 1} /\ lastNew \in {0, 1}
  BY ReadersCounted, NextKeepsTypes, WorkerAssumption
     DEF IInv, TypeOK, RowsTypeOK, WorkerTypeOK
<1>2. a > 0 /\ a + 1 >= MaxAttempts
        => a + r + 2 <= MaxAttempts + faults + n + last
  BY DEF IInv, PipelineInv, BudgetIsKept
<1>3. CASE aNew = a
  <2>1. rNew \in Nat /\ rNew <= r
    <3>1. EarlyReaders(j)' \subseteq EarlyReaders(j)
      BY <1>3, ReadersLeave
    <3>2. QED
      BY <3>1, ReadersCounted, FS_Subset, FS_CardinalityType
  <2>2. faults' = faults + 1 \/ (faults' = faults /\ lastNew >= last)
    BY FaultsGrow, LastClaimStays
  <2> HIDE DEF a, aNew, r, rNew, n, last, lastNew
  <2>3. a + r + 2 <= MaxAttempts + faults + n + last
    BY <1>1, <1>2, <1>3 DEF a, aNew
  <2>4. aNew + rNew + 2 <= MaxAttempts + faults' + n + lastNew
    BY <1>1, <1>3, <2>1, <2>2, <2>3
  <2>5. QED
    BY <2>4 DEF aNew, rNew, n, lastNew
<1>4. CASE aNew # a
  <2>1. PICK w \in Workers : ClaimCandidate(w)
    BY <1>4, OnlyClaimsCount
  <2>2. /\ worker[w] = "selected" /\ workJob[w] = j
        /\ aNew = a + 1 /\ faults' = faults /\ seen[w] <= a
        /\ EarlyReaders(j)' = EarlyReaders(j) \ {w}
        /\ ~LastClaim(j)
        /\ Terminal(w) => LastClaim(j)'
    BY <1>4, <2>1, ClaimOfJob
  <2>3. seen[w] \in Nat
    BY DEF IInv, TypeOK, WorkerTypeOK
  <2>4. rNew \in Nat /\ rNew <= r /\ (w \in EarlyReaders(j) => rNew = r - 1)
    BY <2>2, ReadersCounted, FS_RemoveElement, FS_Subset, FS_CardinalityType
  <2>5. rNew <= n - 1
    <3>1. EarlyReaders(j)' \subseteq Workers \ {w}
      BY <2>2 DEF EarlyReaders
    <3>2. IsFiniteSet(Workers \ {w}) /\ Cardinality(Workers \ {w}) = n - 1
      BY PipelineAssumption, FS_RemoveElement
    <3>3. QED
      BY <3>1, <3>2, FS_Subset
  <2>6. w \in EarlyReaders(j) <=> ~(seen[w] + 1 >= MaxAttempts)
    BY <2>2 DEF EarlyReaders, Terminal
  <2>7. /\ last = 0 /\ (seen[w] + 1 >= MaxAttempts => lastNew = 1)
        /\ MaxAttempts = 1 => r = 0
    <3>1. ASSUME MaxAttempts = 1 PROVE r = 0
      <4>1. EarlyReaders(j) = {}
        BY <3>1 DEF EarlyReaders, Terminal, IInv, TypeOK, WorkerTypeOK
      <4>2. QED
        BY <4>1, FS_EmptySet
    <3>2. QED
      BY <2>2, <3>1 DEF Terminal
  <2>8. aNew + 1 >= MaxAttempts
    OBVIOUS
  <2>9. w \in EarlyReaders(j) \/ w \notin EarlyReaders(j)
    OBVIOUS
  <2> HIDE DEF a, aNew, r, rNew, n, last, lastNew
  <2>10. aNew + rNew + 2 <= MaxAttempts + faults' + n + lastNew
    <3>1. CASE w \in EarlyReaders(j)
      BY <1>1, <1>2, <2>2, <2>3, <2>4, <2>5, <2>6, <2>7, <2>8, <3>1
    <3>2. CASE w \notin EarlyReaders(j)
      BY <1>1, <1>2, <2>2, <2>3, <2>4, <2>5, <2>6, <2>7, <2>8, <3>2
    <3>3. QED
      BY <3>1, <3>2
  <2>11. QED
    BY <2>10 DEF aNew, rNew, n, lastNew
<1>5. QED
  BY <1>3, <1>4

-----------------------------------------------------------------------------
(***************************************************************************)
(* The inductive invariant and what follows from it.                       *)
(***************************************************************************)

\* The empty tables satisfy the invariant.
LEMMA InitEstablishesIInv == Init => IInv
<1> SUFFICES ASSUME Init PROVE IInv
  OBVIOUS
<1> USE DEF Init, RowsInit, AgentInit, WorkerInit
<1>1. RowsTypeOK
  BY DEF RowsTypeOK, JobStatus, NormState
<1>2. AgentTypeOK
  BY DEF AgentTypeOK, AgentState
<1>3. WorkerTypeOK
  BY WorkerAssumption DEF WorkerTypeOK, WorkerState
<1>4. StateFollowsCollection /\ AgentKnowsItsJob /\ CallsKnowTheirJob
  BY DEF StateFollowsCollection, AgentKnowsItsJob, CallsKnowTheirJob
<1>5. ClaimIsCounted /\ StoredUnlessSkipped
  BY DEF ClaimIsCounted, StoredUnlessSkipped
<1>6. ClaimColumnsAgree /\ GivenUpAfterMaxAttempts
  BY DEF ClaimColumnsAgree, GivenUpAfterMaxAttempts
<1>7. RunClosesWithItsJobs /\ CompletedRunIsWhole
  BY DEF RunClosesWithItsJobs, CompletedRunIsWhole, OpenRun
<1>8. BudgetIsKept
  BY DEF BudgetIsKept
<1>9. QED
  BY <1>1, <1>2, <1>3, <1>4, <1>5, <1>6, <1>7, <1>8 DEF IInv, TypeOK, PipelineInv

\* The invariant is inductive.
LEMMA NextKeepsIInv == IInv /\ [Next]_vars => IInv'
<1> SUFFICES ASSUME IInv, [Next]_vars PROVE IInv'
  OBVIOUS
<1>1. TypeOK'
  BY NextKeepsTypes
<1>2. StateFollowsCollection' /\ AgentKnowsItsJob' /\ CallsKnowTheirJob'
  BY AgentInvStep DEF AgentInv
<1>3. ClaimIsCounted' /\ StoredUnlessSkipped'
  BY ClaimIsCountedStep, StoredUnlessSkippedStep
<1>4. ClaimColumnsAgree' /\ GivenUpAfterMaxAttempts'
  BY ClaimColumnsAgreeStep, GivenUpStep
<1>5. RunClosesWithItsJobs' /\ CompletedRunIsWhole'
  BY RunClosesStep, CompletedRunIsWholeStep
<1>6. BudgetIsKept'
  BY BudgetStep
<1>7. QED
  BY <1>1, <1>2, <1>3, <1>4, <1>5, <1>6 DEF IInv, PipelineInv

\* The invariant holds in every reachable state.
LEMMA IInvAlways == Spec => []IInv
BY InitEstablishesIInv, NextKeepsIInv, PTL DEF Spec

(***************************************************************************)
(* Every variable keeps its type, whatever is in flight.                   *)
(***************************************************************************)
THEOREM TypeCorrect == Spec => []TypeOK
<1>1. IInv => TypeOK
  BY DEF IInv
<1>2. QED
  BY <1>1, IInvAlways, PTL

(***************************************************************************)
(* What connector, requests and workers may assume of the rows always      *)
(* holds, for any number of each.                                          *)
(***************************************************************************)
THEOREM PipelineInvHolds == Spec => []PipelineInv
<1>1. IInv => PipelineInv
  BY DEF IInv
<1>2. QED
  BY <1>1, IInvAlways, PTL

(***************************************************************************)
(* Owner, lease, state and normalized_at of a job always agree, although   *)
(* complete of the connector, claimNext, complete and fail of the queue    *)
(* each write their own selection of them.                                 *)
(***************************************************************************)
THEOREM ColumnsAlwaysAgree == Spec => []ClaimColumnsAgree
<1>1. IInv => ClaimColumnsAgree
  BY DEF IInv, PipelineInv
<1>2. QED
  BY <1>1, IInvAlways, PTL

(***************************************************************************)
(* No run is left open behind jobs that are all over, with any number of   *)
(* jobs in a run.                                                          *)
(***************************************************************************)
THEOREM RunsCloseWithTheirJobs == Spec => []RunClosesWithItsJobs
<1>1. IInv => RunClosesWithItsJobs
  BY DEF IInv, PipelineInv
<1>2. QED
  BY <1>1, IInvAlways, PTL

(***************************************************************************)
(* A COMPLETED run has stored every payslip of its data, whatever became   *)
(* of the leases on the way.                                               *)
(***************************************************************************)
THEOREM CompletedRunsAreWhole == Spec => []CompletedRunIsWhole
<1>1. IInv => CompletedRunIsWhole
  BY DEF IInv, PipelineInv
<1>2. QED
  BY <1>1, IInvAlways, PTL

(***************************************************************************)
(* No job is given up early, however stale the count its worker read.      *)
(***************************************************************************)
THEOREM NeverGivenUpEarly == Spec => []GivenUpAfterMaxAttempts
<1>1. IInv => GivenUpAfterMaxAttempts
  BY DEF IInv, PipelineInv
<1>2. QED
  BY <1>1, IInvAlways, PTL

(***************************************************************************)
(* No job is claimed more often than the limit, one claim for each other   *)
(* worker, whose SELECT may have read the count early, and one for each    *)
(* fault that a claim was lost to: for any number of workers and jobs.     *)
(***************************************************************************)
THEOREM ClaimsStayInBudget == Spec => []ClaimBudget
<1>1. IInv => ClaimBudget
  <2> SUFFICES ASSUME IInv, NEW j \in Jobs
               PROVE  attempts[j]
                        <= MaxAttempts + faults + Cardinality(Workers) - 1
    BY DEF ClaimBudget
  <2>1. /\ attempts[j] \in Nat /\ faults \in Nat /\ MaxAttempts \in Nat
        /\ MaxAttempts >= 1 /\ Cardinality(Workers) \in Nat
        /\ Cardinality(EarlyReaders(j)) \in Nat
    BY ReadersCounted, WorkerAssumption
       DEF IInv, TypeOK, RowsTypeOK, WorkerTypeOK
  <2>2. CASE attempts[j] > 0 /\ attempts[j] + 1 >= MaxAttempts
    BY <2>1, <2>2 DEF IInv, PipelineInv, BudgetIsKept
  <2>3. CASE ~(attempts[j] > 0 /\ attempts[j] + 1 >= MaxAttempts)
    BY <2>1, <2>3
  <2>4. QED
    BY <2>2, <2>3
<1>2. QED
  BY <1>1, IInvAlways, PTL

-----------------------------------------------------------------------------
(***************************************************************************)
(* Steps.                                                                  *)
(***************************************************************************)

\* Who may take a job out of CLAIMED.
LEMMA OnlyHolderSettlesStep ==
  ASSUME IInv, Next, NEW j \in Jobs,
         normState[j] = "CLAIMED", normState'[j] # "CLAIMED"
  PROVE  \E w \in Workers : /\ HeldBy(w, j)
                            /\ worker'[w] \in {"idle", "failing"}
<1> USE DEF IInv, PipelineInv, TypeOK, RowsTypeOK, WorkerTypeOK
<1>1. WorkerNext
  <2>1. ASSUME NEW k \in calls, CompleteUpdate(k) PROVE FALSE
    <3>1. k.job \in Jobs /\ normState[k.job] = "null"
      BY <2>1, CallHasJob DEF CompleteUpdate, CallsKnowTheirJob
    <3>2. QED
      BY <2>1, <3>1 DEF CompleteUpdate, LeaveClaim
  <2>2. normState' # normState
    OBVIOUS
  <2>3. ~RowsNext
    BY <2>2 DEF RowsNext, StartRun, CreateJob, normVars
  <2>4. ~AgentNext
    BY <2>1, <2>2 DEF AgentNext, AgentClaims, AgentCollects,
       AgentCollectFails, AgentGivesUp, AgentRestarts, CallLost, Serve,
       CompleteCheck, LogServed, FailJob, FailRun, rowVars, normVars
  <2>5. QED
    BY <2>3, <2>4 DEF Next
<1>2. ASSUME NEW w \in Workers, ClaimCandidate(w) PROVE FALSE
  <2>1. workJob[w] \in Jobs
    BY <1>2, WorkerHasJob DEF ClaimCandidate
  <2>2. QED
    BY <1>2, <2>1 DEF ClaimCandidate, normVars
<1>3. PICK w \in Workers : CompleteClaim(w) \/ FailClaim(w)
  BY <1>1, <1>2
     DEF WorkerNext, WorkerStep, WorkerFault, WorkerStarts, SelectCandidate,
         CheckClaim, PersistSlip, NormalizationThrows, RenewLease,
         AbandonClaim, PersistBlocked, FailClaimLost, WorkerCrashes,
         OrphanLapses, LapsesUnderWorker, LeaseLapses, rowVars, normVars
<1>4. workJob[w] = j /\ Owns(w, workJob[w])
  BY <1>3 DEF CompleteClaim, FailClaim, LeaveClaim
<1>5. worker[w] \in {"persisting", "failing"}
  BY <1>3 DEF CompleteClaim, FailClaim
<1>6. worker'[w] \in {"idle", "failing"}
  BY <1>3 DEF CompleteClaim, FailClaim, Release, Goto
<1>7. QED
  BY <1>4, <1>5, <1>6 DEF HeldBy, Owns

(***************************************************************************)
(* A worker that lost its claim never settles the job, and neither does a  *)
(* late request of the connector.                                          *)
(***************************************************************************)
THEOREM SettledByHolderOnly == Spec => OnlyHolderSettles
<1>1. IInv /\ [Next]_vars
        => [\A j \in Jobs :
              normState[j] = "CLAIMED" /\ normState'[j] # "CLAIMED"
                => \E w \in Workers : /\ HeldBy(w, j)
                                      /\ worker'[w] \in {"idle", "failing"}]_vars
  BY OnlyHolderSettlesStep
<1>2. QED
  BY <1>1, IInvAlways, PTL DEF Spec, OnlyHolderSettles

-----------------------------------------------------------------------------
(***************************************************************************)
(* The refinement.                                                         *)
(***************************************************************************)

Phases == [j \in Jobs |-> PhaseOf(normState[j])]

\* A change of one state is the same change of one phase.
LEMMA PhaseMoves ==
  ASSUME TypeOK, NEW j \in Jobs, NEW s,
         normState' = [normState EXCEPT ![j] = s]
  PROVE  Phases' = [Phases EXCEPT ![j] = PhaseOf(s)]
BY DEF TypeOK, RowsTypeOK, Phases

\* A move of the columns is a step of the durable queue.
LEMMA QueueMoveIsQueueStep ==
  ASSUME IInv, NEW j \in Jobs, QueueMove(j) PROVE Queue!Next
<1> USE DEF IInv
<1>1. Phases[j] = PhaseOf(normState[j])
  BY DEF Phases
<1>2. CASE Offered(j)
  <2>1. Phases[j] = "out" /\ Phases' = [Phases EXCEPT ![j] = "ready"]
    BY <1>1, <1>2, PhaseMoves DEF Offered, LeaveClaim, PhaseOf
  <2>2. UNCHANGED <<normOwner, leaseLapsed>>
    BY <1>2 DEF Offered, LeaveClaim, PipelineInv, ClaimColumnsAgree, TypeOK,
       RowsTypeOK
  <2>3. Queue!Offer(j)
    BY <2>1, <2>2 DEF Queue!Offer, Phases
  <2>4. QED
    BY <2>3 DEF Queue!Next
<1>3. ASSUME NEW w \in Workers, Taken(j, w) PROVE Queue!Next
  <2>1. /\ Phases[j] = "ready" \/ (Phases[j] = "held" /\ leaseLapsed[j])
        /\ Phases' = [Phases EXCEPT ![j] = "held"]
    BY <1>1, <1>3, PhaseMoves DEF Taken, PhaseOf
  <2>2. Queue!Take(j, w)
    BY <1>3, <2>1 DEF Queue!Take, Taken, Phases
  <2>3. QED
    BY <2>2 DEF Queue!Next
<1>4. ASSUME NEW b \in BOOLEAN, LeaseSet(j, b) PROVE Queue!Next
  <2>1. Phases[j] = "held" /\ Phases' = Phases
    BY <1>1, <1>4 DEF LeaseSet, PhaseOf, Phases
  <2>2. CASE b = TRUE
    BY <1>4, <2>1, <2>2 DEF Queue!Next, Queue!Lapse, LeaseSet, Phases
  <2>3. CASE b = FALSE
    BY <1>4, <2>1, <2>3 DEF Queue!Next, Queue!Renew, LeaseSet, Phases
  <2>4. QED
    BY <2>2, <2>3
<1>5. ASSUME NEW s \in {"PENDING", "COMPLETED", "FAILED"}, GivenBack(j, s)
      PROVE  Queue!Next
  <2>1. PhaseOf(s) \in {"ready", "done", "dead"}
    BY DEF PhaseOf
  <2>2. Phases[j] = "held" /\ Phases' = [Phases EXCEPT ![j] = PhaseOf(s)]
    BY <1>1, <1>5, PhaseMoves DEF GivenBack, LeaveClaim, PhaseOf
  <2>3. Queue!Settle(j, PhaseOf(s))
    BY <1>5, <2>2 DEF Queue!Settle, GivenBack, LeaveClaim, Phases
  <2>4. QED
    BY <2>1, <2>3 DEF Queue!Next
<1>6. QED
  BY <1>2, <1>3, <1>4, <1>5 DEF QueueMove

(***************************************************************************)
(* Every behaviour of the pipeline, seen through the normalization         *)
(* columns, is a behaviour of the durable queue.                           *)
(***************************************************************************)
THEOREM ImplementsQueue == Spec => QueueSpec
<1>1. Init => Queue!Init
  BY DEF Init, RowsInit, Queue!Init, PhaseOf
<1>2. IInv /\ [Next]_vars => [Queue!Next]_Queue!vars
  <2> SUFFICES ASSUME IInv, [Next]_vars PROVE [Queue!Next]_Queue!vars
    OBVIOUS
  <2>1. CASE UNCHANGED QueueCols
    BY <2>1 DEF QueueCols, Queue!vars
  <2>2. CASE \E j \in Jobs : QueueMove(j)
    BY <2>2, QueueMoveIsQueueStep
  <2>3. QED
    BY <2>1, <2>2, QueueStep
<1>3. QED
  BY <1>1, <1>2, IInvAlways, PTL DEF Spec, QueueSpec, Queue!Spec
=============================================================================
