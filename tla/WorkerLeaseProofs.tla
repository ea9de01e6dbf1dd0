-------------------------- MODULE WorkerLeaseProofs --------------------------
(***************************************************************************)
(* For any number of workers and items, and for every lease that is at     *)
(* least as long as a cycle with its grace: a worker that is busy with an  *)
(* item has an unexpired lease on it, and no other worker is busy with it. *)
(***************************************************************************)
EXTENDS WorkerLease, TLAPS

(***************************************************************************)
(* Every step keeps the variables in their types.                          *)
(***************************************************************************)
THEOREM TypeCorrect == LeaseSpec => []LeaseTypeOK
<1>1. LeaseInit => LeaseTypeOK
  BY DEF LeaseInit, LeaseTypeOK
<1>2. LeaseTypeOK /\ [LeaseNext]_leaseVars => LeaseTypeOK'
  <2> SUFFICES ASSUME LeaseTypeOK, [LeaseNext]_leaseVars PROVE LeaseTypeOK'
    OBVIOUS
  <2> USE LeaseAssumption DEF LeaseTypeOK, itemVars
  <2>1. CASE Tick
    BY <2>1 DEF Tick, TimeMayPass
  <2>2. ASSUME NEW w \in Workers, BeginCycle(w) PROVE LeaseTypeOK'
    BY <2>2 DEF BeginCycle
  <2>3. ASSUME NEW w \in Workers, NEW i \in Imports, Claim(w, i)
        PROVE  LeaseTypeOK'
    BY <2>3 DEF Claim, NewLease
  <2>4. ASSUME NEW w \in Workers, Renew(w) PROVE LeaseTypeOK'
    BY <2>4 DEF Renew, NewLease
  <2>5. ASSUME NEW w \in Workers, Settle(w) PROVE LeaseTypeOK'
    BY <2>5 DEF Settle
  <2>6. ASSUME NEW w \in Workers, LetGo(w) PROVE LeaseTypeOK'
    BY <2>6 DEF LetGo
  <2>7. ASSUME NEW w \in Workers, EndCycle(w) PROVE LeaseTypeOK'
    BY <2>7 DEF EndCycle
  <2>8. CASE UNCHANGED leaseVars
    BY <2>8 DEF leaseVars
  <2>9. QED
    BY <2>1, <2>2, <2>3, <2>4, <2>5, <2>6, <2>7, <2>8 DEF LeaseNext
<1>3. QED
  BY <1>1, <1>2, PTL DEF LeaseSpec

-----------------------------------------------------------------------------
(***************************************************************************)
(* LeaseOutlivesCycle together with the types is inductive.  The two steps *)
(* that could break it are Claim, which takes an item from its owner, and  *)
(* Tick: the first is excluded because a lease that has lapsed belongs to  *)
(* a cycle that is over, the second by the watchdog.                       *)
(***************************************************************************)

\* An item that can be claimed is in no worker's hands.
LEMMA AvailableIsFree ==
  ASSUME LeaseTypeOK, LeaseOutlivesCycle, NEW i \in Imports, Available(i)
  PROVE  \A w \in Workers : job[w] # i
<1> SUFFICES ASSUME NEW w \in Workers, job[w] = i PROVE FALSE
  OBVIOUS
<1>1. job[w] # None
  BY LeaseAssumption
<1>2. owner[i] = w /\ running[w] /\ cycleStart[w] + Lease <= leaseUntil[i]
  BY <1>1 DEF LeaseOutlivesCycle
<1>3. leaseUntil[i] < now
  BY <1>2, LeaseAssumption DEF Available
<1>4. now <= cycleStart[w] + CycleTimeout + Grace
  BY <1>2 DEF LeaseOutlivesCycle, Deadline
<1>5. QED
  BY <1>2, <1>3, <1>4, LeaseAssumption DEF LeaseTypeOK

\* LeaseOutlivesCycle through any step.
LEMMA LeaseOutlivesCycleStep ==
  ASSUME LeaseTypeOK, LeaseTypeOK', LeaseOutlivesCycle, [LeaseNext]_leaseVars
  PROVE  LeaseOutlivesCycle'
<1> USE LeaseAssumption DEF LeaseTypeOK, LeaseOutlivesCycle, Deadline, itemVars
<1>1. CASE Tick
  BY <1>1 DEF Tick, TimeMayPass
<1>2. ASSUME NEW w \in Workers, BeginCycle(w) PROVE LeaseOutlivesCycle'
  BY <1>2 DEF BeginCycle
<1>3. ASSUME NEW w \in Workers, NEW i \in Imports, Claim(w, i)
      PROVE  LeaseOutlivesCycle'
  <2>1. \A v \in Workers : job[v] # i
    BY <1>3, AvailableIsFree DEF Claim
  <2>2. ASSUME NEW v \in Workers, v # w, job[v] # None
        PROVE  owner'[job'[v]] = owner[job[v]] /\ leaseUntil'[job'[v]] = leaseUntil[job[v]]
    BY <1>3, <2>1, <2>2 DEF Claim
  <2>3. ~finished[i]
    BY <1>3 DEF Claim, Available
  <2>4. owner'[i] = w /\ leaseUntil'[i] = now + Lease /\ job'[w] = i
    BY <1>3 DEF Claim, NewLease
  <2>5. QED
    BY <1>3, <2>2, <2>3, <2>4 DEF Claim
<1>4. ASSUME NEW w \in Workers, Renew(w) PROVE LeaseOutlivesCycle'
  <2>1. job[w] \in Imports /\ leaseUntil'[job[w]] = now + Lease
    BY <1>4 DEF Renew, NewLease
  <2>2. \A v \in Workers : v # w /\ job[v] # None => job[v] # job[w]
    BY <1>4 DEF Renew
  <2>3. QED
    BY <1>4, <2>1, <2>2 DEF Renew, NewLease
<1>5. ASSUME NEW w \in Workers, Settle(w) PROVE LeaseOutlivesCycle'
  <2>1. \A v \in Workers : v # w /\ job[v] # None => job[v] # job[w]
    BY <1>5 DEF Settle
  <2>2. QED
    BY <1>5, <2>1 DEF Settle
<1>6. ASSUME NEW w \in Workers, LetGo(w) PROVE LeaseOutlivesCycle'
  BY <1>6 DEF LetGo
<1>7. ASSUME NEW w \in Workers, EndCycle(w) PROVE LeaseOutlivesCycle'
  BY <1>7 DEF EndCycle
<1>8. CASE UNCHANGED leaseVars
  BY <1>8 DEF leaseVars
<1>9. QED
  BY <1>1, <1>2, <1>3, <1>4, <1>5, <1>6, <1>7, <1>8 DEF LeaseNext

(***************************************************************************)
(* A lease always outlives the cycle of the worker that holds it.          *)
(***************************************************************************)
THEOREM LeaseAlwaysOutlivesCycle == LeaseSpec => []LeaseOutlivesCycle
<1>1. LeaseInit => LeaseOutlivesCycle
  BY DEF LeaseInit, LeaseOutlivesCycle
<1>2. LeaseTypeOK /\ LeaseTypeOK' /\ LeaseOutlivesCycle /\ [LeaseNext]_leaseVars
        => LeaseOutlivesCycle'
  BY LeaseOutlivesCycleStep
<1>3. QED
  BY <1>1, <1>2, TypeCorrect, PTL DEF LeaseSpec

(***************************************************************************)
(* A busy worker has an unexpired lease on its item.                       *)
(***************************************************************************)
THEOREM LeaseAlwaysCoversWork == LeaseSpec => []LeaseCoversWork
<1>1. LeaseTypeOK /\ LeaseOutlivesCycle => LeaseCoversWork
  <2> SUFFICES ASSUME LeaseTypeOK, LeaseOutlivesCycle,
                      NEW w \in Workers, job[w] # None
               PROVE  owner[job[w]] = w /\ now <= leaseUntil[job[w]]
    BY DEF LeaseCoversWork
  <2>1. running[w] /\ owner[job[w]] = w
        /\ cycleStart[w] + Lease <= leaseUntil[job[w]]
    BY DEF LeaseOutlivesCycle
  <2>2. now <= cycleStart[w] + CycleTimeout + Grace
    BY <2>1 DEF LeaseOutlivesCycle, Deadline
  <2>3. job[w] \in Imports
    BY DEF LeaseTypeOK
  <2>4. QED
    BY <2>1, <2>2, <2>3, LeaseAssumption DEF LeaseTypeOK
<1>2. QED
  BY <1>1, TypeCorrect, LeaseAlwaysOutlivesCycle, PTL

(***************************************************************************)
(* No two workers are ever busy with one item.                             *)
(***************************************************************************)
THEOREM AlwaysOneWorkerPerItem == LeaseSpec => []OneWorkerPerItem
<1>1. LeaseCoversWork => OneWorkerPerItem
  BY DEF LeaseCoversWork, OneWorkerPerItem
<1>2. QED
  BY <1>1, LeaseAlwaysCoversWork, PTL
=============================================================================
