----------------------------- MODULE WorkerLease -----------------------------
(***************************************************************************)
(* The clock of the durable worker.  NormalizationWorker lets a lease      *)
(* lapse at any moment; here the moments are those of the program: a claim *)
(* and every renew set normalization_lease_until to Lease seconds from     *)
(* now, every cycle of a worker runs under a watchdog, and a claim is      *)
(* taken over only when its lease_until is in the past.                    *)
(*                                                                         *)
(* The worker and MySQL are taken to see the same flow of time: a machine  *)
(* that is suspended, so that its timers stand still while the lease runs  *)
(* out, is the fault LapsesUnderWorker of NormalizationWorker.             *)
(***************************************************************************)
EXTENDS Naturals

CONSTANTS
  Workers,       \* worker processes
  Imports,       \* jobs waiting for normalization
  None,          \* no item, no owner
  Lease,         \* WORKER_NORMALIZATION_LEASE_SECONDS
  CycleTimeout,  \* WORKER_CYCLE_TIMEOUT_SECONDS
  Grace,         \* what the watchdog leaves its onTimeout before it exits
  Horizon        \* bound on the clock, for TLC only

(***************************************************************************)
(* The deployment guide asks for CycleTimeout < Lease; the environment's   *)
(* schema accepts any two numbers.                                         *)
(***************************************************************************)
ASSUME LeaseAssumption ==
  /\ Lease \in Nat /\ CycleTimeout \in Nat /\ Grace \in Nat /\ Horizon \in Nat
  /\ CycleTimeout + Grace <= Lease
  /\ None \notin Workers \cup Imports

VARIABLES
  now,         \* the time, in seconds
  running,     \* the worker is in a cycle
  cycleStart,  \* when its current, or last, cycle began
  job,         \* the item it holds in memory, from claimNext to the end
  owner,       \* normalization_owner
  leaseUntil,  \* normalization_lease_until, meaningful while owned
  finished     \* normalized_at is set, or normalization_state is FAILED

leaseVars == <<now, running, cycleStart, job, owner, leaseUntil, finished>>
itemVars == <<owner, leaseUntil, finished>>

\* Times are never negative, and owners and items are what they name.
LeaseTypeOK ==
  /\ now \in Nat
  /\ running \in [Workers -> BOOLEAN]
  /\ cycleStart \in [Workers -> Nat]
  /\ job \in [Workers -> Imports \cup {None}]
  /\ owner \in [Imports -> Workers \cup {None}]
  /\ leaseUntil \in [Imports -> Nat]
  /\ finished \in [Imports -> BOOLEAN]

LeaseInit ==
  /\ now = 0
  /\ running = [w \in Workers |-> FALSE]
  /\ cycleStart = [w \in Workers |-> 0]
  /\ job = [w \in Workers |-> None]
  /\ owner = [i \in Imports |-> None]
  /\ leaseUntil = [i \in Imports |-> 0]
  /\ finished = [i \in Imports |-> FALSE]

-----------------------------------------------------------------------------

\* The loop of main starts the watchdog, and then the cycle.
BeginCycle(w) ==
  /\ ~running[w]
  /\ running' = [running EXCEPT ![w] = TRUE]
  /\ cycleStart' = [cycleStart EXCEPT ![w] = now]
  /\ UNCHANGED <<now, job, itemVars>>

\* The row is in the queue, or its lease is in the past.
Available(i) ==
  /\ ~finished[i]
  /\ owner[i] = None \/ leaseUntil[i] < now

\* DATE_ADD(UTC_TIMESTAMP(), INTERVAL lease SECOND).
NewLease == now + Lease

(***************************************************************************)
(* claimNext's UPDATE repeats the conditions of its SELECT, so the claim   *)
(* is decided there, in one statement.                                     *)
(***************************************************************************)
Claim(w, i) ==
  /\ running[w] /\ job[w] = None
  /\ Available(i)
  /\ job' = [job EXCEPT ![w] = i]
  /\ owner' = [owner EXCEPT ![i] = w]
  /\ leaseUntil' = [leaseUntil EXCEPT ![i] = NewLease]
  /\ UNCHANGED <<now, running, cycleStart, finished>>

\* renew after each payslip, while the row is still this worker's.
Renew(w) ==
  /\ job[w] # None
  /\ owner[job[w]] = w
  /\ leaseUntil' = [leaseUntil EXCEPT ![job[w]] = NewLease]
  /\ UNCHANGED <<now, running, cycleStart, job, owner, finished>>

\* complete or fail: the row leaves the claim, for good or for another try.
Settle(w) ==
  /\ job[w] # None
  /\ owner[job[w]] = w
  /\ owner' = [owner EXCEPT ![job[w]] = None]
  /\ \E end \in BOOLEAN : finished' = [finished EXCEPT ![job[w]] = end]
  /\ job' = [job EXCEPT ![w] = None]
  /\ UNCHANGED <<now, running, cycleStart, leaseUntil>>

\* fail did not reach the database, or the row was no longer this worker's.
LetGo(w) ==
  /\ job[w] # None
  /\ job' = [job EXCEPT ![w] = None]
  /\ UNCHANGED <<now, running, cycleStart, itemVars>>

(***************************************************************************)
(* The cycle ends between two jobs, or because a heartbeat threw right     *)
(* after a claim; or the process dies, by itself or by its watchdog.  In   *)
(* every case the worker forgets the item and the row keeps its claim.     *)
(***************************************************************************)
EndCycle(w) ==
  /\ running[w]
  /\ running' = [running EXCEPT ![w] = FALSE]
  /\ job' = [job EXCEPT ![w] = None]
  /\ UNCHANGED <<now, cycleStart, itemVars>>

\* When the watchdog of a cycle has ended the process at the latest.
Deadline(w) == cycleStart[w] + CycleTimeout + Grace

\* Mutant: the watchdog is cleared before the cycle is over.
TimePassesUnwatched == now < Horizon

\* The watchdog lets no cycle live past its deadline.
TimeMayPass ==
  /\ now < Horizon
  /\ \A w \in Workers : running[w] => now < Deadline(w)

Tick ==
  /\ TimeMayPass
  /\ now' = now + 1
  /\ UNCHANGED <<running, cycleStart, job, itemVars>>

LeaseNext ==
  \/ Tick
  \/ \E w \in Workers :
       \/ BeginCycle(w)
       \/ \E i \in Imports : Claim(w, i)
       \/ Renew(w)
       \/ Settle(w)
       \/ LetGo(w)
       \/ EndCycle(w)

LeaseSpec == LeaseInit /\ [][LeaseNext]_leaseVars

-----------------------------------------------------------------------------
(***************************************************************************)
(* A worker that is busy with an item has an unexpired lease on it: what   *)
(* a lease promises needs no check by the worker, because its watchdog     *)
(* ends it first.                                                          *)
(***************************************************************************)
LeaseCoversWork ==
  \A w \in Workers :
    job[w] # None => owner[job[w]] = w /\ now <= leaseUntil[job[w]]

(***************************************************************************)
(* No two workers are busy with one item, although nothing they do in a    *)
(* payslip's transaction looks at the claim.                               *)
(***************************************************************************)
OneWorkerPerItem ==
  \A v, w \in Workers : job[v] # None /\ job[v] = job[w] => v = w

(***************************************************************************)
(* Why: the lease was set within the cycle the worker is in, and the cycle *)
(* ends sooner than that lease.                                            *)
(***************************************************************************)
LeaseOutlivesCycle ==
  \A w \in Workers :
    /\ running[w] => cycleStart[w] <= now /\ now <= Deadline(w)
    /\ job[w] # None => /\ running[w]
                        /\ owner[job[w]] = w
                        /\ ~finished[job[w]]
                        /\ cycleStart[w] + Lease <= leaseUntil[job[w]]
=============================================================================
