----------------------------- MODULE SignedPayslip -----------------------------
(***************************************************************************)
(* What the documents of one payslip promise, whoever writes them: its     *)
(* versions follow one another, a version is signed at most once and for   *)
(* good, a version that was signed while it was the latest has no          *)
(* successor, and the payslip is erased only while no version is signed.   *)
(***************************************************************************)
EXTENDS Naturals

CONSTANTS MaxVersions, Signers, None

VARIABLES
  latest,    \* the number of the latest version, 0 when there is none
  signature  \* who signed each version

vars == <<latest, signature>>

Versions == 1 .. MaxVersions

\* A payslip may have a version from before.
Init ==
  /\ latest \in {0, 1} /\ latest <= MaxVersions
  /\ signature = [v \in Versions |-> None]

Supersede ==
  /\ latest < MaxVersions
  /\ latest # 0 => signature[latest] = None
  /\ latest' = latest + 1
  /\ UNCHANGED signature

Sign(v, g) ==
  /\ v \in 1 .. latest
  /\ signature[v] = None
  /\ signature' = [signature EXCEPT ![v] = g]
  /\ UNCHANGED latest

Erase ==
  /\ \A v \in Versions : signature[v] = None
  /\ latest' = 0
  /\ UNCHANGED signature

Next ==
  \/ Supersede
  \/ \E v \in Versions, g \in Signers : Sign(v, g)
  \/ Erase

Spec == Init /\ [][Next]_vars
=============================================================================
