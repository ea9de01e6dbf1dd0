---------------------------- MODULE DurableQueue ----------------------------
(***************************************************************************)
(* What the normalization columns of import_jobs promise, whoever writes   *)
(* them: a durable queue of leased items.  An item is offered once, is     *)
(* held by one worker at a time, goes from one holder to another only when *)
(* its lease has lapsed or the holder gave it back, and once it is done or  *)
(* dead nothing happens to it any more.                                    *)
(***************************************************************************)
CONSTANTS Items, Holders, Nobody

VARIABLES
  phase,   \* where each item stands
  holder,  \* who holds it
  lapsed   \* its lease has run out

vars == <<phase, holder, lapsed>>

Phase == {"out", "ready", "held", "done", "dead"}

Init ==
  /\ phase = [i \in Items |-> "out"]
  /\ holder = [i \in Items |-> Nobody]
  /\ lapsed = [i \in Items |-> FALSE]

Offer(i) ==
  /\ phase[i] = "out"
  /\ phase' = [phase EXCEPT ![i] = "ready"]
  /\ UNCHANGED <<holder, lapsed>>

Take(i, h) ==
  /\ phase[i] = "ready" \/ (phase[i] = "held" /\ lapsed[i])
  /\ phase' = [phase EXCEPT ![i] = "held"]
  /\ holder' = [holder EXCEPT ![i] = h]
  /\ lapsed' = [lapsed EXCEPT ![i] = FALSE]

Renew(i) ==
  /\ phase[i] = "held"
  /\ lapsed' = [lapsed EXCEPT ![i] = FALSE]
  /\ UNCHANGED <<phase, holder>>

Lapse(i) ==
  /\ phase[i] = "held"
  /\ lapsed' = [lapsed EXCEPT ![i] = TRUE]
  /\ UNCHANGED <<phase, holder>>

Settle(i, p) ==
  /\ phase[i] = "held"
  /\ phase' = [phase EXCEPT ![i] = p]
  /\ holder' = [holder EXCEPT ![i] = Nobody]
  /\ lapsed' = [lapsed EXCEPT ![i] = FALSE]

Next ==
  \E i \in Items :
    \/ Offer(i)
    \/ \E h \in Holders : Take(i, h)
    \/ Renew(i)
    \/ Lapse(i)
    \/ \E p \in {"ready", "done", "dead"} : Settle(i, p)

Spec == Init /\ [][Next]_vars
=============================================================================
