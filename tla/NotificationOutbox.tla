-------------------------- MODULE NotificationOutbox --------------------------
(***************************************************************************)
(* The outbox of push notifications.  notifyRecipient writes a             *)
(* notification and its row of the outbox in one transaction; the workers  *)
(* dispatch the rows: claim, push to every device of the recipient, settle *)
(* the row.  A push cannot be taken back and a row is settled after it, so *)
(* a device may be reached twice; what is promised is that it is reached   *)
(* at least once, or that the worker has tried often enough.               *)
(***************************************************************************)
EXTENDS Naturals

CONSTANTS
  Notices,          \* notifications of one recipient, by dedup_key
  Devices,          \* the recipient's devices: push_subscriptions
  Dispatchers,      \* worker processes
  MaxPushAttempts,  \* 5: a row is FAILED from then on
  MaxStops          \* bound on the deaths and the suspensions of workers

ASSUME OutboxAssumption == MaxPushAttempts \in Nat \ {0} /\ MaxStops \in Nat

VARIABLES
  pushEnabled,  \* the API and the worker have VAPID keys
  subscribed,   \* the devices with a subscription
  allowed,      \* push_preferences of the recipient, for the category
  outbox,       \* notification_outbox
  reached,      \* the devices that have got the notification
  owed,         \* devices subscribed, and allowed, since it was raised
  dispatcher,   \* a worker inside dispatch
  stops         \* deaths left

outboxVars ==
  <<pushEnabled, subscribed, allowed, outbox, reached, owed, dispatcher, stops>>

NoRow == [status |-> "ABSENT", attempts |-> 0, owner |-> {}, early |-> FALSE]
AtRest == [at |-> "idle", notice |-> {}, attempt |-> 0]

\* Rows, subscriptions and memories hold what their names say.
OutboxTypeOK ==
  /\ pushEnabled \in BOOLEAN /\ allowed \in BOOLEAN
  /\ subscribed \subseteq Devices
  /\ outbox \in [Notices ->
       [status : {"ABSENT", "INBOX", "PENDING", "CLAIMED", "SENT", "FAILED"},
        attempts : Nat, owner : SUBSET Dispatchers, early : BOOLEAN]]
  /\ reached \in [Notices -> SUBSET Devices]
  /\ owed \in [Notices -> SUBSET Devices]
  /\ dispatcher \in [Dispatchers ->
       [at : {"idle", "claim", "push", "sent", "retry"},
        notice : SUBSET Notices, attempt : Nat]]
  /\ stops \in 0 .. MaxStops

OutboxInit ==
  /\ pushEnabled \in BOOLEAN
  /\ subscribed = Devices
  /\ allowed = TRUE
  /\ outbox = [n \in Notices |-> NoRow]
  /\ reached = [n \in Notices |-> {}]
  /\ owed = [n \in Notices |-> {}]
  /\ dispatcher = [d \in Dispatchers |-> AtRest]
  /\ stops = MaxStops

-----------------------------------------------------------------------------
(* The recipient and the rest of the program.                              *)

(***************************************************************************)
(* notifyRecipient.  INSERT IGNORE by the dedup_key: a notice that exists  *)
(* is not raised again.  Without VAPID keys it is in the inbox only.       *)
(***************************************************************************)
Raise(n) ==
  /\ outbox[n].status = "ABSENT"
  /\ outbox' = [outbox EXCEPT ![n].status =
                  IF pushEnabled THEN "PENDING" ELSE "INBOX"]
  /\ owed' = [owed EXCEPT ![n] =
                IF pushEnabled /\ allowed THEN subscribed ELSE {}]
  /\ UNCHANGED <<pushEnabled, subscribed, allowed, reached, dispatcher, stops>>

\* subscribe is an upsert by the hash of the endpoint.
Subscribe(d) ==
  /\ subscribed' = subscribed \cup {d}
  /\ UNCHANGED <<pushEnabled, allowed, outbox, reached, owed, dispatcher, stops>>

Unsubscribe(d) ==
  /\ subscribed' = subscribed \ {d}
  /\ owed' = [n \in Notices |-> owed[n] \ {d}]
  /\ UNCHANGED <<pushEnabled, allowed, outbox, reached, dispatcher, stops>>

UpdatePreference ==
  /\ allowed' = ~allowed
  /\ owed' = [n \in Notices |-> {}]
  /\ UNCHANGED <<pushEnabled, subscribed, outbox, reached, dispatcher, stops>>

(***************************************************************************)
(* next_attempt_at, or lease_until, has come.  A push gives up after ten   *)
(* seconds and the lease is of 120: it runs out under a worker only if     *)
(* that one stands still, and no worker does so without end.               *)
(***************************************************************************)
RowRipens(n) ==
  /\ outbox[n].early
  /\ \A d \in outbox[n].owner : dispatcher[d].notice # {n}
  /\ outbox' = [outbox EXCEPT ![n].early = FALSE]
  /\ UNCHANGED <<pushEnabled, subscribed, allowed, reached, owed, dispatcher, stops>>

LeaseRunsOut(n) ==
  /\ outbox[n].early
  /\ \E d \in outbox[n].owner : dispatcher[d].notice = {n}
  /\ stops > 0
  /\ stops' = stops - 1
  /\ outbox' = [outbox EXCEPT ![n].early = FALSE]
  /\ UNCHANGED <<pushEnabled, subscribed, allowed, reached, owed, dispatcher>>

-----------------------------------------------------------------------------
(* dispatch.                                                               *)

\* Mutant: the row of a worker that died is left to it.
RipeIfPending(n) == outbox[n].status = "PENDING" /\ ~outbox[n].early

Ripe(n) == outbox[n].status \in {"PENDING", "CLAIMED"} /\ ~outbox[n].early
Dispatching(d, place, n) ==
  dispatcher[d].at = place /\ dispatcher[d].notice = {n}
Owned(d, n) == outbox[n].status = "CLAIMED" /\ outbox[n].owner = {d}
Rest(d) == dispatcher' = [dispatcher EXCEPT ![d] = AtRest]

\* The SELECT, which also reads the attempts so far.
SelectRow(d, n) ==
  /\ dispatcher[d].at = "idle"
  /\ Ripe(n)
  /\ dispatcher' = [dispatcher EXCEPT
       ![d] = [at |-> "claim", notice |-> {n}, attempt |-> outbox[n].attempts + 1]]
  /\ UNCHANGED <<pushEnabled, subscribed, allowed, outbox, reached, owed, stops>>

ClaimRow(d, n) ==
  /\ Dispatching(d, "claim", n)
  /\ IF Ripe(n)
     THEN /\ outbox' = [outbox EXCEPT ![n] =
                          [status |-> "CLAIMED", attempts |-> @.attempts + 1,
                           owner |-> {d}, early |-> TRUE]]
          /\ dispatcher' = [dispatcher EXCEPT ![d].at = "push"]
     ELSE Rest(d) /\ UNCHANGED outbox
  /\ UNCHANGED <<pushEnabled, subscribed, allowed, reached, owed, stops>>

Answers == {"accepted", "gone", "rejected", "lost"}
With(answer, kinds) == {d \in DOMAIN answer : answer[d] \in kinds}

\* Mutant: one device that accepts is enough.
SettledIfAnyAccepts(answer) ==
  IF With(answer, {"accepted"}) # {} THEN "sent" ELSE "retry"

\* sendPush throws if any device rejected.
Settled(answer) ==
  IF With(answer, {"rejected", "lost"}) = {} THEN "sent" ELSE "retry"

(***************************************************************************)
(* deliverStored.  Each device accepts, is gone (404 or 410: its           *)
(* subscription is deleted) or rejects; a device whose answer is lost, or  *)
(* whose row is not updated, has got the push and counts as rejecting.     *)
(***************************************************************************)
Push(d, n) ==
  /\ Dispatching(d, "push", n)
  /\ \E answer \in [(IF allowed THEN subscribed ELSE {}) -> Answers] :
       LET gone == With(answer, {"gone"}) IN
       /\ reached' = [reached EXCEPT ![n] = @ \cup With(answer, {"accepted", "lost"})]
       /\ subscribed' = subscribed \ gone
       /\ owed' = [m \in Notices |-> owed[m] \ gone]
       /\ dispatcher' = [dispatcher EXCEPT ![d].at = Settled(answer)]
  /\ UNCHANGED <<pushEnabled, allowed, outbox, stops>>

(***************************************************************************)
(* UPDATE ... SET status='SENT' WHERE owner=? AND status='CLAIMED'.  Its   *)
(* answer may be lost, which ends in the catch.                            *)
(***************************************************************************)
MarkSent(d, n) ==
  /\ Dispatching(d, "sent", n)
  /\ \E done \in BOOLEAN :
       /\ outbox' = IF done /\ Owned(d, n)
                    THEN [outbox EXCEPT ![n].status = "SENT", ![n].owner = {}]
                    ELSE outbox
       /\ \/ done /\ Rest(d)
          \/ dispatcher' = [dispatcher EXCEPT ![d].at = "retry"]
  /\ UNCHANGED <<pushEnabled, subscribed, allowed, reached, owed, stops>>

\* Mutant: the last attempt is counted before it is made.
TerminalTooEarly(attempt) == attempt + 1 >= MaxPushAttempts

\* Decided from the attempts that the SELECT read.
Terminal(attempt) == attempt >= MaxPushAttempts

\* The catch: FAILED, or PENDING again after 1, 5, 15 or 60 minutes.
MarkRetry(d, n) ==
  /\ Dispatching(d, "retry", n)
  /\ outbox' =
       IF ~Owned(d, n) THEN outbox
       ELSE IF Terminal(dispatcher[d].attempt)
       THEN [outbox EXCEPT ![n].status = "FAILED", ![n].owner = {}]
       ELSE [outbox EXCEPT ![n].status = "PENDING", ![n].owner = {},
                           ![n].early = TRUE]
  /\ Rest(d)
  /\ UNCHANGED <<pushEnabled, subscribed, allowed, reached, owed, stops>>

\* The worker dies, or a statement outside the try, or in the catch, throws.
Stop(d) ==
  /\ dispatcher[d].at # "idle"
  /\ stops > 0
  /\ stops' = stops - 1
  /\ Rest(d)
  /\ UNCHANGED <<pushEnabled, subscribed, allowed, outbox, reached, owed>>

DispatchStep(d) ==
  \E n \in Notices :
    \/ SelectRow(d, n) \/ ClaimRow(d, n) \/ Push(d, n)
    \/ MarkSent(d, n) \/ MarkRetry(d, n)

OutboxNext ==
  \/ \E n \in Notices : Raise(n) \/ RowRipens(n) \/ LeaseRunsOut(n)
  \/ \E d \in Devices : Subscribe(d) \/ Unsubscribe(d)
  \/ UpdatePreference
  \/ \E d \in Dispatchers : DispatchStep(d) \/ Stop(d)

\* Time passes, and each worker's loop goes on.
OutboxFairness ==
  /\ \A n \in Notices : WF_outboxVars(RowRipens(n))
  /\ \A d \in Dispatchers : WF_outboxVars(DispatchStep(d))

OutboxSpec == OutboxInit /\ [][OutboxNext]_outboxVars /\ OutboxFairness

-----------------------------------------------------------------------------
(***************************************************************************)
(* A notification that is SENT has reached every device that was           *)
(* subscribed, and wanted it, from the moment it was raised: although the  *)
(* devices answer one by one, and a worker may settle the row for another  *)
(* that died after it had pushed to some of them.                          *)
(***************************************************************************)
SentReachedAll ==
  \A n \in Notices : outbox[n].status = "SENT" => owed[n] \subseteq reached[n]

(***************************************************************************)
(* No notification is given up before MaxPushAttempts claims, although the *)
(* attempt that decides was counted before the claim and by one worker.    *)
(***************************************************************************)
GivenUpLate ==
  \A n \in Notices :
    outbox[n].status = "FAILED" => outbox[n].attempts >= MaxPushAttempts

(***************************************************************************)
(* Every notification that is waiting is sent or given up: rejections are  *)
(* counted, and the claim of a worker that died runs out.                  *)
(***************************************************************************)
PushSettles ==
  \A n \in Notices :
    outbox[n].status \in {"PENDING", "CLAIMED"}
      ~> outbox[n].status \in {"SENT", "FAILED"}
=============================================================================
