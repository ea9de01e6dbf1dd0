------------------------- MODULE BackgroundWorkProofs -------------------------
(***************************************************************************)
(* Theorems about what works by itself: the outbox of the notifications,   *)
(* for any number of notices, devices, workers and attempts; the runs that *)
(* schedules start, for any number of executions and of workers; the       *)
(* schedules of a group, for any times of the day and any weekdays; the    *)
(* import jobs of the earlier API tree; and that all that works in the     *)
(* background, collection, migrations and leases included, keeps to its    *)
(* type.                                                                   *)
(***************************************************************************)
EXTENDS MCBackgroundWork, CollectionProofs, SchemaMigrationsProofs,
        WorkerLeaseProofs, FiniteSetTheorems, WellFoundedInduction, TLAPS

-----------------------------------------------------------------------------
(***************************************************************************)
(* The outbox.                                                             *)
(***************************************************************************)

\* What is owed goes to devices that a push reaches.
OwedIsDeliverable ==
  \A n \in Notices : owed[n] \subseteq IF allowed THEN subscribed ELSE {}

\* A worker has a row, which knows of more attempts than the worker's own once
\* it has claimed it; and it marks as sent what has reached its devices.
DispatchersHold ==
  \A d \in Dispatchers, n \in Notices : dispatcher[d].notice = {n} =>
    /\ outbox[n].status # "ABSENT"
    /\ dispatcher[d].attempt <= outbox[n].attempts + 1
    /\ dispatcher[d].at \in {"push", "sent", "retry"} =>
         dispatcher[d].attempt <= outbox[n].attempts
    /\ dispatcher[d].at = "sent" => owed[n] \subseteq reached[n]

OutboxInv ==
  /\ OutboxTypeOK
  /\ OwedIsDeliverable
  /\ DispatchersHold
  /\ SentReachedAll
  /\ GivenUpLate

\* A worker goes from place to place with its row, or has none.
LEMMA DispatcherMoved ==
  ASSUME OutboxTypeOK, NEW d \in Dispatchers,
         NEW place \in {"idle", "claim", "push", "sent", "retry"},
         \/ dispatcher' = [dispatcher EXCEPT ![d].at = place]
         \/ place = "idle" /\ Rest(d)
  PROVE  /\ dispatcher' \in [Dispatchers ->
              [at : {"idle", "claim", "push", "sent", "retry"},
               notice : SUBSET Notices, attempt : Nat]]
         /\ dispatcher'[d].at = place
         /\ \/ dispatcher'[d].notice = {}
            \/ /\ dispatcher'[d].notice = dispatcher[d].notice
               /\ dispatcher'[d].attempt = dispatcher[d].attempt
         /\ \A e \in Dispatchers : e # d => dispatcher'[e] = dispatcher[e]
<1>1. AtRest \in [at : {"idle", "claim", "push", "sent", "retry"},
                 notice : SUBSET Notices, attempt : Nat]
  BY DEF AtRest
<1>2. CASE place = "idle" /\ Rest(d)
  BY <1>1, <1>2 DEF Rest, OutboxTypeOK, AtRest
<1>3. CASE dispatcher' = [dispatcher EXCEPT ![d].at = place]
  BY <1>3 DEF OutboxTypeOK
<1>4. QED
  BY <1>2, <1>3

OutboxRow ==
  [status : {"ABSENT", "INBOX", "PENDING", "CLAIMED", "SENT", "FAILED"},
   attempts : Nat, owner : SUBSET Dispatchers, early : BOOLEAN]

\* Settling a row, or letting it ripen, leaves the count of its claims.
LEMMA RowSettled ==
  ASSUME NEW old \in [Notices -> OutboxRow], NEW new, NEW n \in Notices,
         \/ new = old
         \/ new = [old EXCEPT ![n].early = FALSE]
         \/ new = [old EXCEPT ![n].status = "SENT", ![n].owner = {}]
         \/ new = [old EXCEPT ![n].status = "FAILED", ![n].owner = {}]
         \/ new = [old EXCEPT ![n].status = "PENDING", ![n].owner = {},
                              ![n].early = TRUE]
  PROVE  /\ new \in [Notices -> OutboxRow]
         /\ new[n].attempts = old[n].attempts
         /\ \A m \in Notices : m # n => new[m] = old[m]
<1> USE DEF OutboxRow
<1>1. CASE new = old
  BY <1>1
<1>2. CASE new = [old EXCEPT ![n].early = FALSE]
  <2>1. new \in [Notices -> OutboxRow]
    BY <1>2
  <2>2. QED
    BY <1>2, <2>1
<1>3. CASE new = [old EXCEPT ![n].status = "SENT", ![n].owner = {}]
  <2>1. new \in [Notices -> OutboxRow]
    BY <1>3
  <2>2. QED
    BY <1>3, <2>1
<1>4. CASE new = [old EXCEPT ![n].status = "FAILED", ![n].owner = {}]
  <2>1. new \in [Notices -> OutboxRow]
    BY <1>4
  <2>2. QED
    BY <1>4, <2>1
<1>5. CASE new = [old EXCEPT ![n].status = "PENDING", ![n].owner = {},
                             ![n].early = TRUE]
  <2>1. new \in [Notices -> OutboxRow]
    BY <1>5
  <2>2. QED
    BY <1>5, <2>1
<1>6. QED
  BY <1>1, <1>2, <1>3, <1>4, <1>5

\* A claim counts, if the worker still finds the row ripe.
LEMMA RowClaimed ==
  ASSUME OutboxTypeOK, NEW d \in Dispatchers, NEW n \in Notices, ClaimRow(d, n)
  PROVE  /\ outbox' \in [Notices -> OutboxRow]
         /\ \A m \in Notices : m # n => outbox'[m] = outbox[m]
         /\ \/ /\ outbox'[n].status = "CLAIMED"
               /\ outbox'[n].attempts = outbox[n].attempts + 1
               /\ dispatcher' = [dispatcher EXCEPT ![d].at = "push"]
            \/ outbox' = outbox /\ Rest(d)
<1>1. outbox \in [Notices -> OutboxRow]
  BY DEF OutboxTypeOK, OutboxRow
<1>2. CASE Ripe(n)
  <2> DEFINE row == [status |-> "CLAIMED", attempts |-> outbox[n].attempts + 1,
                     owner |-> {d}, early |-> TRUE]
  <2>1. row \in OutboxRow
    BY <1>1 DEF OutboxRow
  <2>2. outbox' = [outbox EXCEPT ![n] = row]
    BY <1>2 DEF ClaimRow
  <2>3. dispatcher' = [dispatcher EXCEPT ![d].at = "push"]
    BY <1>2 DEF ClaimRow
  <2>4. QED
    BY <1>1, <2>1, <2>2, <2>3
<1>3. CASE ~Ripe(n)
  BY <1>1, <1>3 DEF ClaimRow
<1>4. QED
  BY <1>2, <1>3

\* Types through every step.
LEMMA OutboxTypesKept ==
  ASSUME OutboxTypeOK, [OutboxNext]_outboxVars PROVE OutboxTypeOK'
<1> USE OutboxAssumption DEF OutboxTypeOK, OutboxRow
<1>1. ASSUME NEW n \in Notices, Raise(n) PROVE OutboxTypeOK'
  BY <1>1 DEF Raise
<1>2. ASSUME NEW n \in Notices, RowRipens(n) \/ LeaseRunsOut(n) PROVE OutboxTypeOK'
  <2>1. outbox' = [outbox EXCEPT ![n].early = FALSE]
    BY <1>2 DEF RowRipens, LeaseRunsOut
  <2>2. outbox' \in [Notices -> OutboxRow]
    BY <2>1
  <2>3. QED
    BY <1>2, <2>2 DEF RowRipens, LeaseRunsOut
<1>3. ASSUME NEW d \in Devices, Subscribe(d) \/ Unsubscribe(d) PROVE OutboxTypeOK'
  BY <1>3 DEF Subscribe, Unsubscribe
<1>4. ASSUME UpdatePreference PROVE OutboxTypeOK'
  BY <1>4 DEF UpdatePreference
<1>5. ASSUME NEW d \in Dispatchers, NEW n \in Notices, SelectRow(d, n)
      PROVE  OutboxTypeOK'
  BY <1>5 DEF SelectRow
<1>6. ASSUME NEW d \in Dispatchers, NEW n \in Notices, ClaimRow(d, n)
      PROVE  OutboxTypeOK'
  <2>1. dispatcher' \in [Dispatchers ->
           [at : {"idle", "claim", "push", "sent", "retry"},
            notice : SUBSET Notices, attempt : Nat]]
    BY <1>6, RowClaimed, DispatcherMoved
  <2>2. QED
    BY <1>6, <2>1, RowClaimed DEF ClaimRow
<1>7. ASSUME NEW d \in Dispatchers, NEW n \in Notices, Push(d, n)
      PROVE  OutboxTypeOK'
  <2>1. PICK answer \in [(IF allowed THEN subscribed ELSE {}) -> Answers] :
          /\ reached' = [reached EXCEPT ![n] = @ \cup With(answer, {"accepted", "lost"})]
          /\ subscribed' = subscribed \ With(answer, {"gone"})
          /\ owed' = [m \in Notices |-> owed[m] \ With(answer, {"gone"})]
          /\ dispatcher' = [dispatcher EXCEPT ![d].at = Settled(answer)]
    BY <1>7 DEF Push
  <2>2. With(answer, {"accepted", "lost"}) \subseteq Devices
    BY <2>1 DEF With
  <2>3. Settled(answer) \in {"sent", "retry"}
    BY DEF Settled
  <2>4. QED
    BY <1>7, <2>1, <2>2, <2>3 DEF Push
<1>8. ASSUME NEW d \in Dispatchers, NEW n \in Notices, MarkSent(d, n)
      PROVE  OutboxTypeOK'
  <2>1. dispatcher' \in [Dispatchers ->
           [at : {"idle", "claim", "push", "sent", "retry"},
            notice : SUBSET Notices, attempt : Nat]]
    BY <1>8, DispatcherMoved DEF MarkSent
  <2>2. QED
    BY <1>8, <2>1, RowSettled DEF MarkSent
<1>9. ASSUME NEW d \in Dispatchers, NEW n \in Notices, MarkRetry(d, n)
      PROVE  OutboxTypeOK'
  BY <1>9, RowSettled, DispatcherMoved DEF MarkRetry
<1>10. ASSUME NEW d \in Dispatchers, Stop(d) PROVE OutboxTypeOK'
  BY <1>10, DispatcherMoved DEF Stop
<1>11. CASE UNCHANGED outboxVars
  BY <1>11 DEF outboxVars
<1>12. QED
  BY <1>1, <1>2, <1>3, <1>4, <1>5, <1>6, <1>7, <1>8, <1>9, <1>10, <1>11
     DEF OutboxNext, DispatchStep

\* A device that may be pushed to either has the notification, or is gone, or
\* keeps the row from being marked as sent.
LEMMA SettledPushReached ==
  ASSUME OutboxInv, NEW d \in Dispatchers, NEW n \in Notices, Push(d, n)
  PROVE  /\ dispatcher'[d].at \in {"sent", "retry"}
         /\ dispatcher'[d].at = "sent" => owed'[n] \subseteq reached'[n]
         /\ \A m \in Notices : owed'[m] \subseteq owed[m]
         /\ \A m \in Notices : reached[m] \subseteq reached'[m]
         /\ OwedIsDeliverable'
<1> USE DEF OutboxInv, OutboxTypeOK
<1> DEFINE to == IF allowed THEN subscribed ELSE {}
<1>1. PICK answer \in [to -> Answers] :
        /\ reached' = [reached EXCEPT ![n] = @ \cup With(answer, {"accepted", "lost"})]
        /\ subscribed' = subscribed \ With(answer, {"gone"})
        /\ owed' = [m \in Notices |-> owed[m] \ With(answer, {"gone"})]
        /\ dispatcher' = [dispatcher EXCEPT ![d].at = Settled(answer)]
  BY DEF Push
<1>2. \A m \in Notices : owed[m] \subseteq to
  BY DEF OwedIsDeliverable
<1>3. allowed' = allowed
  BY DEF Push
<1> HIDE DEF to
<1>4. \A c \in to : answer[c] \in Answers
  BY <1>1
<1>5. Settled(answer) = "sent" =>
        \A c \in to : \/ c \in With(answer, {"accepted", "lost"})
                      \/ c \in With(answer, {"gone"})
  BY <1>1, <1>4 DEF Settled, With, Answers
<1>6. dispatcher'[d].at = Settled(answer) /\ Settled(answer) \in {"sent", "retry"}
  BY <1>1 DEF Settled
<1>7. OwedIsDeliverable'
  BY <1>1, <1>2, <1>3 DEF OwedIsDeliverable, to
<1>8. QED
  BY <1>1, <1>2, <1>5, <1>6, <1>7

\* A step that leaves every notice's devices, its status unless it is claimed,
\* and its count, or adds to it, leaves what the others hold.
LEMMA HeldByOthers ==
  ASSUME OutboxInv, NEW e \in Dispatchers, dispatcher'[e] = dispatcher[e],
         \A m \in Notices : /\ outbox[m].status # "ABSENT" =>
                                outbox'[m].status # "ABSENT"
                            /\ outbox'[m].attempts >= outbox[m].attempts
                            /\ outbox'[m].attempts \in Nat
                            /\ outbox[m].status = "ABSENT"
                                 \/ owed'[m] \subseteq owed[m]
                            /\ reached[m] \subseteq reached'[m]
  PROVE  \A n \in Notices : dispatcher'[e].notice = {n} =>
           /\ outbox'[n].status # "ABSENT"
           /\ dispatcher'[e].attempt <= outbox'[n].attempts + 1
           /\ dispatcher'[e].at \in {"push", "sent", "retry"} =>
                dispatcher'[e].attempt <= outbox'[n].attempts
           /\ dispatcher'[e].at = "sent" => owed'[n] \subseteq reached'[n]
<1> SUFFICES ASSUME NEW n \in Notices, dispatcher[e].notice = {n}
             PROVE  /\ outbox'[n].status # "ABSENT"
                    /\ dispatcher[e].attempt <= outbox'[n].attempts + 1
                    /\ dispatcher[e].at \in {"push", "sent", "retry"} =>
                         dispatcher[e].attempt <= outbox'[n].attempts
                    /\ dispatcher[e].at = "sent" => owed'[n] \subseteq reached'[n]
  OBVIOUS
<1>1. dispatcher[e].attempt \in Nat /\ outbox[n].attempts \in Nat
  BY DEF OutboxInv, OutboxTypeOK
<1>2. QED
  BY <1>1 DEF OutboxInv, DispatchersHold

\* The invariant through every step.
LEMMA OutboxInvKept ==
  ASSUME OutboxInv, [OutboxNext]_outboxVars PROVE OutboxInv'
<1> USE DEF OutboxInv
<1> DEFINE Held(e) ==
      \A n \in Notices : dispatcher[e].notice = {n} =>
        /\ outbox[n].status # "ABSENT"
        /\ dispatcher[e].attempt <= outbox[n].attempts + 1
        /\ dispatcher[e].at \in {"push", "sent", "retry"} =>
             dispatcher[e].attempt <= outbox[n].attempts
        /\ dispatcher[e].at = "sent" => owed[n] \subseteq reached[n]
    Inv == OwedIsDeliverable /\ DispatchersHold /\ SentReachedAll /\ GivenUpLate
    Kept == \A m \in Notices :
              /\ outbox[m].status # "ABSENT" => outbox'[m].status # "ABSENT"
              /\ outbox'[m].attempts >= outbox[m].attempts
              /\ outbox'[m].attempts \in Nat
              /\ outbox[m].status = "ABSENT" \/ owed'[m] \subseteq owed[m]
              /\ reached[m] \subseteq reached'[m]
<1>1. OutboxTypeOK'
  BY OutboxTypesKept
<1>2. outbox \in [Notices -> OutboxRow]
  BY DEF OutboxTypeOK, OutboxRow
<1>3. \A m \in Notices : outbox[m].attempts \in Nat /\ outbox'[m].attempts \in Nat
  BY <1>1 DEF OutboxTypeOK
<1>4. ASSUME Kept, dispatcher' = dispatcher PROVE DispatchersHold'
  BY <1>4, HeldByOthers DEF DispatchersHold
<1>5. ASSUME Kept, NEW d \in Dispatchers, Held(d)',
             \A e \in Dispatchers : e # d => dispatcher'[e] = dispatcher[e]
      PROVE  DispatchersHold'
  BY <1>5, HeldByOthers DEF DispatchersHold
<1>6. ASSUME NEW n \in Notices, Raise(n) PROVE Inv'
  <2>1. /\ \A m \in Notices : m # n => outbox'[m] = outbox[m] /\ owed'[m] = owed[m]
        /\ outbox'[n].status \in {"PENDING", "INBOX"}
        /\ outbox'[n].attempts = outbox[n].attempts
        /\ outbox[n].status = "ABSENT"
        /\ UNCHANGED <<subscribed, allowed, reached, dispatcher>>
    BY <1>6, <1>2 DEF Raise, OutboxTypeOK, OutboxRow
  <2>2. owed'[n] \subseteq IF allowed THEN subscribed ELSE {}
    BY <1>6 DEF Raise, OutboxTypeOK
  <2>3. DispatchersHold'
    BY <1>3, <1>4, <2>1
  <2>4. QED
    BY <2>1, <2>2, <2>3 DEF OwedIsDeliverable, SentReachedAll, GivenUpLate
<1>7. ASSUME NEW n \in Notices, RowRipens(n) \/ LeaseRunsOut(n) PROVE Inv'
  <2>1. /\ \A m \in Notices : /\ outbox'[m].status = outbox[m].status
                              /\ outbox'[m].attempts = outbox[m].attempts
        /\ UNCHANGED <<subscribed, allowed, reached, owed, dispatcher>>
    BY <1>7, <1>2 DEF RowRipens, LeaseRunsOut, OutboxRow
  <2>2. DispatchersHold'
    BY <1>3, <1>4, <2>1
  <2>3. QED
    BY <2>1, <2>2 DEF OwedIsDeliverable, SentReachedAll, GivenUpLate
<1>8. ASSUME NEW d \in Devices, Subscribe(d) \/ Unsubscribe(d) PROVE Inv'
  <2>1. /\ UNCHANGED <<allowed, outbox, reached, dispatcher>>
        /\ \A m \in Notices : /\ owed'[m] \subseteq owed[m]
                              /\ owed'[m] \subseteq
                                   IF allowed THEN subscribed' ELSE {}
    BY <1>8 DEF Subscribe, Unsubscribe, OutboxTypeOK, OwedIsDeliverable
  <2>2. DispatchersHold'
    BY <1>3, <1>4, <2>1
  <2>3. QED
    BY <2>1, <2>2 DEF OwedIsDeliverable, SentReachedAll, GivenUpLate
<1>9. ASSUME UpdatePreference PROVE Inv'
  <2>1. /\ UNCHANGED <<outbox, reached, dispatcher>>
        /\ \A m \in Notices : owed'[m] = {}
    BY <1>9 DEF UpdatePreference
  <2>2. DispatchersHold'
    BY <1>3, <1>4, <2>1
  <2>3. QED
    BY <2>1, <2>2 DEF OwedIsDeliverable, SentReachedAll, GivenUpLate
<1>10. ASSUME NEW d \in Dispatchers, NEW n \in Notices, SelectRow(d, n) PROVE Inv'
  <2>1. /\ dispatcher'[d] =
             [at |-> "claim", notice |-> {n}, attempt |-> outbox[n].attempts + 1]
        /\ \A e \in Dispatchers : e # d => dispatcher'[e] = dispatcher[e]
        /\ outbox[n].status # "ABSENT"
        /\ UNCHANGED <<subscribed, allowed, outbox, reached, owed>>
    BY <1>10 DEF SelectRow, Ripe, OutboxTypeOK
  <2>2. Held(d)'
    BY <1>3, <2>1
  <2>3. DispatchersHold'
    BY <1>3, <1>5, <2>1, <2>2
  <2>4. QED
    BY <2>1, <2>3 DEF OwedIsDeliverable, SentReachedAll, GivenUpLate
<1>11. ASSUME NEW d \in Dispatchers, NEW n \in Notices, ClaimRow(d, n) PROVE Inv'
  <2>1. /\ dispatcher[d].notice = {n} /\ dispatcher[d].at = "claim"
        /\ UNCHANGED <<subscribed, allowed, reached, owed>>
    BY <1>11 DEF ClaimRow, Dispatching
  <2>2. dispatcher[d].attempt <= outbox[n].attempts + 1 /\ dispatcher[d].attempt \in Nat
    BY <2>1 DEF DispatchersHold, OutboxTypeOK
  <2>3. CASE outbox' = outbox /\ Rest(d)
    <3>1. /\ dispatcher'[d].notice = {}
          /\ \A e \in Dispatchers : e # d => dispatcher'[e] = dispatcher[e]
      BY <2>3 DEF Rest, AtRest, OutboxTypeOK
    <3>2. DispatchersHold'
      BY <1>3, <1>5, <2>1, <2>3, <3>1
    <3>3. QED
      BY <2>1, <2>3, <3>2 DEF OwedIsDeliverable, SentReachedAll, GivenUpLate
  <2>4. CASE /\ outbox'[n].status = "CLAIMED"
             /\ outbox'[n].attempts = outbox[n].attempts + 1
             /\ dispatcher' = [dispatcher EXCEPT ![d].at = "push"]
    <3>1. /\ dispatcher'[d].notice = {n} /\ dispatcher'[d].at = "push"
          /\ dispatcher'[d].attempt = dispatcher[d].attempt
          /\ \A e \in Dispatchers : e # d => dispatcher'[e] = dispatcher[e]
      BY <2>1, <2>4 DEF OutboxTypeOK
    <3>2. \A m \in Notices : m # n => outbox'[m] = outbox[m]
      BY <1>11, RowClaimed
    <3>3. Held(d)'
      BY <1>3, <2>2, <2>4, <3>1
    <3>4. Kept
      BY <1>3, <2>1, <2>4, <3>2
    <3>5. DispatchersHold'
      BY <1>5, <3>1, <3>3, <3>4
    <3>6. QED
      BY <2>1, <2>4, <3>2, <3>5 DEF OwedIsDeliverable, SentReachedAll, GivenUpLate
  <2>5. QED
    BY <1>11, <2>3, <2>4, RowClaimed
<1>12. ASSUME NEW d \in Dispatchers, NEW n \in Notices, Push(d, n) PROVE Inv'
  <2>1. /\ dispatcher[d].notice = {n} /\ dispatcher[d].at = "push"
        /\ outbox' = outbox
    BY <1>12 DEF Push, Dispatching
  <2>2. /\ dispatcher'[d].notice = {n}
        /\ dispatcher'[d].attempt = dispatcher[d].attempt
        /\ \A e \in Dispatchers : e # d => dispatcher'[e] = dispatcher[e]
    BY <1>12, <2>1 DEF Push, OutboxTypeOK
  <2>3. Held(d)'
    BY <1>12, <2>1, <2>2, SettledPushReached DEF DispatchersHold
  <2>4. Kept
    BY <1>3, <1>12, <2>1, SettledPushReached
  <2>5. DispatchersHold'
    BY <1>5, <2>2, <2>3, <2>4
  <2>6. QED
    BY <1>12, <2>1, <2>5, SettledPushReached DEF SentReachedAll, GivenUpLate
<1>13. ASSUME NEW d \in Dispatchers, NEW n \in Notices,
              MarkSent(d, n) \/ MarkRetry(d, n)
       PROVE  Inv'
  <2>1. /\ dispatcher[d].notice = {n} /\ dispatcher[d].at \in {"sent", "retry"}
        /\ UNCHANGED <<subscribed, allowed, reached, owed>>
    BY <1>13 DEF MarkSent, MarkRetry, Dispatching
  <2>2. /\ \A e \in Dispatchers : e # d => dispatcher'[e] = dispatcher[e]
        /\ \/ dispatcher'[d].notice = {}
           \/ /\ dispatcher'[d].notice = {n} /\ dispatcher'[d].at = "retry"
              /\ dispatcher'[d].attempt = dispatcher[d].attempt
    <3>1. CASE Rest(d)
      BY <3>1 DEF Rest, AtRest, OutboxTypeOK
    <3>2. CASE dispatcher' = [dispatcher EXCEPT ![d].at = "retry"]
      BY <2>1, <3>2, DispatcherMoved
    <3>3. QED
      BY <1>13, <3>1, <3>2 DEF MarkSent, MarkRetry
  <2>3. /\ \A m \in Notices : m # n => outbox'[m] = outbox[m]
        /\ outbox'[n].attempts = outbox[n].attempts
    <3>1. CASE MarkSent(d, n)
      BY <1>2, <3>1, RowSettled DEF MarkSent
    <3>2. CASE MarkRetry(d, n)
      <4>1. \/ outbox' = outbox
            \/ outbox' = [outbox EXCEPT ![n].status = "FAILED", ![n].owner = {}]
            \/ outbox' = [outbox EXCEPT ![n].status = "PENDING", ![n].owner = {},
                                       ![n].early = TRUE]
        BY <3>2 DEF MarkRetry
      <4>2. CASE outbox' = [outbox EXCEPT ![n].status = "FAILED", ![n].owner = {}]
        BY <1>2, <4>2 DEF OutboxRow
      <4>3. CASE outbox' = [outbox EXCEPT ![n].status = "PENDING", ![n].owner = {},
                                          ![n].early = TRUE]
        BY <1>2, <4>3 DEF OutboxRow
      <4>4. QED
        BY <4>1, <4>2, <4>3
    <3>3. QED
      BY <1>13, <3>1, <3>2
  <2>4. \/ outbox' = outbox
        \/ outbox'[n].status = "SENT" /\ dispatcher[d].at = "sent"
        \/ outbox'[n].status = "FAILED" /\ Terminal(dispatcher[d].attempt)
        \/ outbox'[n].status = "PENDING"
    BY <1>13, <1>2 DEF MarkSent, MarkRetry, OutboxRow, Dispatching
  <2>5. Held(d)
    BY DEF DispatchersHold
  <2>6. Kept
    BY <1>3, <2>1, <2>3, <2>4
  <2>7. Held(d)'
    BY <1>3, <2>1, <2>2, <2>3, <2>4, <2>5
  <2>8. DispatchersHold'
    BY <1>5, <2>2, <2>6, <2>7
  <2>9. SentReachedAll'
    BY <2>1, <2>3, <2>4, <2>5 DEF SentReachedAll
  <2>10. GivenUpLate'
    <3>1. dispatcher[d].attempt \in Nat
      BY DEF OutboxTypeOK
    <3>2. QED
      BY <1>3, <2>1, <2>3, <2>4, <2>5, <3>1, OutboxAssumption DEF GivenUpLate, Terminal
  <2>11. QED
    BY <2>1, <2>8, <2>9, <2>10 DEF OwedIsDeliverable
<1>14. ASSUME NEW d \in Dispatchers, Stop(d) PROVE Inv'
  <2>1. /\ dispatcher'[d].notice = {}
        /\ \A e \in Dispatchers : e # d => dispatcher'[e] = dispatcher[e]
        /\ UNCHANGED <<subscribed, allowed, outbox, reached, owed>>
    BY <1>14 DEF Stop, Rest, AtRest, OutboxTypeOK
  <2>2. Held(d)'
    BY <2>1
  <2>3. Kept
    BY <1>3, <2>1
  <2>4. DispatchersHold'
    BY <1>5, <2>1, <2>2, <2>3
  <2>5. QED
    BY <2>1, <2>4 DEF OwedIsDeliverable, SentReachedAll, GivenUpLate
<1>15. ASSUME UNCHANGED outboxVars PROVE Inv'
  <2>1. UNCHANGED <<subscribed, allowed, outbox, reached, owed, dispatcher>>
    BY <1>15 DEF outboxVars
  <2>2. DispatchersHold'
    BY <1>3, <1>4, <2>1
  <2>3. QED
    BY <2>1, <2>2 DEF OwedIsDeliverable, SentReachedAll, GivenUpLate
<1> HIDE DEF Inv, Held, Kept
<1>16. Inv'
  <2>1. CASE OutboxNext
    BY <2>1, <1>6, <1>7, <1>8, <1>9, <1>10, <1>11, <1>12, <1>13, <1>14
       DEF OutboxNext, DispatchStep
  <2>2. QED
    BY <2>1, <1>15
<1>17. QED
  BY <1>1, <1>16 DEF Inv

\* The invariant of the outbox in every state of a behaviour: dispatchers may
\* overtake one another, stop between push and UPDATE, or come back late.
LEMMA OutboxInvHolds ==
  OutboxInit /\ [][OutboxNext]_outboxVars => []OutboxInv
<1>1. OutboxInit => OutboxInv
  <2> SUFFICES ASSUME OutboxInit PROVE OutboxInv
    OBVIOUS
  <2>1. OutboxTypeOK
    BY OutboxAssumption DEF OutboxInit, NoRow, AtRest, OutboxTypeOK
  <2>2. /\ \A n \in Notices : owed[n] = {} /\ outbox[n].status = "ABSENT"
        /\ \A d \in Dispatchers : dispatcher[d].notice = {}
    BY DEF OutboxInit, NoRow, AtRest
  <2>3. QED
    BY <2>1, <2>2
       DEF OutboxInv, OwedIsDeliverable, DispatchersHold, SentReachedAll, GivenUpLate
<1>2. OutboxInv /\ [OutboxNext]_outboxVars => OutboxInv'
  BY OutboxInvKept
<1>3. QED
  BY <1>1, <1>2, PTL

(***************************************************************************)
(* A notification that is SENT has reached every device that was           *)
(* subscribed, and wanted it, from the moment it was raised, for any       *)
(* number of devices, dispatchers and stops between two pushes.            *)
(***************************************************************************)
THEOREM SentAlwaysReachedAll == OutboxSpec => []SentReachedAll
<1>1. OutboxInv => SentReachedAll
  BY DEF OutboxInv
<1>2. QED
  BY <1>1, OutboxInvHolds, PTL DEF OutboxSpec

(***************************************************************************)
(* No notification is given up before MaxPushAttempts claims of its row,   *)
(* although the attempt that decides was counted before the claim and by   *)
(* one worker.                                                             *)
(***************************************************************************)
THEOREM NeverGivenUpBeforeLimit == OutboxSpec => []GivenUpLate
<1>1. OutboxInv => GivenUpLate
  BY DEF OutboxInv
<1>2. QED
  BY <1>1, OutboxInvHolds, PTL DEF OutboxSpec

-----------------------------------------------------------------------------
(***************************************************************************)
(* The runs that schedules start.                                          *)
(***************************************************************************)

\* The places of startGroup, in which the attempt is remembered.
Starting == {"start", "insertRun", "findJob", "createJob"}

\* A worker in startGroup knows by which claim it is there; it goes on with the
\* run of the execution, which is its own only if it has what is in its scope;
\* and it enqueues what has a job.
ClaimantHolds(w) ==
  \A x \in Executions : claimant[w].row = {x} =>
    /\ claimant[w].at \in Starting =>
         claimant[w].attempt \in 1 .. execution[x].attempts
    /\ claimant[w].at \in {"start", "insertRun"} =>
         run[x].attempt # claimant[w].attempt
    /\ claimant[w].at \in {"insertRun", "findJob", "createJob"} =>
         claimant[w].scope \in Scopes
    /\ claimant[w].at \in {"findJob", "createJob"} =>
         /\ HasRun(x)
         /\ run[x].attempt = claimant[w].attempt => run[x].scope = claimant[w].scope
    /\ claimant[w].at = "createJob" /\ ~overlapped[x] => jobs[x] = <<>>
    /\ claimant[w].at = "enqueue" => jobs[x] # <<>>

\* Two workers at one execution are there by different claims, and the
\* execution knows that they have met.
ClaimantsApart(v, w) ==
  \A x \in Executions :
    v # w /\ claimant[v].row = {x} /\ claimant[w].row = {x} =>
      /\ claimant[v].at \in AtExecution /\ claimant[w].at \in AtExecution =>
           overlapped[x]
      /\ claimant[v].at \in Starting /\ claimant[w].at \in Starting =>
           claimant[v].attempt # claimant[w].attempt

\* A run is of a claim that there was; jobs belong to a run; what was enqueued
\* has both.
ExecutionHolds(x) ==
  /\ run[x].attempt <= execution[x].attempts
  /\ jobs[x] # <<>> => HasRun(x)
  /\ execution[x].run => jobs[x] # <<>>

SchedulingInv ==
  /\ SchedulingTypeOK
  /\ \A w \in Claimants : ClaimantHolds(w)
  /\ \A v, w \in Claimants : ClaimantsApart(v, w)
  /\ \A x \in Executions : ExecutionHolds(x)
  /\ JobsOfScheduledRun

CycleRecord ==
  [at : CyclePlaces, rows : SUBSET Executions, row : SUBSET Executions,
   scope : Scopes \cup {NoScope}, attempt : Nat]

ExecutionRow ==
  [status : {"ABSENT", "PENDING", "CLAIMED", "FAILED", "ENQUEUED"},
   attempts : Nat, lapsed : BOOLEAN, run : BOOLEAN]

\* A worker at rest, and one that has just read the rows that are due.
LEMMA IdleIsRecord ==
  /\ Idle \in CycleRecord /\ Idle.at = "idle" /\ Idle.row = {}
  /\ \A rows \in SUBSET Executions :
       LET new == [Idle EXCEPT !.at = "rows", !.rows = rows]
       IN  new \in CycleRecord /\ new.at = "rows" /\ new.row = {}
BY DEF Idle, CycleRecord, CyclePlaces

\* A worker that goes to another place keeps its row, and in startGroup its
\* attempt and its scope.
LEMMA WentTo ==
  ASSUME SchedulingTypeOK, NEW w \in Claimants, NEW place \in CyclePlaces,
         Goto(w, place)
  PROVE  /\ claimant' \in [Claimants -> CycleRecord]
         /\ claimant'[w].at = place
         /\ claimant'[w].row = claimant[w].row
         /\ place \notin {"enqueue", "fail"} =>
              /\ claimant'[w].attempt = claimant[w].attempt
              /\ claimant'[w].scope = claimant[w].scope
         /\ \A v \in Claimants : v # w => claimant'[v] = claimant[v]
<1>1. claimant \in [Claimants -> CycleRecord]
  BY DEF SchedulingTypeOK, CycleRecord
<1> DEFINE out == place \in {"enqueue", "fail"}
           new == [claimant[w] EXCEPT
                     !.at = place,
                     !.scope = IF out THEN NoScope ELSE @,
                     !.attempt = IF out THEN 0 ELSE @]
<1>2. /\ new \in CycleRecord
      /\ new.at = place /\ new.row = claimant[w].row
      /\ ~out => new.attempt = claimant[w].attempt /\ new.scope = claimant[w].scope
  BY <1>1 DEF CycleRecord
<1>3. claimant' = [claimant EXCEPT ![w] = new]
  BY <1>1 DEF Goto, CycleRecord
<1> HIDE DEF new
<1>4. QED
  BY <1>1, <1>2, <1>3

\* A worker that takes the next row, or a new list, or none, is in no try.
LEMMA WentOn ==
  ASSUME SchedulingTypeOK, NEW w \in Claimants,
         \/ NextRow(w)
         \/ claimant' = [claimant EXCEPT ![w] = Idle]
         \/ \E rows \in SUBSET Executions :
              claimant' = [claimant EXCEPT ![w] =
                             [Idle EXCEPT !.at = "rows", !.rows = rows]]
  PROVE  /\ claimant' \in [Claimants -> CycleRecord]
         /\ claimant'[w].at \in {"idle", "rows"}
         /\ \A v \in Claimants : v # w => claimant'[v] = claimant[v]
<1>1. claimant \in [Claimants -> CycleRecord]
  BY DEF SchedulingTypeOK, CycleRecord
<1>2. \E new \in CycleRecord :
        new.at \in {"idle", "rows"} /\ claimant' = [claimant EXCEPT ![w] = new]
  <2>1. claimant[w].rows \in SUBSET Executions
    BY <1>1 DEF CycleRecord
  <2>2. QED
    BY <2>1, IdleIsRecord DEF NextRow
<1>3. QED
  BY <1>1, <1>2

\* What is not a claim leaves the attempts of the executions, and that they
\* have their run.
LEMMA ExecutionsSettled ==
  ASSUME SchedulingTypeOK, NEW x \in Executions,
         \/ execution' = execution
         \/ execution' = [execution EXCEPT ![x].lapsed = TRUE]
         \/ execution' = [execution EXCEPT ![x].status = "PENDING"]
         \/ execution' = [execution EXCEPT ![x].status = "FAILED", ![x].lapsed = FALSE]
         \/ execution' = [execution EXCEPT ![x].status = "ENQUEUED", ![x].run = TRUE,
                                           ![x].lapsed = FALSE]
  PROVE  /\ execution' \in [Executions -> ExecutionRow]
         /\ \A y \in Executions :
              /\ execution'[y].attempts = execution[y].attempts
              /\ execution[y].run => execution'[y].run
              /\ y # x => execution'[y] = execution[y]
         /\ execution'[x].run => execution[x].run \/ execution'[x].status = "ENQUEUED"
<1>1. execution \in [Executions -> ExecutionRow]
  BY DEF SchedulingTypeOK, ExecutionRow
<1>2. \E new \in ExecutionRow :
        /\ execution' = [execution EXCEPT ![x] = new]
        /\ new.attempts = execution[x].attempts
        /\ execution[x].run => new.run
        /\ new.run => execution[x].run \/ new.status = "ENQUEUED"
  <2>1. CASE execution' = execution
    BY <1>1, <2>1 DEF ExecutionRow
  <2>2. CASE execution' = [execution EXCEPT ![x].lapsed = TRUE]
    <3>1. [execution[x] EXCEPT !.lapsed = TRUE] \in ExecutionRow
      BY <1>1 DEF ExecutionRow
    <3>2. QED
      BY <1>1, <2>2, <3>1 DEF ExecutionRow
  <2>3. CASE execution' = [execution EXCEPT ![x].status = "PENDING"]
    <3>1. [execution[x] EXCEPT !.status = "PENDING"] \in ExecutionRow
      BY <1>1 DEF ExecutionRow
    <3>2. QED
      BY <1>1, <2>3, <3>1 DEF ExecutionRow
  <2>4. CASE execution' = [execution EXCEPT ![x].status = "FAILED", ![x].lapsed = FALSE]
    <3>1. [execution[x] EXCEPT !.status = "FAILED", !.lapsed = FALSE] \in ExecutionRow
      BY <1>1 DEF ExecutionRow
    <3>2. QED
      BY <1>1, <2>4, <3>1 DEF ExecutionRow
  <2>5. CASE execution' = [execution EXCEPT ![x].status = "ENQUEUED", ![x].run = TRUE,
                                            ![x].lapsed = FALSE]
    <3>1. [execution[x] EXCEPT !.status = "ENQUEUED", !.run = TRUE, !.lapsed = FALSE]
             \in ExecutionRow
      BY <1>1 DEF ExecutionRow
    <3>2. QED
      BY <1>1, <2>5, <3>1 DEF ExecutionRow
  <2>6. QED
    BY <2>1, <2>2, <2>3, <2>4, <2>5
<1>3. QED
  BY <1>1, <1>2 DEF ExecutionRow

\* A step that leaves runs, jobs and attempts keeps what is known of the
\* workers it leaves alone, and of a worker that goes on by the same claim.
LEMMA QuietStepKeeps ==
  ASSUME SchedulingInv, SchedulingTypeOK',
         run' = run, jobs' = jobs, overlapped' = overlapped,
         \A y \in Executions :
           /\ execution'[y].attempts = execution[y].attempts
           /\ execution'[y].run => execution[y].run \/ jobs[y] # <<>>,
         \A v \in Claimants :
           \/ claimant'[v] = claimant[v]
           \/ claimant'[v].at \notin AtExecution
           \/ /\ claimant'[v].row = claimant[v].row
              /\ claimant[v].at \in AtExecution
              /\ claimant'[v].at \in Starting =>
                   claimant[v].at \in Starting
                   /\ claimant'[v].attempt = claimant[v].attempt
              /\ ClaimantHolds(v)'
  PROVE  SchedulingInv'
<1>1. \A v \in Claimants : ClaimantHolds(v)'
  <2> SUFFICES ASSUME NEW v \in Claimants PROVE ClaimantHolds(v)'
    OBVIOUS
  <2>1. CASE claimant'[v] = claimant[v]
    <3>1. ClaimantHolds(v)
      BY DEF SchedulingInv
    <3>2. QED
      BY <2>1, <3>1 DEF ClaimantHolds, HasRun
  <2>2. CASE claimant'[v].at \notin AtExecution
    BY <2>2 DEF ClaimantHolds, AtExecution, Trying, Starting
  <2>3. QED
    BY <2>1, <2>2
<1>2. \A v, w \in Claimants : ClaimantsApart(v, w)'
  <2> SUFFICES ASSUME NEW v \in Claimants, NEW w \in Claimants
               PROVE  ClaimantsApart(v, w)'
    OBVIOUS
  <2>1. ClaimantsApart(v, w)
    BY DEF SchedulingInv
  <2> DEFINE Same(u) ==
        \/ claimant'[u].at \notin AtExecution
        \/ /\ claimant'[u].row = claimant[u].row
           /\ claimant'[u].at \in AtExecution => claimant[u].at \in AtExecution
           /\ claimant'[u].at \in Starting =>
                claimant[u].at \in Starting
                /\ claimant'[u].attempt = claimant[u].attempt
  <2>2. Same(v) /\ Same(w)
    OBVIOUS
  <2>3. Starting \subseteq AtExecution
    BY DEF AtExecution, Trying, Starting
  <2>4. QED
    BY <2>1, <2>2, <2>3 DEF ClaimantsApart
<1>3. \A y \in Executions : ExecutionHolds(y)'
  BY DEF SchedulingInv, ExecutionHolds, HasRun
<1>4. JobsOfScheduledRun'
  BY DEF SchedulingInv, JobsOfScheduledRun
<1>5. QED
  BY <1>1, <1>2, <1>3, <1>4 DEF SchedulingInv

\* Midnight, the clock, and the owner of the schedule.
LEMMA ClockKeepsScheduling ==
  ASSUME SchedulingInv, NEW x \in Executions,
         Reschedule(x) \/ ClaimLapses(x)
  PROVE  SchedulingInv'
<1>1. SchedulingTypeOK
  BY DEF SchedulingInv
<1>2. /\ \/ execution' = execution
         \/ execution' = [execution EXCEPT ![x].lapsed = TRUE]
      /\ run' = run /\ jobs' = jobs /\ claimant' = claimant
      /\ overlapped' = overlapped /\ breaks' = breaks
      /\ execution'[x].status = execution[x].status
  BY <1>1 DEF Reschedule, ClaimLapses, runVars, SchedulingTypeOK
<1>3. /\ execution' \in [Executions -> ExecutionRow]
      /\ \A y \in Executions :
           /\ execution'[y].attempts = execution[y].attempts
           /\ y # x => execution'[y] = execution[y]
  BY <1>1, <1>2, ExecutionsSettled
<1>4. execution'[x].run = execution[x].run
  BY <1>1, <1>2 DEF SchedulingTypeOK
<1>5. due' \in [Executions -> BOOLEAN] /\ scope' \in Scopes \cup {NoScope}
  BY <1>1 DEF Reschedule, ClaimLapses, SchedulingTypeOK
<1>6. SchedulingTypeOK'
  BY <1>1, <1>2, <1>3, <1>5 DEF SchedulingTypeOK, ExecutionRow
<1>7. \A y \in Executions : execution'[y].run => execution[y].run
  BY <1>3, <1>4
<1>8. QED
  BY <1>2, <1>3, <1>6, <1>7, QuietStepKeeps

\* What a step of a worker changes, unless it claims or inserts.
LEMMA QuietCycleKeeps ==
  ASSUME SchedulingInv, NEW w \in Claimants,
         due' = due, scope' = scope, run' = run, jobs' = jobs,
         overlapped' = overlapped, breaks' \in 0 .. MaxBreaks,
         execution' \in [Executions -> ExecutionRow],
         claimant' \in [Claimants -> CycleRecord],
         \A y \in Executions :
           /\ execution'[y].attempts = execution[y].attempts
           /\ execution'[y].run => execution[y].run \/ jobs[y] # <<>>,
         \A v \in Claimants : v # w => claimant'[v] = claimant[v],
         \/ claimant'[w].at \notin AtExecution
         \/ /\ claimant'[w].row = claimant[w].row
            /\ claimant[w].at \in AtExecution
            /\ claimant'[w].at \in Starting =>
                 claimant[w].at \in Starting
                 /\ claimant'[w].attempt = claimant[w].attempt
            /\ ClaimantHolds(w)'
  PROVE  SchedulingInv'
<1>1. SchedulingTypeOK'
  BY DEF SchedulingInv, SchedulingTypeOK, ExecutionRow, CycleRecord
<1>2. QED
  BY <1>1, QuietStepKeeps

\* The owner of the group, or an employee's status.
LEMMA RescopeKeepsScheduling ==
  ASSUME SchedulingInv, Rescope
  PROVE  SchedulingInv'
<1>1. /\ scope' \in Scopes \cup {NoScope}
      /\ due' = due /\ execution' = execution /\ run' = run /\ jobs' = jobs
      /\ claimant' = claimant /\ overlapped' = overlapped /\ breaks' = breaks
  BY DEF Rescope, runVars
<1>2. SchedulingTypeOK'
  BY <1>1 DEF SchedulingInv, SchedulingTypeOK
<1>3. QED
  BY <1>1, <1>2, QuietStepKeeps

\* A worker goes from row to row, or dies.
LEMMA WalkKeepsScheduling ==
  ASSUME SchedulingInv, NEW w \in Claimants,
         \/ SelectDue(w) \/ EndOfRows(w) \/ Breaks(w)
         \/ \E x \in Executions : EnsureExecution(w, x) \/ MissExecution(w, x)
  PROVE  SchedulingInv'
<1>1. SchedulingTypeOK
  BY DEF SchedulingInv
<1>2. /\ due' = due /\ scope' = scope /\ run' = run /\ jobs' = jobs
      /\ overlapped' = overlapped
  BY DEF SelectDue, EndOfRows, Breaks, EnsureExecution, MissExecution, runVars
<1>3. breaks' \in 0 .. MaxBreaks
  <2>1. breaks \in 0 .. MaxBreaks /\ MaxBreaks \in Nat
    BY <1>1, ScheduledRunsAssumption DEF SchedulingTypeOK
  <2>2. breaks' = breaks \/ (breaks > 0 /\ breaks' = breaks - 1)
    <3>1. CASE Breaks(w)
      BY <3>1 DEF Breaks
    <3>2. CASE SelectDue(w) \/ EndOfRows(w)
      BY <3>2 DEF SelectDue, EndOfRows
    <3>3. CASE \E x \in Executions : EnsureExecution(w, x) \/ MissExecution(w, x)
      BY <3>3, Zenon DEF EnsureExecution, MissExecution
    <3>4. QED
      BY <3>1, <3>2, <3>3
  <2>3. QED
    BY <2>1, <2>2
<1>4. /\ execution' \in [Executions -> ExecutionRow]
      /\ \A y \in Executions :
           /\ execution'[y].attempts = execution[y].attempts
           /\ execution'[y].run => execution[y].run
  <2>1. CASE execution' = execution
    BY <1>1, <2>1 DEF SchedulingTypeOK, ExecutionRow
  <2>2. ASSUME NEW x \in Executions,
               execution' = [execution EXCEPT ![x].status = "PENDING"]
        PROVE  <1>4!:
    <3>1. execution'[x].run = execution[x].run
      BY <1>1, <2>2 DEF SchedulingTypeOK
    <3>2. QED
      BY <1>1, <2>2, <3>1, ExecutionsSettled
  <2>3. QED
    BY <2>1, <2>2 DEF SelectDue, EndOfRows, Breaks, EnsureExecution, MissExecution
<1>5. /\ claimant' \in [Claimants -> CycleRecord]
      /\ claimant'[w].at \notin AtExecution
      /\ \A v \in Claimants : v # w => claimant'[v] = claimant[v]
  <2>1. ASSUME NEW x \in Executions, EnsureExecution(w, x)
        PROVE  <1>5!:
    <3>1. claimant \in [Claimants -> CycleRecord]
      BY <1>1 DEF SchedulingTypeOK, CycleRecord
    <3> DEFINE new == [claimant[w] EXCEPT !.at = "claim", !.row = {x},
                                          !.rows = @ \ {x}]
    <3>2. new \in CycleRecord /\ new.at = "claim"
      BY <3>1 DEF CycleRecord, CyclePlaces
    <3>3. claimant' = [claimant EXCEPT ![w] = new]
      BY <2>1, <3>1 DEF EnsureExecution, CycleRecord
    <3> HIDE DEF new
    <3>4. QED
      BY <3>1, <3>2, <3>3 DEF AtExecution, Trying
  <2>2. CASE ~\E x \in Executions : EnsureExecution(w, x)
    <3>1. \/ NextRow(w)
          \/ claimant' = [claimant EXCEPT ![w] = Idle]
          \/ \E rows \in SUBSET Executions :
               claimant' = [claimant EXCEPT ![w] =
                              [Idle EXCEPT !.at = "rows", !.rows = rows]]
      BY <2>2 DEF SelectDue, EndOfRows, Breaks, MissExecution
    <3>2. QED
      BY <1>1, <3>1, WentOn DEF AtExecution, Trying
  <2>3. QED
    BY <2>1, <2>2
<1>6. QED
  BY <1>2, <1>3, <1>4, <1>5, QuietCycleKeeps

\* The UPDATEs that settle an execution, and a statement that throws.
LEMMA SettlingKeepsScheduling ==
  ASSUME SchedulingInv, NEW w \in Claimants,
         \/ StatementFails(w)
         \/ \E x \in Executions : MarkEnqueued(w, x) \/ MarkFailed(w, x)
  PROVE  SchedulingInv'
<1>1. SchedulingTypeOK
  BY DEF SchedulingInv
<1>2. /\ due' = due /\ scope' = scope /\ run' = run /\ jobs' = jobs
      /\ overlapped' = overlapped /\ breaks' = breaks
  BY DEF MarkEnqueued, MarkFailed, StatementFails, runVars
<1>3. breaks' \in 0 .. MaxBreaks
  BY <1>1, <1>2 DEF SchedulingTypeOK
<1>4. /\ execution' \in [Executions -> ExecutionRow]
      /\ \A y \in Executions :
           /\ execution'[y].attempts = execution[y].attempts
           /\ execution'[y].run => execution[y].run \/ jobs[y] # <<>>
  <2>1. CASE StatementFails(w)
    BY <1>1, <2>1 DEF StatementFails, SchedulingTypeOK, ExecutionRow
  <2>2. ASSUME NEW x \in Executions, MarkEnqueued(w, x) \/ MarkFailed(w, x)
        PROVE  <1>4!:
    <3>1. \/ execution' = [execution EXCEPT ![x].status = "FAILED", ![x].lapsed = FALSE]
          \/ execution' = [execution EXCEPT ![x].status = "ENQUEUED", ![x].run = TRUE,
                                            ![x].lapsed = FALSE]
      BY <2>2 DEF MarkEnqueued, MarkFailed
    <3>2. /\ execution' \in [Executions -> ExecutionRow]
          /\ \A y \in Executions :
               /\ execution'[y].attempts = execution[y].attempts
               /\ y # x => execution'[y] = execution[y]
      BY <1>1, <3>1, ExecutionsSettled
    <3>3. execution'[x].run => execution[x].run \/ jobs[x] # <<>>
      <4>1. CASE MarkEnqueued(w, x)
        BY <4>1 DEF MarkEnqueued, At, SchedulingInv, ClaimantHolds
      <4>2. CASE MarkFailed(w, x)
        BY <1>1, <4>2 DEF MarkFailed, SchedulingTypeOK
      <4>3. QED
        BY <2>2, <4>1, <4>2
    <3>4. QED
      BY <3>2, <3>3
  <2>3. QED
    BY <2>1, <2>2
<1>5. CASE NextRow(w)
  <2>1. /\ claimant' \in [Claimants -> CycleRecord]
        /\ claimant'[w].at \notin AtExecution
        /\ \A v \in Claimants : v # w => claimant'[v] = claimant[v]
    BY <1>1, <1>5, WentOn DEF AtExecution, Trying
  <2>2. QED
    BY <1>2, <1>3, <1>4, <2>1, QuietCycleKeeps
<1>6. CASE Goto(w, "fail") /\ claimant[w].at \in Trying
  <2>1. /\ claimant' \in [Claimants -> CycleRecord]
        /\ claimant'[w].at = "fail"
        /\ claimant'[w].row = claimant[w].row
        /\ \A v \in Claimants : v # w => claimant'[v] = claimant[v]
    BY <1>1, <1>6, WentTo DEF CyclePlaces
  <2>2. ClaimantHolds(w)' /\ claimant'[w].at \notin Starting
    BY <2>1 DEF ClaimantHolds, Starting
  <2>3. claimant[w].at \in AtExecution
    BY <1>6 DEF AtExecution
  <2>4. QED
    BY <1>2, <1>3, <1>4, <2>1, <2>2, <2>3, QuietCycleKeeps
<1>7. QED
  BY <1>5, <1>6 DEF MarkEnqueued, MarkFailed, StatementFails, At, Trying

\* startGroup reads what to search for, and looks for the run and for a job.
LEMMA ReadingKeepsScheduling ==
  ASSUME SchedulingInv, NEW w \in Claimants, NEW x \in Executions,
         ReadScope(w, x) \/ FindJob(w, x)
  PROVE  SchedulingInv'
<1>1. /\ SchedulingTypeOK
      /\ ClaimantHolds(w)
      /\ claimant[w].row = {x}
      /\ claimant[w].at \in {"start", "findJob"}
  BY DEF SchedulingInv, ReadScope, FindJob, At
<1>2. /\ due' = due /\ scope' = scope /\ run' = run /\ jobs' = jobs
      /\ overlapped' = overlapped /\ breaks' = breaks /\ execution' = execution
  BY DEF ReadScope, FindJob, runVars
<1>3. /\ breaks' \in 0 .. MaxBreaks
      /\ execution' \in [Executions -> ExecutionRow]
  BY <1>1, <1>2 DEF SchedulingTypeOK, ExecutionRow
<1>4. /\ claimant' \in [Claimants -> CycleRecord]
      /\ claimant'[w].row = {x}
      /\ \A v \in Claimants : v # w => claimant'[v] = claimant[v]
      /\ claimant'[w].at \in Starting =>
           claimant'[w].attempt = claimant[w].attempt
      /\ ClaimantHolds(w)'
  <2>1. CASE ReadScope(w, x) /\ scope # NoScope
    <3>1. claimant \in [Claimants -> CycleRecord] /\ scope \in Scopes
      BY <1>1, <2>1 DEF SchedulingTypeOK, CycleRecord
    <3> DEFINE place == IF HasRun(x) THEN "findJob" ELSE "insertRun"
               new == [claimant[w] EXCEPT !.scope = scope, !.at = place]
    <3>2. /\ new \in CycleRecord
          /\ new.at = place /\ new.row = {x} /\ new.scope = scope
          /\ new.attempt = claimant[w].attempt
      BY <1>1, <3>1 DEF CycleRecord, CyclePlaces
    <3>3. claimant' = [claimant EXCEPT ![w] = new]
      BY <2>1, <3>1 DEF ReadScope, CycleRecord
    <3> HIDE DEF new
    <3>4. claimant'[w] = new /\ claimant' \in [Claimants -> CycleRecord]
      BY <3>1, <3>2, <3>3
    <3>5. claimant[w].at = "start"
      BY <2>1 DEF ReadScope, At
    <3>6. /\ claimant[w].attempt \in 1 .. execution[x].attempts
          /\ run[x].attempt # claimant[w].attempt
      BY <1>1, <3>5 DEF ClaimantHolds, Starting
    <3>7. ClaimantHolds(w)'
      BY <1>2, <3>1, <3>2, <3>4, <3>6 DEF ClaimantHolds, HasRun
    <3>8. QED
      BY <3>1, <3>2, <3>3, <3>4, <3>7
  <2>2. CASE ReadScope(w, x) /\ scope = NoScope
    <3>1. Goto(w, "fail")
      BY <2>2 DEF ReadScope
    <3>2. /\ claimant' \in [Claimants -> CycleRecord]
          /\ claimant'[w].at = "fail" /\ claimant'[w].row = claimant[w].row
          /\ \A v \in Claimants : v # w => claimant'[v] = claimant[v]
      BY <1>1, <3>1, WentTo DEF CyclePlaces
    <3>3. QED
      BY <1>1, <3>2 DEF ClaimantHolds, Starting
  <2>3. CASE FindJob(w, x)
    <3> DEFINE place == IF jobs[x] = <<>> THEN "createJob" ELSE "enqueue"
    <3>1. Goto(w, place) /\ claimant[w].at = "findJob"
      BY <2>3 DEF FindJob, At
    <3>2. place \in {"createJob", "enqueue"} /\ place \in CyclePlaces
      BY DEF CyclePlaces
    <3>3. /\ claimant' \in [Claimants -> CycleRecord]
          /\ claimant'[w].at = place /\ claimant'[w].row = claimant[w].row
          /\ place \notin {"enqueue", "fail"} =>
               /\ claimant'[w].attempt = claimant[w].attempt
               /\ claimant'[w].scope = claimant[w].scope
          /\ \A v \in Claimants : v # w => claimant'[v] = claimant[v]
      BY <1>1, <3>1, <3>2, WentTo
    <3>4. claimant'[w].at \in Starting => claimant'[w].attempt = claimant[w].attempt
      BY <3>2, <3>3 DEF Starting
    <3>5. ClaimantHolds(w)'
      BY <1>1, <1>2, <3>1, <3>3 DEF ClaimantHolds, HasRun, Starting
    <3>6. QED
      BY <1>1, <3>3, <3>4, <3>5
  <2>4. QED
    BY <2>1, <2>2, <2>3
<1>5. claimant[w].at \in Starting /\ claimant[w].at \in AtExecution
  BY <1>1 DEF Starting, AtExecution, Trying
<1>6. QED
  BY <1>1, <1>2, <1>3, <1>4, <1>5, QuietCycleKeeps

\* The UPDATE of a claim gives an attempt that no run and no worker has.
LEMMA ClaimKeepsScheduling ==
  ASSUME SchedulingInv, NEW w \in Claimants, NEW x \in Executions,
         ClaimExecution(w, x)
  PROVE  SchedulingInv'
<1>1. /\ SchedulingTypeOK
      /\ claimant[w].row = {x} /\ claimant[w].at = "claim"
      /\ claimant \in [Claimants -> CycleRecord]
      /\ execution \in [Executions -> ExecutionRow]
  BY DEF SchedulingInv, ClaimExecution, At, SchedulingTypeOK, CycleRecord, ExecutionRow
<1>2. /\ due' = due /\ scope' = scope /\ run' = run /\ jobs' = jobs
      /\ breaks' = breaks
  BY DEF ClaimExecution, runVars
<1> DEFINE row == [execution[x] EXCEPT !.status = "CLAIMED", !.lapsed = FALSE,
                                       !.attempts = @ + 1]
           mine == [claimant[w] EXCEPT !.at = "start",
                                       !.attempt = execution[x].attempts + 1]
           met == \E v \in Claimants \ {w} :
                    claimant[v].row = {x} /\ claimant[v].at \in AtExecution
<1>3. /\ row \in ExecutionRow
      /\ row.attempts = execution[x].attempts + 1 /\ row.run = execution[x].run
  <2>1. execution[x] \in ExecutionRow /\ execution[x].attempts + 1 \in Nat
    BY <1>1 DEF ExecutionRow
  <2>2. row \in ExecutionRow
    BY <2>1 DEF ExecutionRow
  <2>3. QED
    BY <2>1, <2>2 DEF ExecutionRow
<1>4. /\ mine \in CycleRecord
      /\ mine.at = "start" /\ mine.row = {x}
      /\ mine.attempt = execution[x].attempts + 1
  <2>1. claimant[w] \in CycleRecord /\ execution[x].attempts + 1 \in Nat
    BY <1>1 DEF ExecutionRow
  <2>2. mine \in CycleRecord
    BY <2>1 DEF CycleRecord, CyclePlaces
  <2>3. QED
    BY <1>1, <2>1, <2>2 DEF CycleRecord
<1>5. /\ execution' = [execution EXCEPT ![x] = row]
      /\ claimant' = [claimant EXCEPT ![w] = mine]
      /\ overlapped' = [overlapped EXCEPT ![x] = @ \/ met]
  BY <1>1 DEF ClaimExecution, ExecutionRow, CycleRecord
<1> HIDE DEF row, mine, met
<1>6. /\ execution' \in [Executions -> ExecutionRow]
      /\ execution'[x].attempts = execution[x].attempts + 1
      /\ \A y \in Executions :
           /\ execution'[y].run = execution[y].run
           /\ y # x => execution'[y] = execution[y]
  BY <1>1, <1>3, <1>5
<1>7. /\ claimant' \in [Claimants -> CycleRecord]
      /\ claimant'[w] = mine
      /\ \A v \in Claimants : v # w => claimant'[v] = claimant[v]
  BY <1>1, <1>4, <1>5
<1>8. /\ overlapped' \in [Executions -> BOOLEAN]
      /\ \A y \in Executions : overlapped[y] => overlapped'[y]
      /\ met => overlapped'[x]
  <2>1. overlapped \in [Executions -> BOOLEAN] /\ met \in BOOLEAN
    BY <1>1 DEF SchedulingTypeOK, met
  <2>2. QED
    BY <2>1, <1>5
<1>9. SchedulingTypeOK'
  BY <1>1, <1>2, <1>6, <1>7, <1>8 DEF SchedulingTypeOK, ExecutionRow, CycleRecord
<1>10. \A y \in Executions :
         /\ execution[y].attempts \in Nat /\ run[y].attempt \in Nat
         /\ ExecutionHolds(y)
         /\ run[y].attempt <= execution[y].attempts
         /\ execution[y].attempts <= execution'[y].attempts
  <2>1. \A y \in Executions : execution[y].attempts \in Nat /\ run[y].attempt \in Nat
    BY <1>1 DEF ExecutionRow, SchedulingTypeOK
  <2>2. \A y \in Executions : execution[y].attempts <= execution'[y].attempts
    BY <1>6, <2>1
  <2>3. \A y \in Executions : ExecutionHolds(y)
    BY DEF SchedulingInv
  <2>4. QED
    BY <2>1, <2>2, <2>3 DEF ExecutionHolds
<1>11. \A v \in Claimants : v # w => ClaimantHolds(v)'
  <2> SUFFICES ASSUME NEW v \in Claimants, v # w PROVE ClaimantHolds(v)'
    OBVIOUS
  <2>1. ClaimantHolds(v) /\ claimant'[v] = claimant[v]
    BY <1>7 DEF SchedulingInv
  <2>2. \A y \in Executions :
          1 .. execution[y].attempts \subseteq 1 .. execution'[y].attempts
    BY <1>6, <1>10 DEF ExecutionRow
  <2>3. QED
    BY <1>2, <1>8, <2>1, <2>2 DEF ClaimantHolds, HasRun
<1>12. ClaimantHolds(w)'
  <2>1. execution'[x].attempts \in 1 .. execution'[x].attempts
    BY <1>6, <1>10
  <2>2. run'[x].attempt # mine.attempt
    BY <1>2, <1>4, <1>10
  <2>3. \A y \in Executions : mine.row = {y} => y = x
    BY <1>4
  <2>4. QED
    BY <1>4, <1>6, <1>7, <2>1, <2>2, <2>3 DEF ClaimantHolds
<1>13. \A u, v \in Claimants : ClaimantsApart(u, v)'
  <2>1. \A u, v \in Claimants : u # w /\ v # w => ClaimantsApart(u, v)'
    <3> SUFFICES ASSUME NEW u \in Claimants, NEW v \in Claimants, u # w, v # w
                 PROVE  ClaimantsApart(u, v)'
      OBVIOUS
    <3>1. ClaimantsApart(u, v) /\ claimant'[u] = claimant[u] /\ claimant'[v] = claimant[v]
      BY <1>7 DEF SchedulingInv
    <3>2. QED
      BY <1>8, <3>1 DEF ClaimantsApart
  <2>2. ASSUME NEW v \in Claimants, v # w, claimant[v].row = {x}
        PROVE  /\ claimant[v].at \in AtExecution => overlapped'[x]
               /\ claimant[v].at \in Starting => claimant[v].attempt # mine.attempt
    <3>1. ClaimantHolds(v)
      BY DEF SchedulingInv
    <3>2. claimant[v].at \in Starting =>
            claimant[v].attempt \in 1 .. execution[x].attempts
      BY <2>2, <3>1 DEF ClaimantHolds
    <3>3. QED
      BY <1>4, <1>8, <1>10, <2>2, <3>2 DEF met
  <2>3. \A v \in Claimants : v # w =>
          ClaimantsApart(w, v)' /\ ClaimantsApart(v, w)'
    <3>1. \A y \in Executions : claimant'[w].row = {y} => y = x
      BY <1>4, <1>7
    <3>2. QED
      BY <1>7, <2>2, <3>1 DEF ClaimantsApart
  <2>4. ClaimantsApart(w, w)'
    BY DEF ClaimantsApart
  <2>5. QED
    BY <2>1, <2>3, <2>4
<1>14. \A y \in Executions : ExecutionHolds(y)'
  <2> SUFFICES ASSUME NEW y \in Executions PROVE ExecutionHolds(y)'
    OBVIOUS
  <2>1. execution'[y].attempts \in Nat
    BY <1>6 DEF ExecutionRow
  <2>2. QED
    BY <1>2, <1>6, <1>10, <2>1 DEF ExecutionHolds, HasRun
<1>15. JobsOfScheduledRun'
  BY <1>2, <1>8 DEF SchedulingInv, JobsOfScheduledRun
<1>16. QED
  BY <1>9, <1>11, <1>12, <1>13, <1>14, <1>15 DEF SchedulingInv

\* The unique key: the run of an execution is the first that is inserted.
LEMMA InsertRunKeepsScheduling ==
  ASSUME SchedulingInv, NEW w \in Claimants, NEW x \in Executions,
         InsertPayrollRun(w, x)
  PROVE  SchedulingInv'
<1>1. /\ SchedulingTypeOK
      /\ claimant[w].row = {x} /\ claimant[w].at = "insertRun"
      /\ claimant \in [Claimants -> CycleRecord]
  BY DEF SchedulingInv, InsertPayrollRun, At, SchedulingTypeOK, CycleRecord
<1>2. /\ due' = due /\ scope' = scope /\ execution' = execution /\ jobs' = jobs
      /\ overlapped' = overlapped /\ breaks' = breaks
  BY DEF InsertPayrollRun
<1>3. /\ claimant[w].attempt \in 1 .. execution[x].attempts
      /\ claimant[w].scope \in Scopes
      /\ run[x].attempt # claimant[w].attempt
  BY <1>1 DEF SchedulingInv, ClaimantHolds, Starting
<1>4. /\ run' \in [Executions -> [scope : Scopes \cup {NoScope}, attempt : Nat]]
      /\ HasRun(x)'
      /\ \A y \in Executions : HasRun(y) \/ y # x => run'[y] = run[y]
      /\ ~HasRun(x) => /\ run'[x].scope = claimant[w].scope
                       /\ run'[x].attempt = claimant[w].attempt
  <2> DEFINE new == [scope |-> claimant[w].scope, attempt |-> claimant[w].attempt]
  <2>1. run' = IF HasRun(x) THEN run ELSE [run EXCEPT ![x] = new]
    BY DEF InsertPayrollRun
  <2>2. run \in [Executions -> [scope : Scopes \cup {NoScope}, attempt : Nat]]
    BY <1>1 DEF SchedulingTypeOK
  <2>3. claimant[w].scope # NoScope
    BY <1>3, ScheduledRunsAssumption
  <2>4. new \in [scope : Scopes \cup {NoScope}, attempt : Nat]
    BY <1>1, <1>3 DEF CycleRecord
  <2>5. CASE HasRun(x)
    BY <2>1, <2>2, <2>5 DEF HasRun
  <2>6. CASE ~HasRun(x)
    <3>1. run' = [run EXCEPT ![x] = new]
      BY <2>1, <2>6
    <3>2. run'[x] = new
      BY <2>2, <3>1
    <3>3. run' \in [Executions -> [scope : Scopes \cup {NoScope}, attempt : Nat]]
      BY <2>2, <2>4, <3>1
    <3>4. QED
      BY <2>2, <2>3, <2>6, <3>1, <3>2, <3>3 DEF HasRun
  <2>7. QED
    BY <2>5, <2>6
<1>5. PICK place \in {"findJob", "fail"} : Goto(w, place)
  BY DEF InsertPayrollRun
<1>6. /\ claimant' \in [Claimants -> CycleRecord]
      /\ claimant'[w].at = place /\ claimant'[w].row = {x}
      /\ place = "findJob" =>
           /\ claimant'[w].attempt = claimant[w].attempt
           /\ claimant'[w].scope = claimant[w].scope
      /\ \A v \in Claimants : v # w => claimant'[v] = claimant[v]
  BY <1>1, <1>5, WentTo DEF CyclePlaces
<1>7. SchedulingTypeOK'
  BY <1>1, <1>2, <1>4, <1>6 DEF SchedulingTypeOK, CycleRecord
<1>8. ClaimantHolds(w)'
  <2>1. run'[x].attempt = claimant[w].attempt => run'[x].scope = claimant[w].scope
    BY <1>3, <1>4
  <2>2. \A y \in Executions : claimant'[w].row = {y} => y = x
    BY <1>6
  <2>3. QED
    BY <1>2, <1>3, <1>4, <1>5, <1>6, <2>1, <2>2 DEF ClaimantHolds, Starting
<1>9. \A v \in Claimants : v # w => ClaimantHolds(v)'
  <2> SUFFICES ASSUME NEW v \in Claimants, v # w,
                      NEW y \in Executions, claimant[v].row = {y}
               PROVE  ClaimantHolds(v)!(y)'
    BY <1>6 DEF ClaimantHolds
  <2>1. ClaimantHolds(v) /\ ClaimantsApart(v, w) /\ claimant'[v] = claimant[v]
    BY <1>6 DEF SchedulingInv
  <2>2. QED
    BY <1>1, <1>2, <1>4, <2>1
       DEF ClaimantHolds, ClaimantsApart, HasRun, Starting
<1>10. \A u, v \in Claimants : ClaimantsApart(u, v)'
  <2> SUFFICES ASSUME NEW u \in Claimants, NEW v \in Claimants
               PROVE  ClaimantsApart(u, v)'
    OBVIOUS
  <2>1. ClaimantsApart(u, v)
    BY DEF SchedulingInv
  <2>2. \A c \in {u, v} :
          /\ claimant'[c].row = claimant[c].row
          /\ claimant'[c].at \in Starting =>
               /\ claimant[c].at \in Starting
               /\ claimant'[c].attempt = claimant[c].attempt
          /\ claimant'[c].at \in AtExecution => claimant[c].at \in AtExecution
    BY <1>1, <1>5, <1>6 DEF Starting, AtExecution, Trying
  <2>3. QED
    BY <1>2, <2>1, <2>2 DEF ClaimantsApart
<1>11. \A y \in Executions : ExecutionHolds(y)'
  <2>1. \A y \in Executions : execution[y].attempts \in Nat
    BY <1>1 DEF SchedulingTypeOK
  <2>2. \A y \in Executions : ExecutionHolds(y)
    BY DEF SchedulingInv
  <2>3. QED
    BY <1>2, <1>3, <1>4, <2>1, <2>2 DEF ExecutionHolds, HasRun
<1>12. JobsOfScheduledRun'
  <2> SUFFICES ASSUME NEW y \in Executions
               PROVE  /\ Len(jobs[y]) > 1 => overlapped[y]
                      /\ \A i \in 1 .. Len(jobs[y]) :
                           jobs[y][i].attempt = run'[y].attempt =>
                             jobs[y][i].scope = run'[y].scope
    BY <1>2 DEF JobsOfScheduledRun
  <2>1. jobs[y] # <<>> => run'[y] = run[y]
    BY <1>4 DEF SchedulingInv, ExecutionHolds
  <2>2. jobs[y] = <<>> => Len(jobs[y]) = 0
    OBVIOUS
  <2>3. QED
    BY <2>1, <2>2 DEF SchedulingInv, JobsOfScheduledRun
<1>13. QED
  BY <1>7, <1>8, <1>9, <1>10, <1>11, <1>12 DEF SchedulingInv

\* A job is inserted where none was, unless two workers are at the execution.
LEMMA InsertJobKeepsScheduling ==
  ASSUME SchedulingInv, NEW w \in Claimants, NEW x \in Executions,
         InsertJob(w, x)
  PROVE  SchedulingInv'
<1> DEFINE JobRow == [scope : Scopes, attempt : Nat]
           new == [scope |-> claimant[w].scope, attempt |-> claimant[w].attempt]
<1>1. /\ SchedulingTypeOK
      /\ claimant[w].row = {x} /\ claimant[w].at = "createJob"
      /\ claimant \in [Claimants -> CycleRecord]
      /\ jobs \in [Executions -> Seq(JobRow)]
  BY DEF SchedulingInv, InsertJob, At, SchedulingTypeOK, CycleRecord
<1>2. /\ due' = due /\ scope' = scope /\ execution' = execution /\ run' = run
      /\ overlapped' = overlapped /\ breaks' = breaks
  BY DEF InsertJob
<1>3. /\ claimant[w].scope \in Scopes
      /\ HasRun(x)
      /\ run[x].attempt = claimant[w].attempt => run[x].scope = claimant[w].scope
      /\ ~overlapped[x] => jobs[x] = <<>>
  BY <1>1 DEF SchedulingInv, ClaimantHolds
<1>4. new \in JobRow
  BY <1>1, <1>3 DEF CycleRecord
<1>5. jobs' = [jobs EXCEPT ![x] = Append(@, new)]
  BY DEF InsertJob
<1> HIDE DEF JobRow
<1>6. /\ jobs' \in [Executions -> Seq(JobRow)]
      /\ jobs'[x] = Append(jobs[x], new)
      /\ \A y \in Executions : y # x => jobs'[y] = jobs[y]
  <2>1. Append(jobs[x], new) \in Seq(JobRow)
    BY <1>1, <1>4
  <2> HIDE DEF new
  <2>2. QED
    BY <1>1, <1>5, <2>1
<1>7. /\ Len(jobs'[x]) = Len(jobs[x]) + 1
      /\ Len(jobs[x]) \in Nat
      /\ \A i \in 1 .. Len(jobs[x]) : jobs'[x][i] = jobs[x][i]
      /\ jobs'[x][Len(jobs[x]) + 1] = new
      /\ jobs'[x] # <<>>
      /\ jobs[x] = <<>> => Len(jobs[x]) = 0
  <2>1. jobs[x] \in Seq(JobRow)
    BY <1>1
  <2> HIDE DEF new
  <2>2. QED
    BY <1>4, <1>6, <2>1
<1>8. PICK place \in {"enqueue", "fail"} : Goto(w, place)
  BY DEF InsertJob
<1>9. /\ claimant' \in [Claimants -> CycleRecord]
      /\ claimant'[w].at = place /\ claimant'[w].row = {x}
      /\ \A v \in Claimants : v # w => claimant'[v] = claimant[v]
  BY <1>1, <1>8, WentTo DEF CyclePlaces
<1>10. SchedulingTypeOK'
  BY <1>1, <1>2, <1>6, <1>9 DEF SchedulingTypeOK, CycleRecord, JobRow
<1>11. ClaimantHolds(w)'
  BY <1>7, <1>8, <1>9 DEF ClaimantHolds, Starting
<1>12. \A v \in Claimants : v # w => ClaimantHolds(v)'
  <2> SUFFICES ASSUME NEW v \in Claimants, v # w,
                      NEW y \in Executions, claimant[v].row = {y}
               PROVE  ClaimantHolds(v)!(y)'
    BY <1>9 DEF ClaimantHolds
  <2>1. ClaimantHolds(v) /\ ClaimantsApart(v, w) /\ claimant'[v] = claimant[v]
    BY <1>9 DEF SchedulingInv
  <2>2. claimant[v].at = "createJob" /\ y = x => overlapped[x]
    BY <1>1, <2>1 DEF ClaimantsApart, AtExecution, Trying
  <2>3. jobs[y] # <<>> => jobs'[y] # <<>>
    BY <1>6, <1>7
  <2>4. claimant[v].at = "createJob" /\ ~overlapped[y] => jobs'[y] = <<>>
    BY <1>6, <2>1, <2>2 DEF ClaimantHolds
  <2>5. QED
    BY <1>2, <2>1, <2>3, <2>4 DEF ClaimantHolds, HasRun
<1>13. \A u, v \in Claimants : ClaimantsApart(u, v)'
  <2> SUFFICES ASSUME NEW u \in Claimants, NEW v \in Claimants
               PROVE  ClaimantsApart(u, v)'
    OBVIOUS
  <2>1. ClaimantsApart(u, v)
    BY DEF SchedulingInv
  <2>2. \A c \in {u, v} :
          /\ claimant'[c].row = claimant[c].row
          /\ claimant'[c].at \in Starting => claimant'[c] = claimant[c]
          /\ claimant'[c].at \in AtExecution => claimant[c].at \in AtExecution
    BY <1>1, <1>8, <1>9 DEF Starting, AtExecution, Trying
  <2>3. QED
    BY <1>2, <2>1, <2>2 DEF ClaimantsApart
<1>14. \A y \in Executions : ExecutionHolds(y)'
  BY <1>2, <1>3, <1>6, <1>7 DEF SchedulingInv, ExecutionHolds, HasRun
<1>15. JobsOfScheduledRun'
  <2> SUFFICES ASSUME NEW y \in Executions
               PROVE  /\ Len(jobs'[y]) > 1 => overlapped[y]
                      /\ \A i \in 1 .. Len(jobs'[y]) :
                           jobs'[y][i].attempt = run[y].attempt =>
                             jobs'[y][i].scope = run[y].scope
    BY <1>2 DEF JobsOfScheduledRun
  <2>1. CASE y # x
    BY <1>6, <2>1 DEF SchedulingInv, JobsOfScheduledRun
  <2>2. CASE y = x
    <3>1. Len(jobs'[x]) > 1 => overlapped[x]
      BY <1>3, <1>7
    <3>2. ASSUME NEW i \in 1 .. Len(jobs'[x]),
                 jobs'[x][i].attempt = run[x].attempt
          PROVE  jobs'[x][i].scope = run[x].scope
      <4>1. CASE i \in 1 .. Len(jobs[x])
        BY <1>7, <3>2, <4>1 DEF SchedulingInv, JobsOfScheduledRun
      <4>2. CASE i = Len(jobs[x]) + 1
        BY <1>3, <1>7, <3>2, <4>2
      <4>3. QED
        BY <1>7, <4>1, <4>2
    <3>3. QED
      BY <2>2, <3>1, <3>2
  <2>3. QED
    BY <2>1, <2>2
<1>16. QED
  BY <1>10, <1>11, <1>12, <1>13, <1>14, <1>15 DEF SchedulingInv

\* Every step of a worker, every change of what is due, and every lapse of a
\* claim keeps the invariant of the scheduled runs.
LEMMA SchedulingInvKept ==
  ASSUME SchedulingInv, [SchedulingNext]_schedulingVars
  PROVE  SchedulingInv'
<1>1. CASE UNCHANGED schedulingVars
  <2>1. /\ due' = due /\ scope' = scope /\ execution' = execution
        /\ run' = run /\ jobs' = jobs /\ claimant' = claimant
        /\ overlapped' = overlapped /\ breaks' = breaks
    BY <1>1 DEF schedulingVars, runVars
  <2>2. SchedulingTypeOK'
    BY <2>1 DEF SchedulingInv, SchedulingTypeOK
  <2>3. QED
    BY <2>1, <2>2, QuietStepKeeps
<1>2. CASE Rescope
  BY <1>2, RescopeKeepsScheduling
<1>3. CASE \E x \in Executions : Reschedule(x) \/ ClaimLapses(x)
  BY <1>3, ClockKeepsScheduling
<1>4. ASSUME NEW w \in Claimants,
             SchedulingStep(w) \/ StatementFails(w) \/ Breaks(w)
      PROVE  SchedulingInv'
  BY <1>4, WalkKeepsScheduling, SettlingKeepsScheduling,
     ReadingKeepsScheduling, ClaimKeepsScheduling, InsertRunKeepsScheduling,
     InsertJobKeepsScheduling
     DEF SchedulingStep
<1>5. QED
  BY <1>1, <1>2, <1>3, <1>4 DEF SchedulingNext

\* The invariant of the scheduled runs in every state of a behaviour.
LEMMA SchedulingInvHolds ==
  SchedulingInit /\ [][SchedulingNext]_schedulingVars => []SchedulingInv
<1>1. SchedulingInit => SchedulingInv
  <2> SUFFICES ASSUME SchedulingInit PROVE SchedulingInv
    OBVIOUS
  <2>1. SchedulingTypeOK
    <3>1. claimant \in [Claimants -> CycleRecord]
      BY IdleIsRecord DEF SchedulingInit
    <3>2. execution \in [Executions -> ExecutionRow]
      BY DEF SchedulingInit, NoExecution, ExecutionRow
    <3>3. jobs \in [Executions -> Seq([scope : Scopes, attempt : Nat])]
      BY DEF SchedulingInit
    <3>4. breaks \in 0 .. MaxBreaks
      BY ScheduledRunsAssumption DEF SchedulingInit
    <3>5. /\ run \in [Executions -> [scope : Scopes \cup {NoScope}, attempt : Nat]]
          /\ due \in [Executions -> BOOLEAN] /\ overlapped \in [Executions -> BOOLEAN]
          /\ scope \in Scopes \cup {NoScope}
      BY DEF SchedulingInit
    <3>6. QED
      BY <3>1, <3>2, <3>3, <3>4, <3>5 DEF SchedulingTypeOK, ExecutionRow, CycleRecord
  <2>2. /\ \A w \in Claimants : claimant[w].row = {}
        /\ \A x \in Executions :
             /\ jobs[x] = <<>> /\ Len(jobs[x]) = 0
             /\ run[x].attempt = 0 /\ execution[x].attempts = 0
             /\ ~execution[x].run
    BY DEF SchedulingInit, NoExecution, Idle
  <2>3. QED
    BY <2>1, <2>2
       DEF SchedulingInv, ClaimantHolds, ClaimantsApart, ExecutionHolds,
           JobsOfScheduledRun
<1>2. SchedulingInv /\ [SchedulingNext]_schedulingVars => SchedulingInv'
  BY SchedulingInvKept
<1>3. QED
  BY <1>1, <1>2, PTL

(***************************************************************************)
(* A run of a schedule has a second job only when two workers were at its  *)
(* execution at once, and its own job searches for what the run says.      *)
(***************************************************************************)
THEOREM JobsAlwaysOfScheduledRun == SchedulingSpec => []JobsOfScheduledRun
<1>1. SchedulingInv => JobsOfScheduledRun
  BY DEF SchedulingInv
<1>2. QED
  BY <1>1, SchedulingInvHolds, PTL DEF SchedulingSpec

(***************************************************************************)
(* An execution that was enqueued has its run and a job, and is not        *)
(* claimed again, whatever its status becomes.                             *)
(***************************************************************************)
THEOREM AlwaysEnqueuedForGood == SchedulingSpec => EnqueuedForGood
<1> DEFINE Kept(x) ==
      execution[x].run =>
        /\ HasRun(x) /\ jobs[x] # <<>>
        /\ execution'[x].run
        /\ execution'[x].attempts = execution[x].attempts
<1>1. ASSUME SchedulingInv, [SchedulingNext]_schedulingVars, NEW x \in Executions
      PROVE  Kept(x)
  <2>1. SchedulingTypeOK /\ (execution[x].run => HasRun(x) /\ jobs[x] # <<>>)
    BY <1>1 DEF SchedulingInv, ExecutionHolds
  <2>2. CASE execution' = execution
    BY <2>1, <2>2
  <2>3. ASSUME NEW y \in Executions,
               \/ execution' = [execution EXCEPT ![y].lapsed = TRUE]
               \/ execution' = [execution EXCEPT ![y].status = "PENDING"]
               \/ execution' = [execution EXCEPT ![y].status = "FAILED",
                                                 ![y].lapsed = FALSE]
               \/ execution' = [execution EXCEPT ![y].status = "ENQUEUED",
                                                 ![y].run = TRUE, ![y].lapsed = FALSE]
        PROVE  Kept(x)
    BY <2>1, <2>3, ExecutionsSettled
  <2>4. ASSUME NEW w \in Claimants, NEW y \in Executions, ClaimExecution(w, y)
        PROVE  Kept(x)
    <3>1. ~execution[y].run
      BY <2>4 DEF ClaimExecution, Open
    <3>2. x # y => execution'[x] = execution[x]
      BY <2>1, <2>4 DEF ClaimExecution, SchedulingTypeOK
    <3>3. QED
      BY <2>1, <3>1, <3>2
  <2>5. CASE UNCHANGED schedulingVars \/ Rescope
    BY <2>2, <2>5 DEF schedulingVars, Rescope
  <2>6. CASE \E y \in Executions : Reschedule(y) \/ ClaimLapses(y)
    BY <2>2, <2>3, <2>6 DEF Reschedule, ClaimLapses
  <2>7. CASE \E w \in Claimants : SchedulingStep(w) \/ StatementFails(w) \/ Breaks(w)
    <3>1. PICK w \in Claimants : SchedulingStep(w) \/ StatementFails(w) \/ Breaks(w)
      BY <2>7
    <3>2. CASE SelectDue(w) \/ EndOfRows(w) \/ StatementFails(w) \/ Breaks(w)
      BY <2>2, <3>2 DEF SelectDue, EndOfRows, StatementFails, Breaks
    <3>3. ASSUME NEW y \in Executions,
                 \/ EnsureExecution(w, y) \/ MissExecution(w, y) \/ ReadScope(w, y)
                 \/ InsertPayrollRun(w, y) \/ FindJob(w, y) \/ InsertJob(w, y)
                 \/ MarkEnqueued(w, y) \/ MarkFailed(w, y)
          PROVE  Kept(x)
      BY <2>2, <2>3, <3>3
         DEF EnsureExecution, MissExecution, ReadScope, InsertPayrollRun, FindJob,
             InsertJob, MarkEnqueued, MarkFailed
    <3>4. QED
      BY <2>4, <3>1, <3>2, <3>3 DEF SchedulingStep
  <2>8. QED
    BY <1>1, <2>5, <2>6, <2>7 DEF SchedulingNext
<1>2. ASSUME SchedulingInv, [SchedulingNext]_schedulingVars
      PROVE  [\A x \in Executions : Kept(x)]_schedulingVars
  BY <1>1, <1>2
<1>3. SchedulingInv /\ [SchedulingNext]_schedulingVars
        => [\A x \in Executions : Kept(x)]_schedulingVars
  BY <1>2
<1>4. QED
  BY <1>3, SchedulingInvHolds, PTL DEF SchedulingSpec, EnqueuedForGood

-----------------------------------------------------------------------------
(***************************************************************************)
(* The schedules of a group.                                               *)
(***************************************************************************)

\* The bits of a set of weekdays, added up.
Bits(days) ==
  LET b(d) == IF d \in days THEN WeekdayBit(d) ELSE 0
  IN b(1) + b(2) + b(3) + b(4) + b(5) + b(6) + b(7)

\* The bits of the seven weekdays.
LEMMA BitValues ==
  /\ WeekdayBit(1) = 1 /\ WeekdayBit(2) = 2 /\ WeekdayBit(3) = 4
  /\ WeekdayBit(4) = 8 /\ WeekdayBit(5) = 16 /\ WeekdayBit(6) = 32
  /\ WeekdayBit(7) = 64
BY DEF WeekdayBit

\* A weekday adds its bit.
LEMMA BitsOfOneMore ==
  ASSUME NEW s \in SUBSET Weekdays, NEW x \in s
  PROVE  Bits(s) = WeekdayBit(x) + Bits(s \ {x})
<1>1. x \in {1, 2, 3, 4, 5, 6, 7}
  BY DEF Weekdays
<1>2. QED
  BY <1>1, BitValues DEF Bits

\* What the fold of the community modules stands for.
LEMMA Folded ==
  ASSUME NEW S
  PROVE  MapThenSumSet(WeekdayBit, S) =
           LET iter[s \in SUBSET S] ==
                 IF s = {} THEN 0
                 ELSE LET x == CHOOSE y \in s : TRUE
                      IN WeekdayBit(x) + iter[s \ {x}]
           IN iter[S]
BY DEF MapThenSumSet, MapThenFoldSet

\* The sum of the bits of a set of weekdays is what it looks like.
LEMMA MaskIsSum ==
  ASSUME NEW S \in SUBSET Weekdays
  PROVE  MapThenSumSet(WeekdayBit, S) = Bits(S)
<1> DEFINE AddsUp(f) ==
      f = [s \in SUBSET S |->
             IF s = {} THEN 0
             ELSE LET x == CHOOSE y \in s : TRUE
                  IN WeekdayBit(x) + f[s \ {x}]]
<1>1. \E f : AddsUp(f)
  <2> DEFINE f == [s \in SUBSET S |-> Bits(s)]
  <2>1. Bits({}) = 0
    BY DEF Bits
  <2>2. ASSUME NEW s \in SUBSET S, s # {}, NEW x, x = CHOOSE y \in s : TRUE
        PROVE  f[s] = WeekdayBit(x) + f[s \ {x}]
    <3>1. x \in s
      BY <2>2
    <3>2. QED
      BY <3>1, BitsOfOneMore
  <2>3. \A s \in SUBSET S :
          f[s] = IF s = {} THEN 0
                 ELSE LET x == CHOOSE y \in s : TRUE
                      IN WeekdayBit(x) + f[s \ {x}]
    BY <2>1, <2>2
  <2>4. f = [s \in SUBSET S |-> f[s]]
    OBVIOUS
  <2> HIDE DEF f
  <2>5. AddsUp(f)
    BY <2>3, <2>4
  <2>6. QED
    BY <2>5
<1>2. PICK g : AddsUp(g) /\ MapThenSumSet(WeekdayBit, S) = g[S]
  <2> DEFINE F == CHOOSE f : AddsUp(f)
  <2>1. AddsUp(F)
    BY <1>1
  <2>2. MapThenSumSet(WeekdayBit, S) = F[S]
    BY Folded
  <2>3. QED
    BY <2>1, <2>2
<1>3. ASSUME NEW s \in SUBSET S, s # {}
      PROVE  \E x \in s : g[s] = WeekdayBit(x) + g[s \ {x}]
  BY <1>2, <1>3
<1>4. g[{}] = 0
  BY <1>2
<1> HIDE DEF AddsUp
<1>5. IsWellFoundedOn(StrictSubsetOrdering(S), SUBSET S)
  <2>1. IsFiniteSet(S)
    <3>1. S \in SUBSET Nat /\ 7 \in Nat /\ \A s \in S : s <= 7
      BY DEF Weekdays
    <3>2. QED
      BY <3>1, FS_BoundedSetOfNaturals
  <2>2. QED
    BY <2>1, FS_StrictSubsetOrderingWellFounded, FS_FiniteSubsetsOfFinite
<1>6. \A s \in SUBSET S : g[s] = Bits(s)
  <2> DEFINE Wrong == {s \in SUBSET S : g[s] # Bits(s)}
  <2>1. SUFFICES ASSUME Wrong # {} PROVE FALSE
    OBVIOUS
  <2>2. PICK s \in Wrong :
          \A u \in Wrong : <<u, s>> \notin StrictSubsetOrdering(S)
    <3>1. Wrong \subseteq SUBSET S
      OBVIOUS
    <3> HIDE DEF Wrong
    <3>2. QED
      BY <1>5, <2>1, <3>1, WFMin
  <2>3. s # {}
    BY <1>4 DEF Bits
  <2>4. PICK x \in s : g[s] = WeekdayBit(x) + g[s \ {x}]
    BY <1>3, <2>3
  <2>5. <<s \ {x}, s>> \in StrictSubsetOrdering(S)
    BY DEF StrictSubsetOrdering
  <2>6. g[s \ {x}] = Bits(s \ {x})
    BY <2>2, <2>5
  <2>7. QED
    BY <2>4, <2>6, BitsOfOneMore
<1>7. QED
  BY <1>2, <1>6

\* A mask holds the days it was made from, and at least one.
LEMMA MaskHoldsDays ==
  ASSUME NEW days \in SUBSET Nat, NEW d \in Weekdays
  PROVE  /\ WeekdaysToMask(days) \in 0 .. 127
         /\ HasBit(WeekdaysToMask(days), d) <=> d \in NormalizeWeekdays(days)
<1> DEFINE S == NormalizeWeekdays(days)
           b(e) == IF e \in S THEN 1 ELSE 0
<1>1. S \in SUBSET Weekdays
  BY DEF NormalizeWeekdays
<1>2. WeekdaysToMask(days) =
        b(1) + 2 * b(2) + 4 * b(3) + 8 * b(4) + 16 * b(5) + 32 * b(6) + 64 * b(7)
  <2>1. WeekdaysToMask(days) = Bits(S)
    BY <1>1, MaskIsSum DEF WeekdaysToMask
  <2> HIDE DEF S
  <2>2. QED
    BY <2>1, BitValues DEF Bits
<1>3. d \in {1, 2, 3, 4, 5, 6, 7}
  BY DEF Weekdays
<1>4. ASSUME NEW b1 \in {0, 1}, NEW b2 \in {0, 1}, NEW b3 \in {0, 1},
             NEW b4 \in {0, 1}, NEW b5 \in {0, 1}, NEW b6 \in {0, 1},
             NEW b7 \in {0, 1},
             NEW m, m = b1 + 2 * b2 + 4 * b3 + 8 * b4 + 16 * b5 + 32 * b6 + 64 * b7
      PROVE  /\ m \in 0 .. 127
             /\ m % 2 = b1 /\ (m \div 2) % 2 = b2 /\ (m \div 4) % 2 = b3
             /\ (m \div 8) % 2 = b4 /\ (m \div 16) % 2 = b5
             /\ (m \div 32) % 2 = b6 /\ (m \div 64) % 2 = b7
  BY <1>4
<1>5. \A e : b(e) \in {0, 1} /\ (b(e) = 1 <=> e \in S)
  OBVIOUS
<1> HIDE DEF b, S
<1>6. /\ WeekdaysToMask(days) \in 0 .. 127
      /\ WeekdaysToMask(days) % 2 = b(1)
      /\ (WeekdaysToMask(days) \div 2) % 2 = b(2)
      /\ (WeekdaysToMask(days) \div 4) % 2 = b(3)
      /\ (WeekdaysToMask(days) \div 8) % 2 = b(4)
      /\ (WeekdaysToMask(days) \div 16) % 2 = b(5)
      /\ (WeekdaysToMask(days) \div 32) % 2 = b(6)
      /\ (WeekdaysToMask(days) \div 64) % 2 = b(7)
  BY <1>2, <1>4, <1>5
<1>7. QED
  BY <1>3, <1>5, <1>6, BitValues DEF HasBit, S

\* A time of the day has a schedule once it is searched for or to be searched
\* for; an enabled one has a weekday; and what was searched for was executed.
SchedulesHold ==
  /\ \E last \in Nat : schedules \in [Slots ->
       [id : 0 .. last, enabled : BOOLEAN, mask : 0 .. 127]]
  /\ \A t \in Slots : schedules[t].enabled =>
       /\ schedules[t].id # 0
       /\ \E d \in Weekdays : HasBit(schedules[t].mask, d)

SearchesHold ==
  /\ searches \in [Slots \X Days -> Nat]
  /\ \A t \in Slots, d \in Days : searches[<<t, d>>] # 0 =>
       schedules[t].id # 0 /\ <<schedules[t].id, d>> \in executed

\* The inductive invariant of the schedules of a group.
CalendarInv ==
  /\ firstWeekday \in Weekdays
  /\ clock \in [day : Days, slot : Slots]
  /\ SchedulesHold
  /\ SearchesHold
  /\ OneSearchPerDay

\* The times of a day are finitely many numbers.
LEMMA SlotsFinite ==
  ASSUME NEW S \in SUBSET Slots
  PROVE  S \in SUBSET Nat /\ IsFiniteSet(S)
<1>1. S \in SUBSET Nat /\ SlotsPerDay \in Nat /\ \A s \in S : s <= SlotsPerDay
  BY GroupSchedulesAssumption DEF Slots
<1>2. QED
  BY <1>1, FS_BoundedSetOfNaturals

\* An edit keeps the ids there are and gives every time of the request one.
LEMMA RowsWritten ==
  ASSUME SchedulesHold, NEW times \in SUBSET Slots, NEW days \in WeekdayInputs,
         NormalizeWeekdays(days) # {},
         schedules' = RowsFor(times, WeekdaysToMask(days), schedules)
  PROVE  /\ SchedulesHold'
         /\ \A t \in Slots : schedules[t].id # 0 =>
              schedules'[t].id = schedules[t].id
<1>1. PICK last \in Nat : schedules \in [Slots ->
        [id : 0 .. last, enabled : BOOLEAN, mask : 0 .. 127]]
  BY DEF SchedulesHold
<1> DEFINE mask == WeekdaysToMask(days)
           Fresh(t) == {u \in times : u <= t /\ schedules[u].id = 0}
           NewId(t) == IF schedules[t].id # 0 THEN schedules[t].id
                       ELSE LastId + Cardinality(Fresh(t))
           top == LastId + Cardinality(times)
<1>2. /\ mask \in 0 .. 127
      /\ \E d \in Weekdays : HasBit(mask, d)
  <2>1. days \in SUBSET Nat
    BY GroupSchedulesAssumption
  <2>2. PICK d \in Weekdays : d \in NormalizeWeekdays(days)
    BY DEF NormalizeWeekdays
  <2>3. QED
    BY <2>1, <2>2, MaskHoldsDays
<1>3. LastId \in Nat /\ \A t \in Slots : schedules[t].id <= LastId
  <2> DEFINE ids == {schedules[t].id : t \in Slots}
  <2>1. ids \in SUBSET Nat /\ \A i \in ids : i <= last
    BY <1>1
  <2>2. 0 \in Slots
    BY GroupSchedulesAssumption DEF Slots
  <2>3. ids # {}
    BY <2>2
  <2>4. \A t \in Slots : schedules[t].id \in ids
    OBVIOUS
  <2>5. LastId = Max(ids)
    BY DEF LastId
  <2> HIDE DEF ids
  <2>6. IsFiniteSet(ids)
    BY <2>1, FS_BoundedSetOfNaturals
  <2>7. Max(ids) \in ids /\ \A i \in ids : Max(ids) >= i
    BY <2>1, <2>3, <2>6, Extremes
  <2>8. QED
    BY <2>1, <2>4, <2>5, <2>7
<1>4. Cardinality(times) \in Nat
  BY SlotsFinite, FS_CardinalityType
<1>5. ASSUME NEW t \in times, schedules[t].id = 0
      PROVE  Cardinality(Fresh(t)) \in 1 .. Cardinality(times)
  <2>1. t \in Fresh(t) /\ Fresh(t) \in SUBSET times
    BY <1>5, GroupSchedulesAssumption DEF Slots
  <2>2. IsFiniteSet(times)
    BY SlotsFinite
  <2> HIDE DEF Fresh
  <2>3. IsFiniteSet(Fresh(t)) /\ Cardinality(Fresh(t)) <= Cardinality(times)
    BY <2>1, <2>2, FS_Subset
  <2>4. Cardinality(Fresh(t)) \in Nat /\ Cardinality(Fresh(t)) # 0
    BY <2>1, <2>3, FS_CardinalityType, FS_EmptySet
  <2>5. QED
    BY <1>4, <2>3, <2>4
<1>6. top \in Nat
  BY <1>3, <1>4
<1>7. \A t \in Slots :
        schedules'[t] = IF t \notin times
                        THEN [schedules[t] EXCEPT !.enabled = FALSE]
                        ELSE [id |-> NewId(t), enabled |-> TRUE, mask |-> mask]
  BY DEF RowsFor
<1>8. schedules' = [t \in Slots |-> schedules'[t]]
  BY DEF RowsFor
<1>9. \A t \in times : NewId(t) \in 1 .. top
  BY <1>1, <1>3, <1>4, <1>5
<1>10. \A t \in Slots : schedules[t].id \in 0 .. top
  BY <1>1, <1>3, <1>4
<1> HIDE DEF mask, NewId, top
<1>11. ASSUME NEW t \in Slots, t \notin times
       PROVE  /\ schedules'[t] \in
                   [id : 0 .. top, enabled : BOOLEAN, mask : 0 .. 127]
              /\ schedules'[t].id = schedules[t].id
              /\ ~ schedules'[t].enabled
  <2>1. schedules'[t] = [schedules[t] EXCEPT !.enabled = FALSE]
    BY <1>7, <1>11
  <2>2. schedules[t] \in [id : 0 .. last, enabled : BOOLEAN, mask : 0 .. 127]
    BY <1>1
  <2>3. QED
    BY <1>10, <2>1, <2>2
<1>12. ASSUME NEW t \in times
       PROVE  /\ schedules'[t] \in
                   [id : 0 .. top, enabled : BOOLEAN, mask : 0 .. 127]
              /\ schedules[t].id # 0 => schedules'[t].id = schedules[t].id
              /\ schedules'[t].id # 0
              /\ schedules'[t].mask = mask
  <2>1. schedules'[t] = [id |-> NewId(t), enabled |-> TRUE, mask |-> mask]
    BY <1>7
  <2>2. NewId(t) \in 0 .. top /\ NewId(t) # 0
    BY <1>6, <1>9
  <2>3. schedules[t].id # 0 => NewId(t) = schedules[t].id
    BY DEF NewId
  <2>4. QED
    BY <1>2, <2>1, <2>2, <2>3
<1>13. \A t \in Slots :
         /\ schedules'[t] \in [id : 0 .. top, enabled : BOOLEAN, mask : 0 .. 127]
         /\ schedules[t].id # 0 => schedules'[t].id = schedules[t].id
         /\ schedules'[t].enabled =>
              /\ schedules'[t].id # 0
              /\ \E d \in Weekdays : HasBit(schedules'[t].mask, d)
  BY <1>2, <1>11, <1>12
<1>14. QED
  BY <1>6, <1>8, <1>13 DEF SchedulesHold

(***************************************************************************)
(* The invariant holds however a group is created, edited and searched.    *)
(***************************************************************************)
THEOREM CalendarInvHolds == CalendarSpec => []CalendarInv
<1>1. CalendarInit => CalendarInv
  <2>1. SUFFICES ASSUME CalendarInit PROVE CalendarInv
    OBVIOUS
  <2>2. 0 \in Slots /\ 0 \in Days
    BY GroupSchedulesAssumption DEF Slots, Days
  <2>3. NoSchedule \in [id : 0 .. 0, enabled : BOOLEAN, mask : 0 .. 127]
    BY DEF NoSchedule
  <2>4. SchedulesHold
    BY <2>1, <2>3 DEF CalendarInit, SchedulesHold, NoSchedule
  <2>5. SearchesHold /\ OneSearchPerDay
    BY <2>1 DEF CalendarInit, SearchesHold, OneSearchPerDay
  <2>6. QED
    BY <2>1, <2>2, <2>4, <2>5 DEF CalendarInit, CalendarInv
<1>2. CalendarInv /\ [CalendarNext]_calendarVars => CalendarInv'
  <2>1. SUFFICES ASSUME CalendarInv, [CalendarNext]_calendarVars
                 PROVE  CalendarInv'
    OBVIOUS
  <2>2. ASSUME NEW times \in SUBSET Slots, NEW days \in WeekdayInputs,
               NormalizeWeekdays(days) # {},
               schedules' = RowsFor(times, WeekdaysToMask(days), schedules),
               UNCHANGED <<firstWeekday, clock, executed, searches>>
        PROVE  CalendarInv'
    <3>1. /\ SchedulesHold'
          /\ \A t \in Slots : schedules[t].id # 0 =>
               schedules'[t].id = schedules[t].id
      BY <2>1, <2>2, RowsWritten DEF CalendarInv
    <3>2. SearchesHold'
      BY <2>1, <2>2, <3>1 DEF CalendarInv, SearchesHold
    <3>3. QED
      BY <2>1, <2>2, <3>1, <3>2 DEF CalendarInv, OneSearchPerDay
  <2>3. ASSUME NEW times \in SUBSET Slots, NEW days \in WeekdayInputs,
               NEW auto \in BOOLEAN, CreateGroup(times, days, auto)
        PROVE  CalendarInv'
    BY <2>2, <2>3 DEF CreateGroup
  <2>4. ASSUME NEW times \in SUBSET Slots, NEW days \in WeekdayInputs,
               NEW auto \in BOOLEAN, NEW status \in {"ACTIVE", "DISABLED"},
               UpdateGroup(times, days, auto, status)
        PROVE  CalendarInv'
    BY <2>2, <2>4 DEF UpdateGroup, EditSchedules
  <2>5. ASSUME NEW t \in Slots, Search(t)
        PROVE  CalendarInv'
    <3> DEFINE day == clock.day
               td == <<t, day>>
    <3>1. day \in Days /\ td \in Slots \X Days
      BY <2>1 DEF CalendarInv
    <3>2. searches \in [Slots \X Days -> Nat]
      BY <2>1 DEF CalendarInv, SearchesHold
    <3>3. schedules[t].id # 0 /\ <<schedules[t].id, day>> \notin executed
      BY <2>1, <2>5 DEF CalendarInv, SchedulesHold, Search, DueNow
    <3>4. searches[td] = 0
      BY <2>1, <3>1, <3>3 DEF CalendarInv, SearchesHold
    <3>5. /\ executed' = executed \cup {<<schedules[t].id, day>>}
          /\ searches' = [searches EXCEPT ![td] = 1]
          /\ UNCHANGED <<firstWeekday, clock, group, schedules>>
      BY <2>5, <3>4 DEF Search
    <3>6. SchedulesHold'
      BY <2>1, <3>5 DEF CalendarInv, SchedulesHold
    <3> HIDE DEF day
    <3>7. SearchesHold'
      BY <2>1, <3>1, <3>2, <3>3, <3>5 DEF CalendarInv, SearchesHold
    <3>8. OneSearchPerDay'
      BY <2>1, <3>1, <3>2, <3>5 DEF CalendarInv, OneSearchPerDay
    <3>9. QED
      BY <2>1, <3>5, <3>6, <3>7, <3>8 DEF CalendarInv
  <2>6. ASSUME ClockTicks
        PROVE  CalendarInv'
    <3>1. clock' \in [day : Days, slot : Slots]
      BY <2>1, <2>6, GroupSchedulesAssumption
      DEF CalendarInv, ClockTicks, Slots, Days
    <3>2. QED
      BY <2>1, <2>6, <3>1
      DEF CalendarInv, ClockTicks, SchedulesHold, SearchesHold, OneSearchPerDay
  <2>7. ASSUME UNCHANGED calendarVars
        PROVE  CalendarInv'
    BY <2>1, <2>7
    DEF CalendarInv, calendarVars, SchedulesHold, SearchesHold, OneSearchPerDay
  <2>8. QED
    BY <2>1, <2>3, <2>4, <2>5, <2>6, <2>7 DEF CalendarNext
<1>3. QED
  BY <1>1, <1>2, PTL DEF CalendarSpec

\* What the bound on the ids and the table of the executions add to it.
CalendarBounded ==
  /\ group \in [status : {"ABSENT", "ACTIVE", "DISABLED"}, auto : BOOLEAN]
  /\ \A t \in Slots : schedules[t].id <= MaxSchedules
  /\ executed \subseteq (1 .. MaxSchedules) \X Days

(***************************************************************************)
(* The tables of the schedules hold rows of their columns' types: a mask   *)
(* has seven bits, whatever weekdays a request holds, and only schedules   *)
(* that have an id are executed.                                           *)
(***************************************************************************)
THEOREM CalendarTypeCorrect == CalendarSpec => []CalendarTypeOK
<1>1. CalendarInit => CalendarBounded
  BY GroupSchedulesAssumption DEF CalendarInit, CalendarBounded, NoSchedule
<1>2. ASSUME CalendarInv, CalendarBounded, [CalendarNext]_calendarVars
      PROVE  CalendarBounded'
  <2>1. ASSUME NEW t \in Slots, Search(t)
        PROVE  CalendarBounded'
    <3>1. schedules[t].id \in Nat /\ schedules[t].id # 0
      BY <1>2, <2>1 DEF CalendarInv, SchedulesHold, Search, DueNow
    <3>2. schedules[t].id \in 1 .. MaxSchedules /\ clock.day \in Days
      BY <1>2, <3>1, GroupSchedulesAssumption DEF CalendarInv, CalendarBounded
    <3>3. QED
      BY <1>2, <2>1, <3>2 DEF CalendarBounded, Search
  <2>2. ASSUME NEW times \in SUBSET Slots, NEW days \in WeekdayInputs,
               NEW auto \in BOOLEAN,
               \/ CreateGroup(times, days, auto)
               \/ \E status \in {"ACTIVE", "DISABLED"} :
                    UpdateGroup(times, days, auto, status)
        PROVE  CalendarBounded'
    BY <1>2, <2>2 DEF CalendarBounded, CreateGroup, UpdateGroup
  <2>3. CASE ClockTicks \/ UNCHANGED calendarVars
    BY <1>2, <2>3 DEF CalendarBounded, ClockTicks, calendarVars
  <2>4. QED
    BY <1>2, <2>1, <2>2, <2>3 DEF CalendarNext
<1>3. ASSUME CalendarInv, CalendarBounded
      PROVE  CalendarTypeOK
  <2>1. PICK last \in Nat : schedules \in [Slots ->
          [id : 0 .. last, enabled : BOOLEAN, mask : 0 .. 127]]
    BY <1>3 DEF CalendarInv, SchedulesHold
  <2>2. ASSUME NEW t \in Slots
        PROVE  schedules[t] \in
                 [id : 0 .. MaxSchedules, enabled : BOOLEAN, mask : 0 .. 127]
    <3>1. schedules[t] \in [id : 0 .. last, enabled : BOOLEAN, mask : 0 .. 127]
      BY <2>1
    <3>2. schedules[t].id \in 0 .. MaxSchedules
      BY <1>3, <3>1, GroupSchedulesAssumption DEF CalendarBounded
    <3>3. QED
      BY <3>1, <3>2
  <2>3. schedules \in [Slots ->
          [id : 0 .. MaxSchedules, enabled : BOOLEAN, mask : 0 .. 127]]
    BY <2>1, <2>2
  <2>4. QED
    BY <1>3, <2>3 DEF CalendarInv, CalendarBounded, SearchesHold, CalendarTypeOK
<1>4. QED
  BY <1>1, <1>2, <1>3, CalendarInvHolds, PTL DEF CalendarSpec

(***************************************************************************)
(* A time of the day is searched for once on a day, for any number of      *)
(* times, days and edits: an edit keeps the id of a schedule, by which     *)
(* schedule_executions knows what was searched for.                        *)
(***************************************************************************)
THEOREM SearchedOnceADay == CalendarSpec => []OneSearchPerDay
BY CalendarInvHolds, PTL DEF CalendarInv

(***************************************************************************)
(* What list names as the next search is the first moment at which the     *)
(* worker's own condition will start one, for any times of the day and any *)
(* weekdays, whatever a request holds: the mask of an enabled schedule has *)
(* a bit, so that no list falls back on the default weekdays, and looking  *)
(* a week from today is enough because weekdays come again after seven.    *)
(***************************************************************************)
THEOREM NextRunAlwaysTheNextSearch == CalendarSpec => []NextRunIsTheNextSearch
<1>1. CalendarInv => NextRunIsTheNextSearch
  <2> DEFINE StartsAt(offset, t) ==
        /\ group.status = "ACTIVE" /\ group.auto /\ schedules[t].enabled
        /\ HasBit(schedules[t].mask, WeekdayOf(clock.day + offset))
        /\ offset = 0 => t > clock.slot
             ahead == {m \in (0 .. 14) \X Slots : StartsAt(m[1], m[2])}
             Before(m, n) == m[1] < n[1] \/ (m[1] = n[1] /\ m[2] < n[2])
             days == {offset \in Lookahead : TimesAhead(offset) # {}}
             active == group.status = "ACTIVE" /\ group.auto
  <2>1. SUFFICES ASSUME CalendarInv
                 PROVE  IF ahead = {} THEN NextRunAt = <<>>
                        ELSE /\ NextRunAt \in ahead
                             /\ \A m \in ahead : ~Before(m, NextRunAt)
    BY DEF NextRunIsTheNextSearch
  <2>2. /\ clock.day \in Nat
        /\ \A offset \in Nat : WeekdayOf(clock.day + offset) \in Weekdays
        /\ \A offset \in 8 .. 14 :
             WeekdayOf(clock.day + offset) = WeekdayOf(clock.day + (offset - 7))
    <3>1. clock.day \in Nat /\ firstWeekday \in 1 .. 7
      BY <2>1 DEF CalendarInv, Days, Weekdays
    <3> DEFINE x == firstWeekday - 1 + clock.day
    <3>2. x \in Nat
      BY <3>1
    <3>3. \A offset \in Int : WeekdayOf(clock.day + offset) = ((x + offset) % 7) + 1
      BY <3>1 DEF WeekdayOf
    <3> HIDE DEF x
    <3>4. \A offset \in Nat : (x + offset) % 7 \in 0 .. 6
      BY <3>2
    <3>5. ASSUME NEW n \in Nat
          PROVE  (n + 7) % 7 = n % 7
      OBVIOUS
    <3>6. ASSUME NEW offset \in 8 .. 14
          PROVE  (x + offset) % 7 = (x + (offset - 7)) % 7
      <4>1. x + (offset - 7) \in Nat /\ x + offset = (x + (offset - 7)) + 7
        BY <3>2
      <4>2. QED
        BY <3>5, <4>1
    <3>7. QED
      BY <3>1, <3>3, <3>4, <3>6 DEF Weekdays
  <2>3. ASSUME active, NEW offset \in 0 .. 14, NEW t \in Slots
        PROVE  StartsAt(offset, t) <=> t \in TimesAhead(offset)
    <3>1. schedules[t].enabled =>
            \A d \in Weekdays :
              HasBit(schedules[t].mask, d) <=> d \in MaskToWeekdays(schedules[t].mask)
      BY <2>1 DEF CalendarInv, SchedulesHold, MaskToWeekdays
    <3>2. WeekdayOf(clock.day + offset) \in Weekdays
      BY <2>2
    <3>3. QED
      BY <2>3, <3>1, <3>2 DEF TimesAhead
  <2>4. ASSUME NEW offset \in 8 .. 14, NEW t \in Slots, StartsAt(offset, t)
        PROVE  offset - 7 \in 1 .. 7 /\ StartsAt(offset - 7, t)
    BY <2>2, <2>4
  <2>5. ASSUME active, NEW m \in ahead
        PROVE  \E day \in days : day <= m[1]
    <3>1. m[1] \in 0 .. 14 /\ m[2] \in Slots /\ StartsAt(m[1], m[2])
      OBVIOUS
    <3> HIDE DEF StartsAt, ahead
    <3>2. CASE m[1] \in 0 .. 7
      BY <2>3, <2>5, <3>1, <3>2 DEF Lookahead
    <3>3. CASE m[1] \in 8 .. 14
      <4>1. m[1] - 7 \in 0 .. 7 /\ m[1] - 7 <= m[1]
        BY <3>3
      <4>2. m[2] \in TimesAhead(m[1] - 7)
        BY <2>3, <2>4, <2>5, <3>1, <3>3, <4>1
      <4>3. QED
        BY <4>1, <4>2 DEF Lookahead
    <3>4. QED
      BY <3>1, <3>2, <3>3
  <2>6. CASE ~ active
    BY <2>6 DEF NextRunAt
  <2>7. CASE active /\ days = {}
    <3>1. ahead = {}
      BY <2>5, <2>7
    <3>2. NextRunAt = <<>>
      BY <2>7 DEF NextRunAt, NextScheduledAt
    <3>3. QED
      BY <3>1, <3>2
  <2>8. CASE active /\ days # {}
    <3> DEFINE first == Min(days)
               time == Min(TimesAhead(first))
    <3>1. first \in days /\ \A d \in days : first <= d
      <4>1. days \in SUBSET Nat /\ 7 \in Nat /\ \A d \in days : d <= 7
        BY DEF Lookahead
      <4> HIDE DEF days
      <4>2. QED
        BY <2>8, <4>1, FS_BoundedSetOfNaturals, Extremes
    <3>2. time \in TimesAhead(first) /\ \A t \in TimesAhead(first) : time <= t
      <4>1. TimesAhead(first) \in SUBSET Slots /\ TimesAhead(first) # {}
        BY <3>1 DEF TimesAhead
      <4> HIDE DEF first
      <4>2. QED
        BY <4>1, SlotsFinite, Extremes
    <3>3. NextRunAt = <<first, time>>
      BY <2>8 DEF NextRunAt, NextScheduledAt
    <3>4. first \in 0 .. 7 /\ time \in Slots
      BY <3>1, <3>2 DEF Lookahead, TimesAhead
    <3>5. <<first, time>> \in ahead
      BY <2>3, <2>8, <3>2, <3>4
    <3>6. ASSUME NEW m \in ahead
          PROVE  ~ Before(m, <<first, time>>)
      <4>1. m[1] \in 0 .. 14 /\ m[2] \in Slots /\ StartsAt(m[1], m[2])
        BY <3>6
      <4>2. first <= m[1]
        BY <2>5, <2>8, <3>1, <3>4, <3>6, <4>1 DEF Lookahead
      <4>3. m[1] = first => time <= m[2]
        BY <2>3, <2>8, <3>2, <4>1
      <4> HIDE DEF first, time
      <4>4. m[2] \in Nat /\ time \in Nat
        BY <3>4, <4>1, SlotsFinite
      <4>5. QED
        BY <3>4, <4>1, <4>2, <4>3, <4>4
    <3>7. QED
      BY <3>3, <3>5, <3>6
  <2>9. QED
    BY <2>6, <2>7, <2>8
<1>2. QED
  BY <1>1, CalendarInvHolds, PTL

-----------------------------------------------------------------------------
(***************************************************************************)
(* The import jobs of the earlier API tree.                                *)
(***************************************************************************)

\* A job that waits has a claim left.
WaitingHasClaimLeft ==
  \A j \in ImportJobIds :
    importJobs[j].status = "QUEUED" => importJobs[j].attempts < MaxClaims

EarlierInv == EarlierTypeOK /\ WaitingHasClaimLeft

\* The jobs that a claim finds have their types, and a claim left.
LEMMA RecoveredHaveClaimLeft ==
  ASSUME EarlierInv
  PROVE  /\ Recovered(importJobs) \in [ImportJobIds -> ImportJob]
         /\ \A j \in ImportJobIds : Recovered(importJobs)[j].status = "QUEUED" =>
              Recovered(importJobs)[j].attempts < MaxClaims
<1>1. ASSUME NEW j \in ImportJobIds
      PROVE  /\ Recovered(importJobs)[j] \in ImportJob
             /\ Recovered(importJobs)[j].status = "QUEUED" =>
                  Recovered(importJobs)[j].attempts < MaxClaims
  <2>1. /\ importJobs[j] \in ImportJob
        /\ importJobs[j].status = "QUEUED" => importJobs[j].attempts < MaxClaims
    BY DEF EarlierInv, EarlierTypeOK, WaitingHasClaimLeft
  <2>2. Recovered(importJobs)[j] =
          CASE GivenUp(importJobs[j]) ->
                 [importJobs[j] EXCEPT !.status = "FAILED", !.stale = FALSE]
            [] TakenBack(importJobs[j]) ->
                 [importJobs[j] EXCEPT !.status = "QUEUED", !.connector = NoAgent,
                                       !.stale = FALSE]
            [] OTHER -> importJobs[j]
    BY DEF Recovered
  <2>3. CASE GivenUp(importJobs[j])
    BY <2>1, <2>2, <2>3, EarlierImportJobsAssumption
       DEF ImportJob, GivenUp, TakenBack, Abandoned
  <2>4. CASE ~GivenUp(importJobs[j]) /\ TakenBack(importJobs[j])
    BY <2>1, <2>2, <2>4 DEF ImportJob, GivenUp, TakenBack, Abandoned
  <2>5. CASE ~GivenUp(importJobs[j]) /\ ~TakenBack(importJobs[j])
    BY <2>1, <2>2, <2>5
  <2>6. QED
    BY <2>3, <2>4, <2>5
<1>2. QED
  BY <1>1 DEF Recovered

\* A claim takes a job that waits, the earliest one, and counts.
LEMMA ClaimsCount ==
  ASSUME NEW c \in Agents, NEW found, Claims(c, found),
         found \in [ImportJobIds -> ImportJob],
         \A j \in ImportJobIds : found[j].status = "QUEUED" => found[j].attempts < MaxClaims,
         EarlierInv, UNCHANGED <<repository, registered, storedBy>>
  PROVE  EarlierInv'
<1> DEFINE mine == ClaimableBy(c, found)
<1>1. CASE mine = {}
  BY <1>1 DEF Claims, EarlierInv, EarlierTypeOK, WaitingHasClaimLeft
<1>2. CASE mine # {}
  <2>1. mine \in SUBSET Nat /\ IsFiniteSet(mine)
    <3>1. mine \in SUBSET Nat /\ MaxJobs \in Nat /\ \A j \in mine : j <= MaxJobs
      BY EarlierImportJobsAssumption DEF ClaimableBy, ImportJobIds
    <3> HIDE DEF mine
    <3>2. QED
      BY <3>1, FS_BoundedSetOfNaturals
  <2>2. Min(mine) \in mine
    <3> HIDE DEF mine
    <3> QED BY <1>2, <2>1, Extremes
  <2>3. PICK j \in ImportJobIds :
          /\ found[j].status = "QUEUED"
          /\ importJobs' = Taken(found, j, c)
          /\ agentWork' \in {agentWork,
                             [agentWork EXCEPT ![c] = [at |-> "working", job |-> j]]}
    BY <1>2, <2>2 DEF Claims, ClaimableBy
  <2>4. /\ found[j].attempts + 1 \in 0 .. MaxClaims
        /\ [at |-> "working", job |-> j] \in AgentWork
    BY <2>3, EarlierImportJobsAssumption DEF ImportJob, AgentWork
  <2>5. [status |-> "RUNNING", connector |-> c, attempts |-> found[j].attempts + 1,
         stale |-> FALSE] \in ImportJob
    BY <2>4 DEF ImportJob
  <2>6. importJobs' \in [ImportJobIds -> ImportJob]
    BY <2>3, <2>5 DEF Taken
  <2>7. agentWork' \in [Agents -> AgentWork]
    BY <2>3, <2>4 DEF EarlierInv, EarlierTypeOK
  <2>8. \A i \in ImportJobIds : importJobs'[i].status = "QUEUED" =>
          importJobs'[i].attempts < MaxClaims
    BY <2>3 DEF Taken
  <2>9. QED
    BY <2>6, <2>7, <2>8 DEF EarlierInv, EarlierTypeOK, WaitingHasClaimLeft
<1>3. QED
  BY <1>1, <1>2

\* A report keeps the count of the claims, and does not put a job back.
LEMMA ReportKeepsClaims ==
  ASSUME EarlierInv, NEW j \in ImportJobIds,
         NEW status \in {"RUNNING", "COMPLETED", "FAILED"},
         importJobs' = [importJobs EXCEPT ![j] = Reported(@, status)]
  PROVE  importJobs' \in [ImportJobIds -> ImportJob] /\ WaitingHasClaimLeft'
<1>1. importJobs \in [ImportJobIds -> ImportJob] /\ WaitingHasClaimLeft
  BY DEF EarlierInv, EarlierTypeOK
<1>2. Reported(importJobs[j], status) \in ImportJob
  BY <1>1 DEF Reported, ImportJob
<1>3. Reported(importJobs[j], status).status # "QUEUED"
  BY <1>1 DEF Reported, ImportJob
<1>4. QED
  BY <1>1, <1>2, <1>3 DEF WaitingHasClaimLeft

LEMMA EarlierInvHolds ==
  EarlierInit /\ [][EarlierNext]_earlierVars => []EarlierInv
<1>1. EarlierInit => EarlierInv
  <2> SUFFICES ASSUME EarlierInit PROVE EarlierInv
    OBVIOUS
  <2>1. NoJob \in ImportJob /\ IdleAgent \in AgentWork
    BY EarlierImportJobsAssumption DEF NoJob, ImportJob, IdleAgent, AgentWork
  <2>2. QED
    BY <2>1 DEF EarlierInit, EarlierInv, EarlierTypeOK, WaitingHasClaimLeft, NoJob
<1>2. EarlierInv /\ [EarlierNext]_earlierVars => EarlierInv'
  <2> SUFFICES ASSUME EarlierInv, [EarlierNext]_earlierVars
               PROVE  EarlierInv'
    OBVIOUS
  <2> USE DEF EarlierInv
  <2>1. EarlierTypeOK
    OBVIOUS
  <2>2. \A c \in Agents : agentWork[c] \in AgentWork
    BY DEF EarlierTypeOK
  <2>3. \A c \in Agents : agentWork[c].at # "idle" => agentWork[c].job \in ImportJobIds
    BY <2>2 DEF AgentWork
  <2>4. IdleAgent \in AgentWork
    BY DEF IdleAgent, AgentWork
  <2>5. ASSUME NEW j \in ImportJobIds, CreateImportJob(j)
        PROVE  EarlierInv'
    <3>1. NewJob \in ImportJob /\ NewJob.attempts < MaxClaims
      <4>1. NoJob \in ImportJob /\ NoJob.attempts = 0
        BY EarlierImportJobsAssumption DEF NoJob, ImportJob
      <4>2. NewJob \in ImportJob /\ NewJob.attempts = NoJob.attempts
        BY <4>1 DEF NewJob, ImportJob
      <4>3. QED
        BY <4>1, <4>2, EarlierImportJobsAssumption
    <3>2. QED
      BY <2>5, <3>1 DEF CreateImportJob, EarlierTypeOK, WaitingHasClaimLeft
  <2>6. ASSUME NEW j \in ImportJobIds, TenMinutesPass(j)
        PROVE  EarlierInv'
    <3>1. importJobs[j] \in ImportJob
      BY DEF EarlierTypeOK
    <3>2. /\ [importJobs[j] EXCEPT !.stale = TRUE] \in ImportJob
          /\ [importJobs[j] EXCEPT !.stale = TRUE].status # "QUEUED"
      BY <2>6, <3>1 DEF ImportJob, TenMinutesPass
    <3>3. importJobs' = [importJobs EXCEPT ![j] = [importJobs[j] EXCEPT !.stale = TRUE]]
      BY <2>6 DEF TenMinutesPass
    <3>4. QED
      BY <2>6, <3>2, <3>3 DEF TenMinutesPass, EarlierTypeOK, WaitingHasClaimLeft
  <2>7. ASSUME NEW c \in Agents,
               CreateConnector(c) \/ Heartbeat(c) \/ DisableConnector(c)
        PROVE  EarlierInv'
    <3>1. registered' \in [Agents -> {"NONE", "PENDING", "ONLINE", "DISABLED"}]
      BY <2>7 DEF EarlierTypeOK, CreateConnector, Heartbeat, Seen, DisableConnector
    <3>2. UNCHANGED <<repository, importJobs, agentWork, storedBy>>
      BY <2>7 DEF CreateConnector, Heartbeat, DisableConnector
    <3>3. QED
      BY <3>1, <3>2 DEF EarlierTypeOK, WaitingHasClaimLeft
  <2>8. ASSUME NEW c \in Agents, ClaimNextJob(c)
        PROVE  EarlierInv'
    <3>1. CASE Claims(c, importJobs)
      BY <2>8, <3>1, ClaimsCount
         DEF ClaimNextJob, EarlierTypeOK, WaitingHasClaimLeft
    <3>2. CASE Claims(c, Recovered(importJobs))
      <4> DEFINE found == Recovered(importJobs)
      <4>1. /\ found \in [ImportJobIds -> ImportJob]
            /\ \A j \in ImportJobIds : found[j].status = "QUEUED" =>
                 found[j].attempts < MaxClaims
        BY RecoveredHaveClaimLeft
      <4>2. Claims(c, found) /\ UNCHANGED <<repository, registered, storedBy>>
        BY <2>8, <3>2 DEF ClaimNextJob
      <4> HIDE DEF found, EarlierInv
      <4>3. EarlierInv
        BY DEF EarlierInv
      <4>4. QED
        BY <4>1, <4>2, <4>3, ClaimsCount
    <3>3. QED
      BY <2>8, <3>1, <3>2 DEF ClaimNextJob, MemoryClaims, MySqlClaims
  <2>9. ASSUME NEW c \in Agents, UpdateProgress(c)
        PROVE  EarlierInv'
    BY <2>3, <2>9, ReportKeepsClaims DEF UpdateProgress, EarlierTypeOK
  <2>10. ASSUME NEW c \in Agents, NEW status \in {"COMPLETED", "FAILED"},
                Report(c, status)
         PROVE  EarlierInv'
    <3>1. agentWork' \in [Agents -> AgentWork]
      BY <2>4, <2>10 DEF Report, EarlierTypeOK
    <3>2. agentWork[c].job \in ImportJobIds
      BY <2>3, <2>10 DEF Report
    <3>3. importJobs' \in [ImportJobIds -> ImportJob] /\ WaitingHasClaimLeft'
      BY <2>10, <3>2, ReportKeepsClaims DEF Report, EarlierTypeOK, WaitingHasClaimLeft
    <3>4. QED
      BY <2>10, <3>1, <3>3 DEF Report, EarlierTypeOK
  <2>11. ASSUME NEW c \in Agents,
                \/ AssertOwnedRunningJob(c) \/ StoreBatch(c) \/ AgentRestarts(c)
         PROVE  EarlierInv'
    <3>1. /\ agentWork[c].job \in ImportJobIds
          /\ agentWork[c].at # "idle"
      BY <2>3, <2>11 DEF AssertOwnedRunningJob, StoreBatch, AgentRestarts
    <3>2. \A place \in {"working", "storing"} :
            [agentWork[c] EXCEPT !.at = place] \in AgentWork
      BY <2>2, <3>1 DEF AgentWork
    <3>3. /\ agentWork' \in [Agents -> AgentWork]
          /\ storedBy' \in [ImportJobIds -> SUBSET Agents]
      BY <2>4, <2>11, <3>1, <3>2
         DEF AssertOwnedRunningJob, StoreBatch, Stored, AgentRestarts, EarlierTypeOK
    <3>4. UNCHANGED <<repository, importJobs, registered>>
      BY <2>11 DEF AssertOwnedRunningJob, StoreBatch, AgentRestarts
    <3>5. QED
      BY <3>3, <3>4 DEF EarlierTypeOK, WaitingHasClaimLeft
  <2>12. CASE UNCHANGED earlierVars
    BY <2>12 DEF earlierVars, EarlierTypeOK, WaitingHasClaimLeft
  <2>13. QED
    BY <2>5, <2>6, <2>7, <2>8, <2>9, <2>10, <2>11, <2>12
       DEF EarlierNext, CompleteJob, FailJob
<1>3. QED
  BY <1>1, <1>2, PTL

-----------------------------------------------------------------------------
(***************************************************************************)
(* All of what works by itself.                                            *)
(***************************************************************************)

(***************************************************************************)
(* Every component's variables keep to their types, for every value of the *)
(* constants: a behaviour of the whole is, for each component, a behaviour *)
(* of its own.                                                             *)
(***************************************************************************)
THEOREM BackgroundTypeCorrect == MCSpec => []BackgroundTypeOK
<1>1. MCInit =>
        /\ CalendarInit /\ SchedulingInit /\ OutboxInit /\ MigrationsInit
        /\ CollectionInit /\ ArchiveInit /\ LeaseInit /\ EarlierInit
  BY DEF MCInit
<1>2. [MCNext]_vars =>
        /\ [CalendarNext]_calendarVars /\ [SchedulingNext]_schedulingVars
        /\ [OutboxNext]_outboxVars /\ [MigrationsNext]_migrationVars
        /\ [CollectionNext]_collectionVars /\ [ArchiveNext]_archiveVars
        /\ [LeaseNext]_leaseVars /\ [EarlierNext]_earlierVars
  BY DEF MCNext, vars, CalendarMoves, SchedulingMoves, OutboxMoves, MigrationsMove,
         CollectionMoves, ArchiveMoves, LeaseMoves, EarlierMoves
<1>3. /\ MCSpec => []CalendarTypeOK
      /\ MCSpec => []MigrationsTypeOK
      /\ MCSpec => []CollectionTypeOK
      /\ MCSpec => []ArchiveTypeOK
      /\ MCSpec => []LeaseTypeOK
  BY <1>1, <1>2, CalendarTypeCorrect, MigrationsTypeCorrect, CollectionAlwaysTyped,
     ArchiveTypeCorrect, TypeCorrect, PTL
     DEF MCSpec, CalendarSpec, MigrationsSpec, CollectionSpec, ArchiveSpec, LeaseSpec
<1>4. SchedulingInv => SchedulingTypeOK
  BY DEF SchedulingInv
<1>5. OutboxInv => OutboxTypeOK
  BY DEF OutboxInv
<1>6. EarlierInv => EarlierTypeOK
  BY DEF EarlierInv
<1>7. /\ MCSpec => []SchedulingTypeOK
      /\ MCSpec => []OutboxTypeOK
      /\ MCSpec => []EarlierTypeOK
  BY <1>1, <1>2, <1>4, <1>5, <1>6, SchedulingInvHolds, OutboxInvHolds,
     EarlierInvHolds, PTL DEF MCSpec
<1>8. /\ CalendarTypeOK /\ SchedulingTypeOK /\ OutboxTypeOK /\ MigrationsTypeOK
      /\ CollectionTypeOK /\ ArchiveTypeOK /\ LeaseTypeOK /\ EarlierTypeOK
      => BackgroundTypeOK
  BY DEF BackgroundTypeOK
<1>9. QED
  BY <1>3, <1>7, <1>8, PTL
=============================================================================
