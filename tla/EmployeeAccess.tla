--------------------------- MODULE EmployeeAccess ---------------------------
(***************************************************************************)
(* How one person gets in and out: an identity with a PIN, an employee of  *)
(* hers in each company, the sessions, and the selections that a login     *)
(* leaves when there are several companies to choose from.                 *)
(*                                                                         *)
(* A login reads the identity in one statement and writes what it decided  *)
(* in others, so requests see each other half done; selecting and          *)
(* switching a company are transactions.  A signature asks for the PIN     *)
(* too, or by a link lets her choose it, and writes the same counter       *)
(* without a session.  The master resets the PIN or changes the status of  *)
(* an employee at any moment.                                              *)
(***************************************************************************)
EXTENDS Naturals, Sequences, FiniteSets

CONSTANTS
  Requests,       \* requests that may be under way at once
  Employments,    \* employees of the identity, one in each company
  Pins,
  MaxWrongPins,   \* 5: the fifth wrong PIN locks the identity
  MaxRequests,    \* bound on the requests
  MaxOrders,      \* bound on resets, changes of status and logouts
  NoPin,          \* pin_hash is NULL
  NoEmployment

ASSUME EmployeeAccessAssumption ==
  /\ MaxWrongPins \in Nat \ {0} /\ MaxRequests \in Nat /\ MaxOrders \in Nat
  /\ NoPin \notin Pins /\ NoEmployment \notin Employments

VARIABLES
  identity,    \* employee_identities
  employment,  \* employees.status
  sessions,    \* employee_sessions, in the order of their ids
  selections,  \* employee_company_selections
  request,     \* what a request remembers
  disabling,   \* employees disabled whose sessions are not yet revoked
  wrongPins,   \* wrong PINs since the counter was set to zero
  overlapped,  \* requests that overlap may have written the counter since
  resets,      \* resets of the PIN
  calls,       \* requests left
  orders       \* orders left

ghosts == <<wrongPins, overlapped, resets>>
accessVars ==
  <<identity, employment, sessions, selections, request, disabling, ghosts,
    calls, orders>>

Quiet ==
  [at |-> "idle", pin |-> NoPin, read |-> NoPin, legacy |-> FALSE,
   attempts |-> 0, employment |-> NoEmployment, selection |-> 0, session |-> 0]

\* Rows and memories hold what their columns say.
AccessTypeOK ==
  /\ identity \in [pin : Pins \cup {NoPin}, legacy : BOOLEAN, attempts : Nat,
                   locked : BOOLEAN]
  /\ employment \in [Employments -> {"ACTIVE", "DISABLED", "TERMINATED"}]
  /\ sessions \in Seq([employment : Employments, live : BOOLEAN,
                       selection : Nat, resets : Nat])
  /\ selections \in Seq({"OPEN", "USED", "EXPIRED"})
  /\ request \in [Requests ->
       [at : {"idle", "verify", "confirm", "set", "activate", "rehash",
              "links", "open", "touch", "select", "switch"},
        pin : Pins \cup {NoPin}, read : Pins \cup {NoPin}, legacy : BOOLEAN,
        attempts : Nat, employment : Employments \cup {NoEmployment},
        selection : 0 .. Len(selections), session : 0 .. Len(sessions)]]
  /\ disabling \subseteq Employments
  /\ wrongPins \in Nat /\ overlapped \in BOOLEAN /\ resets \in Nat
  /\ calls \in 0 .. MaxRequests /\ orders \in 0 .. MaxOrders

AccessInit ==
  /\ identity \in [pin : Pins \cup {NoPin}, legacy : BOOLEAN, attempts : {0},
                   locked : {FALSE}]
  /\ identity.pin = NoPin => ~ identity.legacy
  /\ employment \in [Employments -> {"ACTIVE", "TERMINATED"}]
  /\ sessions = <<>> /\ selections = <<>>
  /\ request = [q \in Requests |-> Quiet]
  /\ disabling = {}
  /\ wrongPins = 0 /\ overlapped = FALSE /\ resets = 0
  /\ calls = MaxRequests /\ orders = MaxOrders

OthersUnderWay(q) == \E o \in Requests \ {q} : request[o].at # "idle"

Ends(q) == request' = [request EXCEPT ![q] = Quiet]

GoesOn(q, place) == request' = [request EXCEPT ![q].at = place]

\* The links of the identity that let in: not those that are disabled.
Links == {e \in Employments : employment[e] \in {"ACTIVE", "TERMINATED"}}

Starts(q, memory) ==
  /\ request[q].at = "idle" /\ calls > 0
  /\ request' = [request EXCEPT ![q] = memory]
  /\ calls' = calls - 1
  /\ overlapped' = (overlapped \/ OthersUnderWay(q))
  /\ UNCHANGED <<identity, employment, sessions, selections, disabling,
                 wrongPins, resets, orders>>

\* employeeLogin reads the identity, which must have a PIN and no lock.
Login(q) ==
  \E p \in Pins :
    /\ identity.pin # NoPin /\ ~ identity.locked
    /\ Starts(q, [Quiet EXCEPT !.at = "verify", !.pin = p,
                               !.read = identity.pin,
                               !.legacy = identity.legacy,
                               !.attempts = identity.attempts])

\* firstAccess reads it too, and goes on only without a PIN.
FirstAccess(q) ==
  \E p \in Pins :
    /\ identity.pin = NoPin
    /\ Starts(q, [Quiet EXCEPT !.at = "set", !.pin = p])

\* verifyExistingPin reads it for a signature, in the portal or by a link, or
\* to show the payslip of a link: nobody need be logged in.
ConfirmPin(q) ==
  \E p \in Pins :
    /\ identity.pin # NoPin /\ ~ identity.locked
    /\ Starts(q, [Quiet EXCEPT !.at = "confirm", !.pin = p,
                               !.read = identity.pin,
                               !.attempts = identity.attempts])

\* activateFromLink, the first access by a link.
ActivateFromLink(q) ==
  \E p \in Pins :
    /\ identity.pin = NoPin
    /\ Starts(q, [Quiet EXCEPT !.at = "activate", !.pin = p])

\* The counter is written as it was read, and one more; the lock goes by it.
WrongPin(q) ==
  /\ request[q].at \in {"verify", "confirm"}
  /\ request[q].pin # request[q].read
  /\ LET attempts == request[q].attempts + 1 IN
     identity' = [identity EXCEPT !.attempts = attempts,
                                  !.locked = attempts >= MaxWrongPins]
  /\ wrongPins' = wrongPins + 1
  /\ Ends(q)
  /\ UNCHANGED <<employment, sessions, selections, disabling, overlapped,
                 resets, calls, orders>>

RightPin(q) ==
  /\ request[q].at = "verify" /\ request[q].pin = request[q].read
  /\ GoesOn(q, IF request[q].legacy THEN "rehash" ELSE "links")
  /\ UNCHANGED <<identity, employment, sessions, selections, disabling, ghosts,
                 calls, orders>>

\* A hash of the old kind is replaced, whatever the row holds by now.
Rehash(q) ==
  /\ request[q].at = "rehash"
  /\ identity' = [identity EXCEPT !.pin = request[q].pin, !.legacy = FALSE]
  /\ GoesOn(q, "links")
  /\ UNCHANGED <<employment, sessions, selections, disabling, ghosts, calls,
                 orders>>

\* The counter is zero; unless others are under way, it is right again.
CounterCleared(q) ==
  /\ wrongPins' = 0
  /\ overlapped' = OthersUnderWay(q)
  /\ UNCHANGED resets

SetPin(q) ==
  /\ request[q].at = "set"
  /\ identity' = [pin |-> request[q].pin, legacy |-> FALSE, attempts |-> 0,
                  locked |-> FALSE]
  /\ GoesOn(q, "links")
  /\ CounterCleared(q)
  /\ UNCHANGED <<employment, sessions, selections, disabling, calls, orders>>

\* Only a PIN that is still missing: UPDATE ... WHERE pin_hash IS NULL.
LinkActivates(q) ==
  /\ request[q].at = "activate" /\ identity.pin = NoPin
  /\ identity' = [pin |-> request[q].pin, legacy |-> FALSE, attempts |-> 0,
                  locked |-> FALSE]
  /\ Ends(q)
  /\ CounterCleared(q)
  /\ UNCHANGED <<employment, sessions, selections, disabling, calls, orders>>

AlreadyActivated(q) ==
  /\ request[q].at = "activate" /\ identity.pin # NoPin
  /\ Ends(q)
  /\ UNCHANGED <<identity, employment, sessions, selections, disabling, ghosts,
                 calls, orders>>

\* completeEmployeeAuthentication: nowhere to go, one company, or a choice.
NoCompany(q) ==
  /\ request[q].at = "links" /\ Links = {}
  /\ Ends(q)
  /\ UNCHANGED <<identity, employment, sessions, selections, disabling, ghosts,
                 calls, orders>>

OneCompany(q) ==
  /\ request[q].at = "links" /\ Cardinality(Links) = 1
  /\ \E e \in Links :
       request' = [request EXCEPT ![q].at = "open", ![q].employment = e]
  /\ UNCHANGED <<identity, employment, sessions, selections, disabling, ghosts,
                 calls, orders>>

OffersCompanies(q) ==
  /\ request[q].at = "links" /\ Cardinality(Links) > 1
  /\ selections' = Append(selections, "OPEN")
  /\ Ends(q)
  /\ UNCHANGED <<identity, employment, sessions, disabling, ghosts, calls,
                 orders>>

NewSession(e, s) ==
  [employment |-> e, live |-> TRUE, selection |-> s, resets |-> resets]

\* makeEmployeeSession on the pool: the session, then the counter.
OpenSession(q) ==
  /\ request[q].at = "open"
  /\ sessions' = Append(sessions, NewSession(request[q].employment, 0))
  /\ GoesOn(q, "touch")
  /\ UNCHANGED <<identity, employment, selections, disabling, ghosts, calls,
                 orders>>

\* The lock is lifted, the counter left.
LiftLock == identity' = [identity EXCEPT !.locked = FALSE]

\* UPDATE ... SET failed_attempts=0, locked_until=NULL.
ClearCounter == identity' = [identity EXCEPT !.attempts = 0, !.locked = FALSE]

Touch(q) ==
  /\ request[q].at = "touch"
  /\ ClearCounter /\ CounterCleared(q)
  /\ Ends(q)
  /\ UNCHANGED <<employment, sessions, selections, disabling, calls, orders>>

\* The PIN was right: the signature goes on, and leaves the identity alone.
PinConfirmed(q) ==
  /\ request[q].at = "confirm" /\ request[q].pin = request[q].read
  /\ ClearCounter /\ CounterCleared(q)
  /\ Ends(q)
  /\ UNCHANGED <<employment, sessions, selections, disabling, calls, orders>>

\* The row of the selection is locked until its transaction ends.
Selectable(s) ==
  /\ selections[s] = "OPEN"
  /\ \A q \in Requests : ~ (request[q].at = "select" /\ request[q].selection = s)

\* The selection without FOR UPDATE.
SelectableUnlocked(s) == selections[s] = "OPEN"

CanSelect(s) == Selectable(s)

SelectCompany(q) ==
  \E s \in DOMAIN selections, e \in Links :
    /\ CanSelect(s)
    /\ Starts(q, [Quiet EXCEPT !.at = "select", !.employment = e,
                               !.selection = s])

SelectCommits(q) ==
  /\ request[q].at = "select"
  /\ selections' = [selections EXCEPT ![request[q].selection] = "USED"]
  /\ sessions' = Append(sessions, NewSession(request[q].employment,
                                             request[q].selection))
  /\ ClearCounter /\ CounterCleared(q)
  /\ Ends(q)
  /\ UNCHANGED <<employment, disabling, calls, orders>>

\* authenticate: the session is live and its employee is let in.
Authentic(n) == sessions[n].live /\ sessions[n].employment \in Links

SwitchCompany(q) ==
  \E n \in DOMAIN sessions, e \in Links :
    /\ Authentic(n)
    /\ Starts(q, [Quiet EXCEPT !.at = "switch", !.employment = e,
                               !.session = n])

SwitchCommits(q) ==
  /\ request[q].at = "switch"
  /\ sessions' = Append([sessions EXCEPT ![request[q].session].live = FALSE],
                        NewSession(request[q].employment, 0))
  /\ ClearCounter /\ CounterCleared(q)
  /\ Ends(q)
  /\ UNCHANGED <<employment, selections, disabling, calls, orders>>

\* The API dies or an answer fails: what is committed stays.
RequestDies(q) ==
  /\ request[q].at # "idle"
  /\ Ends(q)
  /\ UNCHANGED <<identity, employment, sessions, selections, disabling, ghosts,
                 calls, orders>>

Orders(n) == orders >= n /\ orders' = orders - n

Logout ==
  /\ Orders(1)
  /\ \E n \in DOMAIN sessions :
       Authentic(n) /\ sessions' = [sessions EXCEPT ![n].live = FALSE]
  /\ UNCHANGED <<identity, employment, selections, request, disabling, ghosts,
                 calls>>

Revoked(of) ==
  [n \in DOMAIN sessions |->
     IF sessions[n].employment \in of THEN [sessions[n] EXCEPT !.live = FALSE]
     ELSE sessions[n]]

\* A reset asked for one employee resets the identity, and all its sessions.
RevokeForReset(e) == Revoked(Employments)

\* A reset that revokes the sessions of that employee.
RevokeOfEmployment(e) == Revoked({e})

EndSessions(e) == RevokeForReset(e)

ResetPin ==
  /\ Orders(1)
  /\ \E e \in Employments : sessions' = EndSessions(e)
  /\ identity' = [identity EXCEPT !.pin = NoPin, !.legacy = FALSE,
                                  !.attempts = 0, !.locked = FALSE]
  /\ resets' = resets + 1
  /\ wrongPins' = 0
  /\ overlapped' = (\E q \in Requests : request[q].at # "idle")
  /\ UNCHANGED <<employment, selections, request, disabling, calls>>

\* setStatus: the status, and for DISABLED the sessions in a second statement.
SetStatus ==
  /\ Orders(1)
  /\ \E e \in Employments, status \in {"ACTIVE", "DISABLED", "TERMINATED"} :
       /\ employment' = [employment EXCEPT ![e] = status]
       /\ disabling' = IF status = "DISABLED" THEN disabling \cup {e}
                       ELSE disabling
  /\ UNCHANGED <<identity, sessions, selections, request, ghosts, calls>>

RevokeDisabled ==
  /\ \E e \in disabling :
       /\ sessions' = Revoked({e})
       /\ disabling' = disabling \ {e}
  /\ UNCHANGED <<identity, employment, selections, request, ghosts, calls,
                 orders>>

RevocationLost ==
  /\ \E e \in disabling : disabling' = disabling \ {e}
  /\ UNCHANGED <<identity, employment, sessions, selections, request, ghosts,
                 calls, orders>>

\* Fifteen minutes of lock and five of selection pass.
LockExpires ==
  /\ identity.locked
  /\ identity' = [identity EXCEPT !.locked = FALSE]
  /\ UNCHANGED <<employment, sessions, selections, request, disabling, ghosts,
                 calls, orders>>

SelectionExpires ==
  /\ Orders(1)
  /\ \E s \in DOMAIN selections :
       /\ Selectable(s)
       /\ selections' = [selections EXCEPT ![s] = "EXPIRED"]
  /\ UNCHANGED <<identity, employment, sessions, request, disabling, ghosts,
                 calls>>

AccessIdle ==
  /\ \A q \in Requests : request[q].at = "idle"
  /\ UNCHANGED accessVars

AccessNext ==
  \/ \E q \in Requests :
       \/ Login(q) \/ FirstAccess(q) \/ ConfirmPin(q) \/ ActivateFromLink(q)
       \/ WrongPin(q) \/ RightPin(q) \/ PinConfirmed(q) \/ LinkActivates(q)
       \/ AlreadyActivated(q) \/ Rehash(q) \/ SetPin(q) \/ NoCompany(q)
       \/ OneCompany(q) \/ OffersCompanies(q) \/ OpenSession(q) \/ Touch(q)
       \/ SelectCompany(q) \/ SelectCommits(q) \/ SwitchCompany(q)
       \/ SwitchCommits(q) \/ RequestDies(q)
  \/ Logout \/ ResetPin \/ SetStatus \/ RevokeDisabled \/ RevocationLost
  \/ LockExpires \/ SelectionExpires \/ AccessIdle

AccessSpec == AccessInit /\ [][AccessNext]_accessVars

----------------------------------------------------------------------------
\* A choice of company opens one session, though two requests bring the same
\* token at once.
OneSessionPerSelection ==
  \A m, n \in DOMAIN sessions :
    sessions[m].selection # 0 /\ sessions[m].selection = sessions[n].selection
      => m = n

\* A session that was open when the PIN was reset is closed, in every company
\* of the identity; what a request under way opens after it is not.
ResetEndsSessions ==
  \A n \in DOMAIN sessions : sessions[n].live => sessions[n].resets = resets

\* Unless requests have overlapped, the counter says how many wrong PINs came,
\* at logins and at signatures alike, since it was last cleared: by a session,
\* a PIN confirmed at a signature, a reset, or a first access of either kind;
\* and a lock that has not run out means that it is at the limit.
LockAfterWrongPins ==
  ~ overlapped =>
    /\ identity.attempts = wrongPins
    /\ identity.locked => wrongPins >= MaxWrongPins
=============================================================================
