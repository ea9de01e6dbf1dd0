---------------------------- MODULE EmployeeProofs ----------------------------
(***************************************************************************)
(* Theorems about an employee: how she gets in and out, for any number of  *)
(* requests, companies and wrong PINs; where the rows about her come from, *)
(* for any contracts and cards that Sage may hold; and the session in the  *)
(* tabs of her browser, or of an officer's, for any number of them.        *)
(***************************************************************************)
EXTENDS EmployeeAccess, EmployeeRegistry, DashboardSession, FiniteSetTheorems,
        WellFoundedInduction, TLAPS

-----------------------------------------------------------------------------
(***************************************************************************)
(* Getting in and out.                                                     *)
(***************************************************************************)

AccessPlaces ==
  {"idle", "verify", "confirm", "set", "activate", "rehash", "links", "open",
   "touch", "select", "switch"}

\* A PIN is being compared with what was read of the identity.
Comparing == {"verify", "confirm"}

\* A PIN is brought, to be compared or to be set.
Bringing == {"verify", "confirm", "set", "activate", "rehash"}

\* What a request remembers: the ids that there are, by now.
RequestMemory ==
  [at : AccessPlaces, pin : Pins \cup {NoPin}, read : Pins \cup {NoPin},
   legacy : BOOLEAN, attempts : Nat, employment : Employments \cup {NoEmployment},
   selection : 0 .. Len(selections), session : 0 .. Len(sessions)]

SessionRow ==
  [employment : Employments, live : BOOLEAN, selection : Nat, resets : Nat]

IdentityRow ==
  [pin : Pins \cup {NoPin}, legacy : BOOLEAN, attempts : Nat, locked : BOOLEAN]

\* A request has what its place needs.
RequestsHold ==
  \A q \in Requests :
    /\ request[q].at \in Bringing => request[q].pin \in Pins
    /\ request[q].at \in {"open", "select", "switch"} =>
         request[q].employment \in Employments

\* A session that a selection has opened has used it up; and the row of a
\* selection is locked for one request alone.
SelectionsHold ==
  /\ \A n \in DOMAIN sessions : sessions[n].selection # 0 =>
       /\ sessions[n].selection \in DOMAIN selections
       /\ selections[sessions[n].selection] = "USED"
  /\ \A q \in Requests : request[q].at = "select" =>
       /\ request[q].selection \in DOMAIN selections
       /\ selections[request[q].selection] = "OPEN"
       /\ \A o \in Requests :
            request[o].at = "select" /\ request[o].selection = request[q].selection
              => o = q

\* Unless requests have overlapped, at most one is under way, and the counter
\* is what it has read.
CounterHolds ==
  ~ overlapped =>
    /\ \A o, q \in Requests :
         o # q => request[o].at = "idle" \/ request[q].at = "idle"
    /\ \A q \in Requests :
         request[q].at \in Comparing => request[q].attempts = identity.attempts

AccessInv ==
  /\ AccessTypeOK
  /\ RequestsHold
  /\ SelectionsHold
  /\ OneSessionPerSelection
  /\ ResetEndsSessions
  /\ CounterHolds
  /\ LockAfterWrongPins

\* The types of the state, with their records named.
LEMMA AccessTypes ==
  ASSUME AccessTypeOK
  PROVE  /\ identity \in IdentityRow
         /\ employment \in [Employments -> {"ACTIVE", "DISABLED", "TERMINATED"}]
         /\ sessions \in Seq(SessionRow)
         /\ selections \in Seq({"OPEN", "USED", "EXPIRED"})
         /\ request \in [Requests -> RequestMemory]
         /\ disabling \subseteq Employments
         /\ wrongPins \in Nat /\ overlapped \in BOOLEAN /\ resets \in Nat
         /\ calls \in 0 .. MaxRequests /\ orders \in 0 .. MaxOrders
         /\ Len(sessions) \in Nat /\ DOMAIN sessions = 1 .. Len(sessions)
         /\ Len(selections) \in Nat /\ DOMAIN selections = 1 .. Len(selections)
BY DEF AccessTypeOK, IdentityRow, SessionRow, RequestMemory, AccessPlaces

\* What a step has to show for the types after it.
LEMMA AccessTypesKept ==
  ASSUME identity' \in IdentityRow,
         employment' \in [Employments -> {"ACTIVE", "DISABLED", "TERMINATED"}],
         sessions' \in Seq(SessionRow),
         selections' \in Seq({"OPEN", "USED", "EXPIRED"}),
         request' \in [Requests -> RequestMemory'],
         disabling' \subseteq Employments,
         wrongPins' \in Nat, overlapped' \in BOOLEAN, resets' \in Nat,
         calls' \in 0 .. MaxRequests, orders' \in 0 .. MaxOrders
  PROVE  AccessTypeOK'
BY DEF AccessTypeOK, IdentityRow, SessionRow, RequestMemory, AccessPlaces

\* A memory outlives the sessions and selections that are added.
LEMMA MemoryKept ==
  ASSUME Len(sessions) \in Nat, Len(selections) \in Nat,
         Len(sessions)' \in Nat, Len(selections)' \in Nat,
         Len(sessions) <= Len(sessions)', Len(selections) <= Len(selections)'
  PROVE  RequestMemory \subseteq RequestMemory'
<1>1. 0 .. Len(sessions) \subseteq 0 .. Len(sessions)'
  OBVIOUS
<1>2. 0 .. Len(selections) \subseteq 0 .. Len(selections)'
  OBVIOUS
<1>3. QED
  BY <1>1, <1>2 DEF RequestMemory

\* A request goes from place to place with its memory, or is over.
LEMMA RequestMoved ==
  ASSUME request \in [Requests -> RequestMemory], NEW q \in Requests,
         NEW place \in AccessPlaces, GoesOn(q, place)
  PROVE  /\ request' \in [Requests -> RequestMemory]
         /\ request'[q].at = place
         /\ request'[q].pin = request[q].pin
         /\ request'[q].employment = request[q].employment
         /\ \A o \in Requests : o # q => request'[o] = request[o]
<1> DEFINE new == [request[q] EXCEPT !.at = place]
<1>1. /\ new \in RequestMemory
      /\ new.at = place /\ new.pin = request[q].pin
      /\ new.employment = request[q].employment
  BY DEF RequestMemory
<1>2. request' = [request EXCEPT ![q] = new]
  BY DEF GoesOn
<1> HIDE DEF new
<1>3. QED
  BY <1>1, <1>2

\* A request that ends is at rest, and the others stay where they are.
LEMMA RequestEnded ==
  ASSUME request \in [Requests -> RequestMemory], NEW q \in Requests,
         Len(sessions) \in Nat, Len(selections) \in Nat, Ends(q)
  PROVE  /\ request' \in [Requests -> RequestMemory]
         /\ request'[q].at = "idle"
         /\ \A o \in Requests : o # q => request'[o] = request[o]
<1>1. Quiet \in RequestMemory /\ Quiet.at = "idle"
  BY DEF Quiet, RequestMemory, AccessPlaces
<1>2. QED
  BY <1>1 DEF Ends

\* Sessions that end keep everything else.
LEMMA SessionsEnded ==
  ASSUME sessions \in Seq(SessionRow), NEW new,
         \/ \E n \in Nat : new = [sessions EXCEPT ![n].live = FALSE]
         \/ \E of : new = Revoked(of)
  PROVE  /\ new \in Seq(SessionRow)
         /\ Len(new) = Len(sessions)
         /\ \A n \in 1 .. Len(sessions) :
              /\ new[n].selection = sessions[n].selection
              /\ new[n].resets = sessions[n].resets
              /\ new[n].live => sessions[n].live
<1>1. /\ Len(sessions) \in Nat
      /\ sessions \in [1 .. Len(sessions) -> SessionRow]
      /\ DOMAIN sessions = 1 .. Len(sessions)
  OBVIOUS
<1>2. ASSUME NEW row \in SessionRow
      PROVE  LET ended == [row EXCEPT !.live = FALSE]
             IN /\ ended \in SessionRow
                /\ ended.selection = row.selection /\ ended.resets = row.resets
                /\ ~ended.live
  BY DEF SessionRow
<1>3. /\ new \in [1 .. Len(sessions) -> SessionRow]
      /\ \A n \in 1 .. Len(sessions) :
           new[n] = sessions[n] \/ new[n] = [sessions[n] EXCEPT !.live = FALSE]
  <2>1. ASSUME NEW n \in Nat, new = [sessions EXCEPT ![n].live = FALSE]
        PROVE  <1>3!:
    BY <1>1, <1>2, <2>1
  <2>2. ASSUME NEW of, new = Revoked(of)
        PROVE  <1>3!:
    BY <1>1, <1>2, <2>2 DEF Revoked
  <2>3. QED
    BY <2>1, <2>2
<1>4. new \in Seq(SessionRow) /\ Len(new) = Len(sessions)
  BY <1>1, <1>3
<1>5. QED
  BY <1>1, <1>2, <1>3, <1>4

\* A session is added after those that there are.
LEMMA SessionAdded ==
  ASSUME NEW old \in Seq(SessionRow), NEW row \in SessionRow
  PROVE  /\ Append(old, row) \in Seq(SessionRow)
         /\ Len(Append(old, row)) = Len(old) + 1
         /\ Append(old, row)[Len(old) + 1] = row
         /\ \A n \in 1 .. Len(old) : Append(old, row)[n] = old[n]
<1> HIDE DEF SessionRow
<1>1. QED
  OBVIOUS

\* Sessions that no selection opens, and requests that do not begin to select,
\* leave the selections as they are.
LEMMA SelectionsKept ==
  ASSUME SelectionsHold, OneSessionPerSelection,
         selections' = selections,
         \A n \in DOMAIN sessions' :
           \/ sessions'[n].selection = 0
           \/ n \in DOMAIN sessions /\ sessions'[n].selection = sessions[n].selection,
         \A q \in Requests : request'[q].at = "select" =>
           request[q].at = "select" /\ request'[q].selection = request[q].selection
  PROVE  SelectionsHold' /\ OneSessionPerSelection'
BY DEF SelectionsHold, OneSessionPerSelection

\* Sessions of an earlier reset stay ended.
LEMMA ResetKept ==
  ASSUME ResetEndsSessions, resets' = resets,
         \A n \in DOMAIN sessions' : sessions'[n].live =>
           \/ sessions'[n].resets = resets
           \/ /\ n \in DOMAIN sessions /\ sessions[n].live
              /\ sessions'[n].resets = sessions[n].resets
  PROVE  ResetEndsSessions'
BY DEF ResetEndsSessions

\* A step that is not about the counter.
LEMMA CounterKept ==
  ASSUME CounterHolds, LockAfterWrongPins,
         wrongPins' = wrongPins, overlapped' = overlapped,
         identity'.attempts = identity.attempts,
         identity'.locked => identity.locked,
         \A q \in Requests :
           \/ request'[q] = request[q]
           \/ request'[q].at = "idle"
           \/ request[q].at # "idle" /\ request'[q].at \notin Comparing
  PROVE  CounterHolds' /\ LockAfterWrongPins'
<1>1. \A q \in Requests : request[q].at = "idle" => request'[q].at = "idle"
  OBVIOUS
<1>2. CounterHolds'
  BY <1>1 DEF CounterHolds, Comparing, Bringing
<1>3. LockAfterWrongPins'
  BY DEF LockAfterWrongPins
<1>4. QED
  BY <1>2, <1>3

\* A request begins: unless others are under way, it is the only one.
LEMMA CounterKeptByStart ==
  ASSUME CounterHolds, LockAfterWrongPins, NEW q \in Requests, NEW memory,
         request \in [Requests -> RequestMemory],
         Starts(q, memory),
         memory.at \in Comparing => memory.attempts = identity.attempts
  PROVE  CounterHolds' /\ LockAfterWrongPins'
<1>1. /\ identity' = identity /\ wrongPins' = wrongPins
      /\ overlapped' = (overlapped \/ OthersUnderWay(q))
      /\ request' = [request EXCEPT ![q] = memory]
  BY DEF Starts
<1>2. CounterHolds'
  <2> SUFFICES ASSUME ~overlapped'
               PROVE  CounterHolds!2'
    BY DEF CounterHolds
  <2>1. ~overlapped /\ \A o \in Requests \ {q} : request[o].at = "idle"
    BY <1>1 DEF OthersUnderWay
  <2>2. \A o \in Requests : o # q => request'[o].at = "idle"
    BY <1>1, <2>1
  <2>3. request'[q].at \in Comparing => request'[q].attempts = identity'.attempts
    BY <1>1
  <2>4. QED
    BY <2>2, <2>3 DEF Comparing, Bringing
<1>3. LockAfterWrongPins'
  BY <1>1 DEF LockAfterWrongPins
<1>4. QED
  BY <1>2, <1>3

\* The counter is set to zero.
LEMMA CounterKeptByClearing ==
  ASSUME NEW q \in Requests,
         CounterCleared(q),
         identity'.attempts = 0, identity'.locked = FALSE,
         request'[q].at \notin Comparing,
         \A o \in Requests : o # q => request'[o] = request[o]
  PROVE  CounterHolds' /\ LockAfterWrongPins'
<1>1. wrongPins' = 0 /\ overlapped' = OthersUnderWay(q)
  BY DEF CounterCleared
<1>2. CounterHolds'
  BY <1>1 DEF CounterHolds, OthersUnderWay, Comparing, Bringing
<1>3. LockAfterWrongPins'
  BY <1>1 DEF LockAfterWrongPins
<1>4. QED
  BY <1>2, <1>3

\* A request begins.
LEMMA StartKeepsAccess ==
  ASSUME AccessInv, NEW q \in Requests,
         \/ Login(q) \/ FirstAccess(q) \/ ConfirmPin(q) \/ ActivateFromLink(q)
         \/ SelectCompany(q) \/ SwitchCompany(q)
  PROVE  AccessInv'
<1>1. AccessTypeOK /\ RequestsHold /\ SelectionsHold /\ OneSessionPerSelection
      /\ ResetEndsSessions /\ CounterHolds /\ LockAfterWrongPins
  BY DEF AccessInv
<1> DEFINE LoginMemory(p) ==
             [Quiet EXCEPT !.at = "verify", !.pin = p, !.read = identity.pin,
                           !.legacy = identity.legacy, !.attempts = identity.attempts]
           ConfirmMemory(p) ==
             [Quiet EXCEPT !.at = "confirm", !.pin = p, !.read = identity.pin,
                           !.attempts = identity.attempts]
           FirstMemory(p, place) == [Quiet EXCEPT !.at = place, !.pin = p]
           SelectMemory(s, e) == [Quiet EXCEPT !.at = "select", !.employment = e,
                                               !.selection = s]
           SwitchMemory(n, e) == [Quiet EXCEPT !.at = "switch", !.employment = e,
                                               !.session = n]
<1>2. PICK memory :
        /\ Starts(q, memory)
        /\ \/ \E p \in Pins : memory = LoginMemory(p)
           \/ \E p \in Pins : memory = ConfirmMemory(p)
           \/ \E p \in Pins, place \in {"set", "activate"} :
                memory = FirstMemory(p, place)
           \/ \E s \in DOMAIN selections, e \in Links :
                CanSelect(s) /\ memory = SelectMemory(s, e)
           \/ \E n \in DOMAIN sessions, e \in Links : memory = SwitchMemory(n, e)
  <2>1. CASE Login(q) \/ ConfirmPin(q)
    BY <2>1 DEF Login, ConfirmPin
  <2>2. CASE FirstAccess(q) \/ ActivateFromLink(q)
    BY <2>2 DEF FirstAccess, ActivateFromLink
  <2>3. CASE SelectCompany(q) \/ SwitchCompany(q)
    BY <2>3 DEF SelectCompany, SwitchCompany
  <2>4. QED
    BY <2>1, <2>2, <2>3
<1>3. /\ memory \in RequestMemory
      /\ memory.at \in Bringing => memory.pin \in Pins
      /\ memory.at \in {"open", "select", "switch"} => memory.employment \in Employments
      /\ memory.at \in Comparing => memory.attempts = identity.attempts
      /\ memory.at = "select" =>
           memory.selection \in DOMAIN selections /\ CanSelect(memory.selection)
  <2>0. 0 \in 0 .. Len(sessions) /\ 0 \in 0 .. Len(selections)
    BY <1>1, AccessTypes
  <2>1. Links \subseteq Employments
    BY DEF Links
  <2>2. CASE \E p \in Pins : memory = LoginMemory(p)
    <3>1. PICK p \in Pins : memory = LoginMemory(p)
      BY <2>2
    <3>2. /\ identity.pin \in Pins \cup {NoPin} /\ identity.legacy \in BOOLEAN
          /\ identity.attempts \in Nat
      BY <1>1, AccessTypes DEF IdentityRow
    <3>3. memory \in RequestMemory
      BY <2>0, <3>1, <3>2 DEF Quiet, RequestMemory, AccessPlaces
    <3>4. memory.at = "verify" /\ memory.pin = p /\ memory.attempts = identity.attempts
      BY <3>1 DEF Quiet
    <3>5. QED
      BY <3>3, <3>4
  <2>7. CASE \E p \in Pins : memory = ConfirmMemory(p)
    <3>1. PICK p \in Pins : memory = ConfirmMemory(p)
      BY <2>7
    <3>2. identity.pin \in Pins \cup {NoPin} /\ identity.attempts \in Nat
      BY <1>1, AccessTypes DEF IdentityRow
    <3>3. memory \in RequestMemory
      BY <2>0, <3>1, <3>2 DEF Quiet, RequestMemory, AccessPlaces
    <3>4. memory.at = "confirm" /\ memory.pin = p /\ memory.attempts = identity.attempts
      BY <3>1 DEF Quiet
    <3>5. QED
      BY <3>3, <3>4
  <2>3. CASE \E p \in Pins, place \in {"set", "activate"} :
               memory = FirstMemory(p, place)
    <3>1. PICK p \in Pins, place \in {"set", "activate"} :
            memory = FirstMemory(p, place)
      BY <2>3
    <3>2. memory \in RequestMemory
      BY <2>0, <3>1 DEF Quiet, RequestMemory, AccessPlaces
    <3>3. memory.at \in {"set", "activate"} /\ memory.pin = p
          /\ memory.at \notin Comparing
      BY <3>1 DEF Quiet, Comparing
    <3>4. QED
      BY <3>2, <3>3
  <2>4. CASE \E s \in DOMAIN selections, e \in Links :
               CanSelect(s) /\ memory = SelectMemory(s, e)
    <3>1. PICK s \in DOMAIN selections, e \in Links :
            CanSelect(s) /\ memory = SelectMemory(s, e)
      BY <2>4
    <3>2. s \in 0 .. Len(selections)
      BY <1>1, AccessTypes
    <3>3. memory \in RequestMemory
      BY <2>0, <2>1, <3>1, <3>2 DEF Quiet, RequestMemory, AccessPlaces
    <3>4. memory.at = "select" /\ memory.selection = s /\ memory.employment = e
      BY <3>1 DEF Quiet
    <3>5. QED
      BY <2>1, <3>1, <3>3, <3>4 DEF Comparing, Bringing
  <2>5. CASE \E n \in DOMAIN sessions, e \in Links : memory = SwitchMemory(n, e)
    <3>1. PICK n \in DOMAIN sessions, e \in Links : memory = SwitchMemory(n, e)
      BY <2>5
    <3>2. n \in 0 .. Len(sessions)
      BY <1>1, AccessTypes
    <3>3. memory \in RequestMemory
      BY <2>0, <2>1, <3>1, <3>2 DEF Quiet, RequestMemory, AccessPlaces
    <3>4. memory.at = "switch" /\ memory.employment = e
      BY <3>1 DEF Quiet
    <3>5. QED
      BY <2>1, <3>1, <3>3, <3>4 DEF Comparing, Bringing
  <2>6. QED
    BY <1>2, <2>2, <2>3, <2>4, <2>5, <2>7
<1> HIDE DEF LoginMemory, ConfirmMemory, FirstMemory, SelectMemory, SwitchMemory
<1>4. /\ request' = [request EXCEPT ![q] = memory]
      /\ identity' = identity /\ employment' = employment /\ sessions' = sessions
      /\ selections' = selections /\ disabling' = disabling
      /\ wrongPins' = wrongPins /\ resets' = resets /\ orders' = orders
      /\ calls > 0 /\ calls' = calls - 1
      /\ overlapped' = (overlapped \/ OthersUnderWay(q))
  BY <1>2 DEF Starts
<1>5. /\ request' \in [Requests -> RequestMemory]
      /\ request'[q] = memory
      /\ \A o \in Requests : o # q => request'[o] = request[o]
  BY <1>1, <1>3, <1>4, AccessTypes
<1>6. AccessTypeOK'
  <2>1. calls' \in 0 .. MaxRequests
    BY <1>1, <1>4, AccessTypes, EmployeeAccessAssumption
  <2>2. request' \in [Requests -> RequestMemory']
    BY <1>4, <1>5 DEF RequestMemory
  <2>3. overlapped' \in BOOLEAN
    BY <1>1, <1>4, AccessTypes DEF OthersUnderWay
  <2>4. QED
    BY <1>1, <1>4, <2>1, <2>2, <2>3, AccessTypes, AccessTypesKept
<1>7. RequestsHold'
  BY <1>1, <1>3, <1>5 DEF RequestsHold
<1>8. SelectionsHold' /\ OneSessionPerSelection'
  <2>1. OneSessionPerSelection'
    BY <1>1, <1>4 DEF OneSessionPerSelection
  <2>2. memory.at = "select" =>
          /\ selections[memory.selection] = "OPEN"
          /\ \A o \in Requests :
               ~(request[o].at = "select" /\ request[o].selection = memory.selection)
    BY <1>3 DEF CanSelect, Selectable
  <2>3. SelectionsHold'
    BY <1>1, <1>3, <1>4, <1>5, <2>2 DEF SelectionsHold
  <2>4. QED
    BY <2>1, <2>3
<1>9. ResetEndsSessions'
  BY <1>1, <1>4 DEF ResetEndsSessions
<1>10. CounterHolds' /\ LockAfterWrongPins'
  BY <1>1, <1>2, <1>3, AccessTypes, CounterKeptByStart
<1>11. QED
  BY <1>6, <1>7, <1>8, <1>9, <1>10 DEF AccessInv

\* A request goes on, or is over, and writes nothing.
LEMMA MoveKeepsAccess ==
  ASSUME AccessInv, NEW q \in Requests,
         \/ RightPin(q) \/ NoCompany(q) \/ OneCompany(q) \/ AlreadyActivated(q)
         \/ RequestDies(q)
  PROVE  AccessInv'
<1>1. AccessTypeOK /\ RequestsHold /\ SelectionsHold /\ OneSessionPerSelection
      /\ ResetEndsSessions /\ CounterHolds /\ LockAfterWrongPins
  BY DEF AccessInv
<1>2. /\ identity' = identity /\ employment' = employment /\ sessions' = sessions
      /\ selections' = selections /\ disabling' = disabling
      /\ wrongPins' = wrongPins /\ overlapped' = overlapped /\ resets' = resets
      /\ calls' = calls /\ orders' = orders
  BY DEF RightPin, NoCompany, OneCompany, AlreadyActivated, RequestDies, ghosts
<1>3. /\ request' \in [Requests -> RequestMemory]
      /\ \A o \in Requests : o # q => request'[o] = request[o]
      /\ request[q].at # "idle"
      /\ request'[q].at \in {"idle", "rehash", "links", "open"}
      /\ request'[q].at = "rehash" => request'[q].pin \in Pins
      /\ request'[q].at = "open" => request'[q].employment \in Employments
  <2>1. CASE RightPin(q)
    <3>1. PICK place \in {"rehash", "links"} : GoesOn(q, place)
      BY <2>1 DEF RightPin
    <3>2. place \in AccessPlaces
      BY DEF AccessPlaces
    <3>3. request[q].at = "verify" /\ request[q].pin \in Pins
      BY <1>1, <2>1 DEF RightPin, RequestsHold, Comparing, Bringing
    <3>4. QED
      BY <1>1, <3>1, <3>2, <3>3, AccessTypes, RequestMoved
  <2>2. CASE OneCompany(q)
    <3>1. PICK e \in Links :
            request' = [request EXCEPT ![q].at = "open", ![q].employment = e]
      BY <2>2 DEF OneCompany
    <3>2. e \in Employments
      BY DEF Links
    <3> DEFINE new == [request[q] EXCEPT !.at = "open", !.employment = e]
    <3>3. /\ new \in RequestMemory
          /\ new.at = "open" /\ new.employment = e
      BY <1>1, <3>2, AccessTypes DEF RequestMemory, AccessPlaces
    <3>4. request' = [request EXCEPT ![q] = new]
      BY <1>1, <3>1, AccessTypes DEF RequestMemory
    <3> HIDE DEF new
    <3>5. request' \in [Requests -> RequestMemory] /\ request'[q] = new
          /\ \A o \in Requests : o # q => request'[o] = request[o]
      BY <1>1, <3>3, <3>4, AccessTypes
    <3>6. request[q].at = "links"
      BY <2>2 DEF OneCompany
    <3>7. QED
      BY <3>2, <3>3, <3>5, <3>6
  <2>3. CASE NoCompany(q) \/ AlreadyActivated(q) \/ RequestDies(q)
    BY <1>1, <2>3, AccessTypes, RequestEnded
       DEF NoCompany, AlreadyActivated, RequestDies
  <2>4. QED
    BY <2>1, <2>2, <2>3
<1>4. AccessTypeOK'
  <2>1. request' \in [Requests -> RequestMemory']
    BY <1>2, <1>3 DEF RequestMemory
  <2>2. QED
    BY <1>1, <1>2, <2>1, AccessTypes, AccessTypesKept
<1>5. RequestsHold'
  BY <1>1, <1>3 DEF RequestsHold, Comparing, Bringing
<1>6. SelectionsHold' /\ OneSessionPerSelection'
  BY <1>1, <1>2, <1>3, SelectionsKept
<1>7. ResetEndsSessions'
  BY <1>1, <1>2 DEF ResetEndsSessions
<1>8. CounterHolds' /\ LockAfterWrongPins'
  BY <1>1, <1>2, <1>3, CounterKept DEF Comparing, Bringing
<1>9. QED
  BY <1>4, <1>5, <1>6, <1>7, <1>8 DEF AccessInv

\* A request writes the identity.
LEMMA WriteKeepsAccess ==
  ASSUME AccessInv, NEW q \in Requests,
         \/ WrongPin(q) \/ PinConfirmed(q) \/ LinkActivates(q) \/ Rehash(q)
         \/ SetPin(q) \/ Touch(q)
  PROVE  AccessInv'
<1>1. AccessTypeOK /\ RequestsHold /\ SelectionsHold /\ OneSessionPerSelection
      /\ ResetEndsSessions /\ CounterHolds /\ LockAfterWrongPins
  BY DEF AccessInv
<1>2. /\ employment' = employment /\ sessions' = sessions
      /\ selections' = selections /\ disabling' = disabling
      /\ resets' = resets /\ calls' = calls /\ orders' = orders
  BY DEF WrongPin, PinConfirmed, LinkActivates, Rehash, SetPin, Touch,
         CounterCleared, ghosts
<1>3. /\ request[q] \in RequestMemory /\ request[q].attempts \in Nat
      /\ request[q].pin \in Pins \cup {NoPin}
  BY <1>1, AccessTypes DEF RequestMemory
<1>4. /\ request' \in [Requests -> RequestMemory]
      /\ \A o \in Requests : o # q => request'[o] = request[o]
      /\ request[q].at # "idle"
      /\ request'[q].at \in {"idle", "links"}
  <2>1. CASE WrongPin(q) \/ PinConfirmed(q) \/ LinkActivates(q) \/ Touch(q)
    <3>1. Ends(q) /\ request[q].at # "idle"
      BY <2>1 DEF WrongPin, PinConfirmed, LinkActivates, Touch
    <3>2. QED
      BY <1>1, <3>1, AccessTypes, RequestEnded
  <2>2. CASE Rehash(q) \/ SetPin(q)
    <3>1. GoesOn(q, "links") /\ request[q].at # "idle"
      BY <2>2 DEF Rehash, SetPin
    <3>2. QED
      BY <1>1, <3>1, AccessTypes, RequestMoved DEF AccessPlaces
  <2>3. QED
    BY <2>1, <2>2
<1>5. identity \in IdentityRow
  BY <1>1, AccessTypes
<1>6. /\ identity' \in IdentityRow /\ wrongPins' \in Nat /\ overlapped' \in BOOLEAN
      /\ CounterHolds' /\ LockAfterWrongPins'
  <2>1. CASE WrongPin(q)
    <3>1. /\ request[q].at \in Comparing
          /\ identity' = [identity EXCEPT
               !.attempts = request[q].attempts + 1,
               !.locked = request[q].attempts + 1 >= MaxWrongPins]
          /\ wrongPins' = wrongPins + 1 /\ overlapped' = overlapped
      BY <2>1 DEF WrongPin, Comparing
    <3>2. /\ identity' \in IdentityRow
          /\ identity'.attempts = request[q].attempts + 1
          /\ identity'.locked => request[q].attempts + 1 >= MaxWrongPins
      <4> DEFINE many == request[q].attempts + 1
                 limit == many >= MaxWrongPins
                 new == [identity EXCEPT !.attempts = many, !.locked = limit]
      <4>1. many \in Nat /\ limit \in BOOLEAN
        BY <1>3
      <4>2. identity' = new
        BY <3>1
      <4> HIDE DEF many, limit
      <4>3. new \in IdentityRow /\ new.attempts = many /\ new.locked = limit
        BY <1>5, <4>1, Zenon DEF IdentityRow
      <4> HIDE DEF new
      <4>4. QED
        BY <4>2, <4>3 DEF many, limit
    <3>3. wrongPins \in Nat /\ overlapped \in BOOLEAN
      BY <1>1, AccessTypes
    <3>4. ~overlapped =>
            /\ request[q].attempts = wrongPins
            /\ \A o \in Requests : request'[o].at = "idle"
      <4>1. request'[q].at = "idle"
        BY <1>1, <2>1, AccessTypes, RequestEnded DEF WrongPin
      <4>2. QED
        BY <1>1, <1>4, <3>1, <4>1 DEF CounterHolds, LockAfterWrongPins
    <3>5. CounterHolds'
      BY <3>1, <3>4 DEF CounterHolds, Comparing, Bringing
    <3>6. LockAfterWrongPins'
      BY <3>1, <3>2, <3>3, <3>4 DEF LockAfterWrongPins
    <3>7. QED
      BY <3>1, <3>2, <3>3, <3>5, <3>6
  <2>2. CASE Rehash(q)
    <3>1. /\ identity' = [identity EXCEPT !.pin = request[q].pin, !.legacy = FALSE]
          /\ wrongPins' = wrongPins /\ overlapped' = overlapped
      BY <2>2 DEF Rehash, ghosts
    <3>2. /\ identity' \in IdentityRow
          /\ identity'.attempts = identity.attempts
          /\ identity'.locked = identity.locked
      BY <1>3, <1>5, <3>1 DEF IdentityRow
    <3>3. CounterHolds' /\ LockAfterWrongPins'
      BY <1>1, <1>4, <3>1, <3>2, CounterKept DEF Comparing, Bringing
    <3>4. QED
      BY <1>1, <3>1, <3>2, <3>3, AccessTypes
  <2>3. CASE PinConfirmed(q) \/ LinkActivates(q) \/ SetPin(q) \/ Touch(q)
    <3>1. CounterCleared(q)
      BY <2>3 DEF PinConfirmed, LinkActivates, SetPin, Touch
    <3>2. /\ identity' \in IdentityRow
          /\ identity'.attempts = 0 /\ identity'.locked = FALSE
      <4>1. CASE SetPin(q) \/ LinkActivates(q)
        <5>1. identity' = [pin |-> request[q].pin, legacy |-> FALSE,
                           attempts |-> 0, locked |-> FALSE]
          BY <4>1 DEF SetPin, LinkActivates
        <5>2. QED
          BY <1>3, <5>1 DEF IdentityRow
      <4>2. CASE Touch(q) \/ PinConfirmed(q)
        <5>1. identity' = [identity EXCEPT !.attempts = 0, !.locked = FALSE]
          BY <4>2 DEF Touch, PinConfirmed, ClearCounter
        <5>2. QED
          BY <1>5, <5>1 DEF IdentityRow
      <4>3. QED
        BY <2>3, <4>1, <4>2
    <3>3. CounterHolds' /\ LockAfterWrongPins'
      BY <1>4, <3>1, <3>2, CounterKeptByClearing DEF Comparing, Bringing
    <3>4. wrongPins' = 0 /\ overlapped' \in BOOLEAN
      BY <3>1 DEF CounterCleared, OthersUnderWay
    <3>5. QED
      BY <3>2, <3>3, <3>4
  <2>4. QED
    BY <2>1, <2>2, <2>3
<1>7. AccessTypeOK'
  <2>1. request' \in [Requests -> RequestMemory']
    BY <1>2, <1>4 DEF RequestMemory
  <2>2. QED
    BY <1>1, <1>2, <1>6, <2>1, AccessTypes, AccessTypesKept
<1>8. RequestsHold'
  BY <1>1, <1>4 DEF RequestsHold, Comparing, Bringing
<1>9. SelectionsHold' /\ OneSessionPerSelection'
  BY <1>1, <1>2, <1>4, SelectionsKept
<1>10. ResetEndsSessions'
  BY <1>1, <1>2 DEF ResetEndsSessions
<1>11. QED
  BY <1>6, <1>7, <1>8, <1>9, <1>10 DEF AccessInv

\* The companies are offered: a selection is added.
LEMMA OfferKeepsAccess ==
  ASSUME AccessInv, NEW q \in Requests, OffersCompanies(q)
  PROVE  AccessInv'
<1>1. AccessTypeOK /\ RequestsHold /\ SelectionsHold /\ OneSessionPerSelection
      /\ ResetEndsSessions /\ CounterHolds /\ LockAfterWrongPins
  BY DEF AccessInv
<1>2. /\ identity' = identity /\ employment' = employment /\ sessions' = sessions
      /\ disabling' = disabling /\ wrongPins' = wrongPins /\ resets' = resets
      /\ overlapped' = overlapped /\ calls' = calls /\ orders' = orders
      /\ selections' = Append(selections, "OPEN")
  BY DEF OffersCompanies, ghosts
<1>3. /\ selections' \in Seq({"OPEN", "USED", "EXPIRED"})
      /\ Len(selections') = Len(selections) + 1
      /\ DOMAIN selections \subseteq DOMAIN selections'
      /\ \A s \in DOMAIN selections : selections'[s] = selections[s]
  <2>1. selections \in Seq({"OPEN", "USED", "EXPIRED"})
    BY <1>1, AccessTypes
  <2>2. QED
    BY <1>2, <2>1
<1>4. /\ request' \in [Requests -> RequestMemory]
      /\ request'[q].at = "idle"
      /\ \A o \in Requests : o # q => request'[o] = request[o]
  BY <1>1, AccessTypes, RequestEnded DEF OffersCompanies
<1>5. AccessTypeOK'
  <2>1. RequestMemory \subseteq RequestMemory'
    BY <1>1, <1>2, <1>3, AccessTypes, MemoryKept
  <2>2. request' \in [Requests -> RequestMemory']
    BY <1>4, <2>1
  <2>3. QED
    BY <1>1, <1>2, <1>3, <2>2, AccessTypes, AccessTypesKept
<1>6. RequestsHold'
  BY <1>1, <1>4 DEF RequestsHold, Comparing, Bringing
<1>7. OneSessionPerSelection' /\ ResetEndsSessions'
  BY <1>1, <1>2 DEF OneSessionPerSelection, ResetEndsSessions
<1>8. SelectionsHold'
  BY <1>1, <1>2, <1>3, <1>4 DEF SelectionsHold
<1>9. CounterHolds' /\ LockAfterWrongPins'
  BY <1>1, <1>2, <1>4, CounterKept
<1>10. QED
  BY <1>5, <1>6, <1>7, <1>8, <1>9 DEF AccessInv

\* A session is opened, by a login that needs no choice or by a switch.
LEMMA OpeningKeepsAccess ==
  ASSUME AccessInv, NEW q \in Requests, OpenSession(q) \/ SwitchCommits(q)
  PROVE  AccessInv'
<1>1. AccessTypeOK /\ RequestsHold /\ SelectionsHold /\ OneSessionPerSelection
      /\ ResetEndsSessions /\ CounterHolds /\ LockAfterWrongPins
  BY DEF AccessInv
<1> DEFINE row == NewSession(request[q].employment, 0)
<1>2. /\ employment' = employment /\ selections' = selections
      /\ disabling' = disabling /\ resets' = resets
      /\ calls' = calls /\ orders' = orders
  BY DEF OpenSession, SwitchCommits, CounterCleared, ghosts
<1>3. row \in SessionRow /\ row.selection = 0 /\ row.resets = resets
  <2>1. request[q].employment \in Employments /\ resets \in Nat
    BY <1>1, AccessTypes DEF OpenSession, SwitchCommits, RequestsHold
  <2>2. QED
    BY <2>1 DEF NewSession, SessionRow
<1> HIDE DEF row
<1>4. PICK old \in Seq(SessionRow) :
        /\ sessions' = Append(old, row)
        /\ Len(old) = Len(sessions)
        /\ \A n \in 1 .. Len(sessions) :
             /\ old[n].selection = sessions[n].selection
             /\ old[n].resets = sessions[n].resets
             /\ old[n].live => sessions[n].live
  <2>1. CASE OpenSession(q)
    BY <1>1, <2>1, AccessTypes DEF OpenSession, row
  <2>2. CASE SwitchCommits(q)
    <3> DEFINE ended == [sessions EXCEPT ![request[q].session].live = FALSE]
    <3>1. request[q].session \in Nat
      BY <1>1, AccessTypes DEF RequestMemory
    <3>2. sessions' = Append(ended, row)
      BY <2>2 DEF SwitchCommits, row
    <3>3. /\ ended \in Seq(SessionRow)
          /\ Len(ended) = Len(sessions)
          /\ \A n \in 1 .. Len(sessions) :
               /\ ended[n].selection = sessions[n].selection
               /\ ended[n].resets = sessions[n].resets
               /\ ended[n].live => sessions[n].live
      BY <1>1, <3>1, AccessTypes, SessionsEnded
    <3> HIDE DEF ended
    <3>4. QED
      BY <3>2, <3>3
  <2>3. QED
    BY <2>1, <2>2
<1>5. /\ sessions' \in Seq(SessionRow)
      /\ Len(sessions') = Len(sessions) + 1 /\ Len(sessions) \in Nat
      /\ DOMAIN sessions' = 1 .. Len(sessions) + 1
      /\ sessions'[Len(sessions) + 1] = row
      /\ \A n \in 1 .. Len(sessions) : sessions'[n] = old[n]
  <2>1. /\ Append(old, row) \in Seq(SessionRow)
        /\ Len(Append(old, row)) = Len(old) + 1
        /\ Append(old, row)[Len(old) + 1] = row
        /\ \A n \in 1 .. Len(old) : Append(old, row)[n] = old[n]
    BY <1>3, SessionAdded
  <2>2. Len(sessions) \in Nat
    BY <1>1, AccessTypes
  <2>3. QED
    BY <1>4, <2>1, <2>2
<1>6. /\ request' \in [Requests -> RequestMemory]
      /\ request[q].at # "idle"
      /\ request'[q].at \in {"idle", "touch"}
      /\ \A o \in Requests : o # q => request'[o] = request[o]
  <2>1. CASE OpenSession(q)
    BY <1>1, <2>1, AccessTypes, RequestMoved DEF OpenSession, AccessPlaces
  <2>2. CASE SwitchCommits(q)
    BY <1>1, <2>2, AccessTypes, RequestEnded DEF SwitchCommits
  <2>3. QED
    BY <2>1, <2>2
<1>7. /\ identity' \in IdentityRow /\ wrongPins' \in Nat /\ overlapped' \in BOOLEAN
      /\ CounterHolds' /\ LockAfterWrongPins'
  <2>1. CASE OpenSession(q)
    <3>1. identity' = identity /\ wrongPins' = wrongPins /\ overlapped' = overlapped
      BY <2>1 DEF OpenSession, ghosts
    <3>2. QED
      BY <1>1, <1>6, <3>1, AccessTypes, CounterKept DEF Comparing, Bringing
  <2>2. CASE SwitchCommits(q)
    <3>1. /\ identity' \in IdentityRow
          /\ identity'.attempts = 0 /\ identity'.locked = FALSE
      BY <1>1, <2>2, AccessTypes DEF SwitchCommits, ClearCounter, IdentityRow
    <3>2. CounterCleared(q)
      BY <2>2 DEF SwitchCommits
    <3>3. CounterHolds' /\ LockAfterWrongPins'
      BY <1>6, <3>1, <3>2, CounterKeptByClearing DEF Comparing, Bringing
    <3>4. wrongPins' = 0 /\ overlapped' \in BOOLEAN
      BY <3>2 DEF CounterCleared, OthersUnderWay
    <3>5. QED
      BY <3>1, <3>3, <3>4
  <2>3. QED
    BY <2>1, <2>2
<1>8. AccessTypeOK'
  <2>1. RequestMemory \subseteq RequestMemory'
    BY <1>1, <1>2, <1>5, AccessTypes, MemoryKept
  <2>2. request' \in [Requests -> RequestMemory']
    BY <1>6, <2>1
  <2>3. QED
    BY <1>1, <1>2, <1>5, <1>7, <2>2, AccessTypes, AccessTypesKept
<1>9. RequestsHold'
  BY <1>1, <1>6 DEF RequestsHold, Comparing, Bringing
<1>10. \A n \in DOMAIN sessions' :
         \/ n = Len(sessions) + 1
         \/ n \in DOMAIN sessions /\ n \in 1 .. Len(sessions)
  BY <1>1, <1>5, AccessTypes
<1>11. SelectionsHold' /\ OneSessionPerSelection'
  BY <1>1, <1>2, <1>3, <1>4, <1>5, <1>6, <1>10, SelectionsKept
<1>12. ResetEndsSessions'
  BY <1>1, <1>2, <1>3, <1>4, <1>5, <1>10, ResetKept
<1>13. QED
  BY <1>7, <1>8, <1>9, <1>11, <1>12 DEF AccessInv

\* A choice of company uses its selection up and opens a session by it.
LEMMA SelectKeepsAccess ==
  ASSUME AccessInv, NEW q \in Requests, SelectCommits(q)
  PROVE  AccessInv'
<1>1. AccessTypeOK /\ RequestsHold /\ SelectionsHold /\ OneSessionPerSelection
      /\ ResetEndsSessions /\ CounterHolds /\ LockAfterWrongPins
  BY DEF AccessInv
<1> DEFINE s == request[q].selection
           row == NewSession(request[q].employment, s)
<1>2. /\ employment' = employment /\ disabling' = disabling /\ resets' = resets
      /\ calls' = calls /\ orders' = orders
      /\ selections' = [selections EXCEPT ![s] = "USED"]
      /\ sessions' = Append(sessions, row)
      /\ request[q].at = "select"
      /\ CounterCleared(q)
  BY DEF SelectCommits, CounterCleared
<1>3. /\ s \in DOMAIN selections /\ s \in Nat /\ selections[s] = "OPEN"
      /\ \A o \in Requests :
           request[o].at = "select" /\ request[o].selection = s => o = q
  BY <1>1, <1>2, AccessTypes DEF SelectionsHold
<1>4. row \in SessionRow /\ row.selection = s /\ row.resets = resets
  <2>1. request[q].employment \in Employments /\ resets \in Nat
    BY <1>1, <1>2, AccessTypes DEF RequestsHold
  <2>2. QED
    BY <1>3, <2>1 DEF NewSession, SessionRow
<1> HIDE DEF s, row
<1>5. /\ selections' \in Seq({"OPEN", "USED", "EXPIRED"})
      /\ Len(selections') = Len(selections)
      /\ DOMAIN selections' = DOMAIN selections
      /\ selections'[s] = "USED"
      /\ \A r \in DOMAIN selections : r # s => selections'[r] = selections[r]
  <2>1. selections \in Seq({"OPEN", "USED", "EXPIRED"})
    BY <1>1, AccessTypes
  <2>2. QED
    BY <1>2, <1>3, <2>1
<1>6. /\ sessions' \in Seq(SessionRow)
      /\ Len(sessions') = Len(sessions) + 1 /\ Len(sessions) \in Nat
      /\ DOMAIN sessions = 1 .. Len(sessions)
      /\ DOMAIN sessions' = 1 .. Len(sessions) + 1
      /\ sessions'[Len(sessions) + 1] = row
      /\ \A n \in 1 .. Len(sessions) : sessions'[n] = sessions[n]
  <2>1. sessions \in Seq(SessionRow) /\ DOMAIN sessions = 1 .. Len(sessions)
    BY <1>1, AccessTypes
  <2>2. /\ Append(sessions, row) \in Seq(SessionRow)
        /\ Len(Append(sessions, row)) = Len(sessions) + 1
        /\ Append(sessions, row)[Len(sessions) + 1] = row
        /\ \A n \in 1 .. Len(sessions) : Append(sessions, row)[n] = sessions[n]
    BY <1>4, <2>1, SessionAdded
  <2>3. QED
    BY <1>1, <1>2, <2>1, <2>2, AccessTypes
<1>7. /\ request' \in [Requests -> RequestMemory]
      /\ request'[q].at = "idle"
      /\ \A o \in Requests : o # q => request'[o] = request[o]
  BY <1>1, AccessTypes, RequestEnded DEF SelectCommits
<1>8. /\ identity' \in IdentityRow
      /\ identity'.attempts = 0 /\ identity'.locked = FALSE
  BY <1>1, AccessTypes DEF SelectCommits, ClearCounter, IdentityRow
<1>9. AccessTypeOK'
  <2>1. RequestMemory \subseteq RequestMemory'
    BY <1>1, <1>2, <1>5, <1>6, AccessTypes, MemoryKept
  <2>2. request' \in [Requests -> RequestMemory']
    BY <1>7, <2>1
  <2>3. wrongPins' = 0 /\ overlapped' \in BOOLEAN
    BY <1>2 DEF CounterCleared, OthersUnderWay
  <2>4. QED
    BY <1>1, <1>2, <1>5, <1>6, <1>8, <2>2, <2>3, AccessTypes, AccessTypesKept
<1>10. RequestsHold'
  BY <1>1, <1>7 DEF RequestsHold, Comparing, Bringing
<1>11. \A n \in DOMAIN sessions' :
         n = Len(sessions) + 1 \/ (n # Len(sessions) + 1 /\ n \in DOMAIN sessions)
  BY <1>6
<1>12. SelectionsHold'
  <2>1. \A n \in DOMAIN sessions' : sessions'[n].selection # 0 =>
          /\ sessions'[n].selection \in DOMAIN selections'
          /\ selections'[sessions'[n].selection] = "USED"
    BY <1>1, <1>3, <1>4, <1>5, <1>6, <1>11 DEF SelectionsHold
  <2>2. \A o \in Requests : request'[o].at = "select" =>
          o # q /\ request'[o] = request[o] /\ request[o].selection # s
    BY <1>3, <1>7
  <2>3. \A o \in Requests : request'[o].at = "select" =>
          /\ request'[o].selection \in DOMAIN selections'
          /\ selections'[request'[o].selection] = "OPEN"
    BY <1>1, <1>5, <2>2 DEF SelectionsHold
  <2>4. QED
    BY <1>1, <2>1, <2>2, <2>3 DEF SelectionsHold
<1>13. OneSessionPerSelection'
  <2>1. \A n \in DOMAIN sessions : sessions[n].selection # s \/ s = 0
    BY <1>1, <1>3 DEF SelectionsHold
  <2>2. QED
    BY <1>1, <1>4, <1>6, <1>11, <2>1 DEF OneSessionPerSelection
<1>14. ResetEndsSessions'
  BY <1>1, <1>2, <1>4, <1>6, <1>11, ResetKept
<1>15. CounterHolds' /\ LockAfterWrongPins'
  BY <1>2, <1>7, <1>8, CounterKeptByClearing DEF Comparing, Bringing
<1>16. QED
  BY <1>9, <1>10, <1>12, <1>13, <1>14, <1>15 DEF AccessInv

\* Sessions end one by one, or those of an employee.
LEMMA EndingKeepsAccess ==
  ASSUME AccessInv, Logout \/ RevokeDisabled
  PROVE  AccessInv'
<1>1. AccessTypeOK /\ RequestsHold /\ SelectionsHold /\ OneSessionPerSelection
      /\ ResetEndsSessions /\ CounterHolds /\ LockAfterWrongPins
  BY DEF AccessInv
<1>2. /\ identity' = identity /\ employment' = employment
      /\ selections' = selections /\ request' = request
      /\ wrongPins' = wrongPins /\ overlapped' = overlapped /\ resets' = resets
      /\ calls' = calls /\ disabling' \subseteq Employments
      /\ orders' \in 0 .. MaxOrders
  <2>1. /\ disabling \subseteq Employments /\ orders \in 0 .. MaxOrders
        /\ MaxOrders \in Nat
    BY <1>1, AccessTypes, EmployeeAccessAssumption
  <2>2. /\ orders' = orders \/ (orders >= 1 /\ orders' = orders - 1)
        /\ disabling' \subseteq disabling
    BY DEF Logout, RevokeDisabled, Orders
  <2>3. orders' \in 0 .. MaxOrders
    BY <2>1, <2>2
  <2>4. QED
    BY <2>1, <2>2, <2>3 DEF Logout, RevokeDisabled, ghosts
<1>3. \/ \E n \in Nat : sessions' = [sessions EXCEPT ![n].live = FALSE]
      \/ \E of : sessions' = Revoked(of)
  <2>1. CASE Logout
    <3>1. \A n \in DOMAIN sessions : n \in Nat
      BY <1>1, AccessTypes
    <3>2. QED
      BY <2>1, <3>1 DEF Logout
  <2>2. CASE RevokeDisabled
    BY <2>2 DEF RevokeDisabled
  <2>3. QED
    BY <2>1, <2>2
<1>4. /\ sessions' \in Seq(SessionRow)
      /\ Len(sessions') = Len(sessions)
      /\ DOMAIN sessions = 1 .. Len(sessions)
      /\ DOMAIN sessions' = 1 .. Len(sessions)
      /\ \A n \in 1 .. Len(sessions) :
           /\ sessions'[n].selection = sessions[n].selection
           /\ sessions'[n].resets = sessions[n].resets
           /\ sessions'[n].live => sessions[n].live
  BY <1>1, <1>3, AccessTypes, SessionsEnded
<1>5. AccessTypeOK'
  <2>1. request' \in [Requests -> RequestMemory']
    BY <1>1, <1>2, <1>4, AccessTypes DEF RequestMemory
  <2>2. QED
    BY <1>1, <1>2, <1>4, <2>1, AccessTypes, AccessTypesKept
<1>6. RequestsHold'
  BY <1>1, <1>2 DEF RequestsHold
<1>7. SelectionsHold' /\ OneSessionPerSelection'
  BY <1>1, <1>2, <1>4, SelectionsKept
<1>8. ResetEndsSessions'
  BY <1>1, <1>2, <1>4, ResetKept
<1>9. CounterHolds' /\ LockAfterWrongPins'
  BY <1>1, <1>2, CounterKept
<1>10. QED
  BY <1>5, <1>6, <1>7, <1>8, <1>9 DEF AccessInv

\* A reset ends every session, and clears the counter.
LEMMA ResetKeepsAccess ==
  ASSUME AccessInv, ResetPin
  PROVE  AccessInv'
<1>1. AccessTypeOK /\ RequestsHold /\ SelectionsHold /\ OneSessionPerSelection
      /\ ResetEndsSessions /\ CounterHolds /\ LockAfterWrongPins
  BY DEF AccessInv
<1>2. /\ employment' = employment /\ selections' = selections
      /\ request' = request /\ calls' = calls /\ disabling' = disabling
      /\ sessions' = Revoked(Employments)
      /\ resets' = resets + 1 /\ wrongPins' = 0
      /\ overlapped' = (\E q \in Requests : request[q].at # "idle")
      /\ identity' = [identity EXCEPT !.pin = NoPin, !.legacy = FALSE,
                                      !.attempts = 0, !.locked = FALSE]
  BY DEF ResetPin, EndSessions, RevokeForReset
<1>3. resets' \in Nat /\ orders' \in 0 .. MaxOrders
  <2>1. /\ resets \in Nat /\ orders \in 0 .. MaxOrders /\ MaxOrders \in Nat
    BY <1>1, AccessTypes, EmployeeAccessAssumption
  <2>2. orders >= 1 /\ orders' = orders - 1
    BY DEF ResetPin, Orders
  <2>3. QED
    BY <1>2, <2>1, <2>2
<1>4. /\ sessions' \in Seq(SessionRow)
      /\ Len(sessions') = Len(sessions)
      /\ DOMAIN sessions = 1 .. Len(sessions)
      /\ DOMAIN sessions' = 1 .. Len(sessions)
      /\ \A n \in 1 .. Len(sessions) :
           sessions'[n].selection = sessions[n].selection
  BY <1>1, <1>2, AccessTypes, SessionsEnded
<1>5. \A n \in DOMAIN sessions' : ~sessions'[n].live
  <2>1. \A n \in 1 .. Len(sessions) : sessions[n] \in SessionRow
    BY <1>1, AccessTypes
  <2>2. \A n \in 1 .. Len(sessions) :
          sessions'[n] = [sessions[n] EXCEPT !.live = FALSE]
    BY <1>2, <1>4, <2>1 DEF Revoked, SessionRow
  <2>3. QED
    BY <1>4, <2>1, <2>2 DEF SessionRow
<1>6. /\ identity' \in IdentityRow
      /\ identity'.attempts = 0 /\ identity'.locked = FALSE
  BY <1>1, <1>2, AccessTypes DEF IdentityRow
<1>7. AccessTypeOK'
  <2>1. request' \in [Requests -> RequestMemory']
    BY <1>1, <1>2, <1>4, AccessTypes DEF RequestMemory
  <2>2. overlapped' \in BOOLEAN
    BY <1>2
  <2>3. QED
    BY <1>1, <1>2, <1>3, <1>4, <1>6, <2>1, <2>2, AccessTypes, AccessTypesKept
<1>8. RequestsHold'
  BY <1>1, <1>2 DEF RequestsHold
<1>9. SelectionsHold' /\ OneSessionPerSelection'
  BY <1>1, <1>2, <1>4, SelectionsKept
<1>10. ResetEndsSessions'
  BY <1>5 DEF ResetEndsSessions
<1>11. CounterHolds' /\ LockAfterWrongPins'
  BY <1>2, <1>6 DEF CounterHolds, LockAfterWrongPins, Comparing, Bringing
<1>12. QED
  BY <1>7, <1>8, <1>9, <1>10, <1>11 DEF AccessInv

\* A status changes, a lock or a selection runs out, or nothing happens.
LEMMA TimeKeepsAccess ==
  ASSUME AccessInv,
         \/ SetStatus \/ RevocationLost \/ LockExpires \/ SelectionExpires
         \/ UNCHANGED accessVars
  PROVE  AccessInv'
<1>1. AccessTypeOK /\ RequestsHold /\ SelectionsHold /\ OneSessionPerSelection
      /\ ResetEndsSessions /\ CounterHolds /\ LockAfterWrongPins
  BY DEF AccessInv
<1>2. /\ sessions' = sessions /\ request' = request /\ wrongPins' = wrongPins
      /\ overlapped' = overlapped /\ resets' = resets /\ calls' = calls
  BY DEF SetStatus, RevocationLost, LockExpires, SelectionExpires, accessVars, ghosts
<1>3. orders' \in 0 .. MaxOrders
  <2>1. orders \in 0 .. MaxOrders /\ MaxOrders \in Nat
    BY <1>1, AccessTypes, EmployeeAccessAssumption
  <2>2. orders' = orders \/ (orders >= 1 /\ orders' = orders - 1)
    BY DEF SetStatus, RevocationLost, LockExpires, SelectionExpires, accessVars, Orders
  <2>3. QED
    BY <2>1, <2>2
<1>4. /\ identity' \in IdentityRow /\ identity'.attempts = identity.attempts
      /\ identity'.locked => identity.locked
  <2>1. \/ identity' = identity
        \/ identity' = [identity EXCEPT !.locked = FALSE]
    BY DEF SetStatus, RevocationLost, LockExpires, SelectionExpires, accessVars
  <2>2. QED
    BY <1>1, <2>1, AccessTypes DEF IdentityRow
<1>5. /\ employment' \in [Employments -> {"ACTIVE", "DISABLED", "TERMINATED"}]
      /\ disabling' \subseteq Employments
  <2>1. CASE SetStatus
    BY <1>1, <2>1, AccessTypes DEF SetStatus
  <2>2. CASE ~SetStatus
    BY <1>1, <2>2, AccessTypes
       DEF RevocationLost, LockExpires, SelectionExpires, accessVars
  <2>3. QED
    BY <2>1, <2>2
<1>6. /\ selections' \in Seq({"OPEN", "USED", "EXPIRED"})
      /\ Len(selections') = Len(selections)
      /\ SelectionsHold' /\ OneSessionPerSelection'
  <2>1. CASE SelectionExpires
    <3>1. PICK s \in DOMAIN selections :
            /\ selections[s] = "OPEN"
            /\ \A q \in Requests :
                 ~(request[q].at = "select" /\ request[q].selection = s)
            /\ selections' = [selections EXCEPT ![s] = "EXPIRED"]
      BY <2>1 DEF SelectionExpires, Selectable
    <3>2. selections \in Seq({"OPEN", "USED", "EXPIRED"})
      BY <1>1, AccessTypes
    <3>3. /\ selections' \in Seq({"OPEN", "USED", "EXPIRED"})
          /\ Len(selections') = Len(selections)
          /\ DOMAIN selections' = DOMAIN selections
          /\ \A r \in DOMAIN selections : r # s => selections'[r] = selections[r]
      BY <3>1, <3>2
    <3>4. SelectionsHold'
      BY <1>1, <1>2, <3>1, <3>3 DEF SelectionsHold
    <3>5. OneSessionPerSelection'
      BY <1>1, <1>2 DEF OneSessionPerSelection
    <3>6. QED
      BY <3>3, <3>4, <3>5
  <2>2. CASE ~SelectionExpires
    <3>1. selections' = selections
      BY <2>2 DEF SetStatus, RevocationLost, LockExpires, accessVars
    <3>2. QED
      BY <1>1, <1>2, <3>1, AccessTypes, SelectionsKept
  <2>3. QED
    BY <2>1, <2>2
<1>7. AccessTypeOK'
  <2>1. request' \in [Requests -> RequestMemory']
    BY <1>1, <1>2, <1>6, AccessTypes DEF RequestMemory
  <2>2. QED
    BY <1>1, <1>2, <1>3, <1>4, <1>5, <1>6, <2>1, AccessTypes, AccessTypesKept
<1>8. RequestsHold' /\ ResetEndsSessions'
  BY <1>1, <1>2 DEF RequestsHold, ResetEndsSessions
<1>9. CounterHolds' /\ LockAfterWrongPins'
  BY <1>1, <1>2, <1>4, CounterKept
<1>10. QED
  BY <1>6, <1>7, <1>8, <1>9 DEF AccessInv

\* Every step of a request, of the master and of time keeps the invariant.
LEMMA AccessInvHolds == AccessSpec => []AccessInv
<1>1. AccessInit => AccessInv
  <2> SUFFICES ASSUME AccessInit PROVE AccessInv
    OBVIOUS
  <2>1. AccessTypeOK
    <3>1. sessions = <<>> /\ selections = <<>> /\ Len(sessions) = 0 /\ Len(selections) = 0
      BY DEF AccessInit
    <3>2. Quiet \in RequestMemory
      BY <3>1 DEF Quiet, RequestMemory, AccessPlaces
    <3>3. request \in [Requests -> RequestMemory]
      BY <3>2 DEF AccessInit
    <3>4. identity \in IdentityRow
      <4>1. identity \in [pin : Pins \cup {NoPin}, legacy : BOOLEAN,
                          attempts : {0}, locked : {FALSE}]
        BY Zenon DEF AccessInit
      <4>2. {0} \subseteq Nat /\ {FALSE} \subseteq BOOLEAN
        OBVIOUS
      <4>3. QED
        BY <4>1, <4>2 DEF IdentityRow
    <3>5. /\ employment \in [Employments -> {"ACTIVE", "DISABLED", "TERMINATED"}]
          /\ calls \in 0 .. MaxRequests /\ orders \in 0 .. MaxOrders
      BY EmployeeAccessAssumption DEF AccessInit
    <3>6. /\ sessions \in Seq(SessionRow)
          /\ selections \in Seq({"OPEN", "USED", "EXPIRED"})
          /\ disabling \subseteq Employments
          /\ wrongPins \in Nat /\ overlapped \in BOOLEAN /\ resets \in Nat
      <4>1. disabling = {} /\ wrongPins = 0 /\ overlapped = FALSE /\ resets = 0
        BY DEF AccessInit
      <4>2. sessions \in Seq(SessionRow)
        BY <3>1
      <4>3. selections \in Seq({"OPEN", "USED", "EXPIRED"})
        BY <3>1
      <4>4. QED
        BY <4>1, <4>2, <4>3
    <3>7. QED
      BY <3>3, <3>4, <3>5, <3>6
         DEF AccessTypeOK, RequestMemory, IdentityRow, SessionRow, AccessPlaces
  <2>2. \A q \in Requests : request[q].at = "idle"
    BY DEF AccessInit, Quiet
  <2>3. DOMAIN sessions = {}
    BY DEF AccessInit
  <2>4. identity.attempts = 0 /\ identity.locked = FALSE /\ wrongPins = 0
    BY DEF AccessInit
  <2>5. QED
    BY <2>1, <2>2, <2>3, <2>4
       DEF AccessInv, RequestsHold, SelectionsHold, OneSessionPerSelection,
           ResetEndsSessions, CounterHolds, LockAfterWrongPins, Comparing, Bringing
<1>2. AccessInv /\ [AccessNext]_accessVars => AccessInv'
  BY StartKeepsAccess, MoveKeepsAccess, WriteKeepsAccess, OfferKeepsAccess,
     OpeningKeepsAccess, SelectKeepsAccess, EndingKeepsAccess, ResetKeepsAccess,
     TimeKeepsAccess
     DEF AccessNext, AccessIdle
<1>3. QED
  BY <1>1, <1>2, PTL DEF AccessSpec

(***************************************************************************)
(* The identity, the employments, the sessions, the selections and the     *)
(* memory of each request keep to their types, and a request names only    *)
(* sessions and selections that exist.                                     *)
(***************************************************************************)
THEOREM AccessTypeCorrect == AccessSpec => []AccessTypeOK
<1>1. AccessInv => AccessTypeOK
  BY DEF AccessInv
<1>2. QED
  BY <1>1, AccessInvHolds, PTL

(***************************************************************************)
(* A choice of company opens one session, however many requests bring its  *)
(* token at once.                                                          *)
(***************************************************************************)
THEOREM AlwaysOneSessionPerSelection == AccessSpec => []OneSessionPerSelection
<1>1. AccessInv => OneSessionPerSelection
  BY DEF AccessInv
<1>2. QED
  BY <1>1, AccessInvHolds, PTL

(***************************************************************************)
(* A session that was open when the PIN was reset is closed, in every      *)
(* company of the identity; every live session was opened after the last   *)
(* reset, for any number of requests and orders.                           *)
(***************************************************************************)
THEOREM ResetAlwaysEndsSessions == AccessSpec => []ResetEndsSessions
<1>1. AccessInv => ResetEndsSessions
  BY DEF AccessInv
<1>2. QED
  BY <1>1, AccessInvHolds, PTL

(***************************************************************************)
(* Unless requests have overlapped, the counter says how many wrong PINs   *)
(* came, at logins and at signatures, since a session, a PIN confirmed at  *)
(* a signature, a reset or a first access cleared it; and a lock means     *)
(* that it is at the limit.                                                *)
(***************************************************************************)
THEOREM LockAlwaysAfterWrongPins == AccessSpec => []LockAfterWrongPins
<1>1. AccessInv => LockAfterWrongPins
  BY DEF AccessInv
<1>2. QED
  BY <1>1, AccessInvHolds, PTL

-----------------------------------------------------------------------------
(***************************************************************************)
(* The rows of the employees.                                              *)
(***************************************************************************)

Results == {ResultOf(read) : read \in Readings(Cards)}

\* The cards that a contract has ever held.
EverHeld(c) == ToSet(held[c])

\* A lookup says nothing yet, or what it found of a contract of its person with
\* its company.
LookupRow ==
  [company : Companies, person : Persons,
   status : {"QUEUED", "FOUND_CODE", "COMPLETED", "FAILED"},
   code : Contracts \cup {Absent}, since : Nat, result : Results \cup {Absent}]

CardsHeld == held \in [Contracts -> Seq(Cards)]

\* A lookup that found a code reads that contract from one of its cards on; its
\* result is of that contract.
LookupsHold ==
  /\ lookups \in Seq(LookupRow)
  /\ \A j \in DOMAIN lookups :
       /\ lookups[j].status = "FOUND_CODE" \/ lookups[j].result # Absent =>
            lookups[j].code \in Contracts
       /\ lookups[j].status = "FOUND_CODE" => lookups[j].since >= 1
       /\ lookups[j].result # Absent =>
            \E read \in Readings(EverHeld(lookups[j].code)) :
              lookups[j].result = ResultOf(read)

RegistryInv ==
  /\ CardsHeld
  /\ LookupsHold
  /\ DOMAIN employees = Contracts
  /\ employees = [c \in Contracts |-> employees[c]]
  /\ RowsComeFromTheirContract

\* What is read of some cards may be read of more.
LEMMA ReadingsGrow ==
  ASSUME NEW few, NEW many, few \subseteq many
  PROVE  Readings(few) \subseteq Readings(many)
BY DEF Readings

\* A contract has held cards, and what it holds from some card on is of those.
LEMMA CardsOfContract ==
  ASSUME CardsHeld, NEW c \in Contracts
  PROVE  /\ EverHeld(c) = {held[c][i] : i \in 1 .. Len(held[c])}
         /\ EverHeld(c) \subseteq Cards /\ Len(held[c]) \in Nat
         /\ held[c] # <<>> => Len(held[c]) >= 1
         /\ \A since \in Nat \ {0} :
              ToSet(SubSeq(held[c], since, Len(held[c]))) \subseteq EverHeld(c)
<1>1. held[c] \in Seq(Cards)
  BY DEF CardsHeld
<1>2. /\ Len(held[c]) \in Nat /\ DOMAIN held[c] = 1 .. Len(held[c])
      /\ \A i \in 1 .. Len(held[c]) : held[c][i] \in Cards
      /\ held[c] # <<>> => Len(held[c]) >= 1
  BY <1>1
<1>3. EverHeld(c) = {held[c][i] : i \in 1 .. Len(held[c])}
  BY <1>2 DEF EverHeld, ToSet
<1>4. ASSUME NEW since \in Nat \ {0}
      PROVE  ToSet(SubSeq(held[c], since, Len(held[c]))) \subseteq EverHeld(c)
  <2> DEFINE s == SubSeq(held[c], since, Len(held[c]))
  <2>1. \A i \in DOMAIN s : \E k \in 1 .. Len(held[c]) : s[i] = held[c][k]
    BY <1>1, <1>2
  <2> HIDE DEF s
  <2>2. ToSet(s) \subseteq EverHeld(c)
    BY <1>3, <2>1 DEF ToSet
  <2>3. QED
    BY <2>2 DEF s
<1>5. QED
  BY <1>2, <1>3, <1>4

\* A job of the connector writes its own row.
LEMMA AnswerKeepsLookups ==
  ASSUME RegistryInv, NEW j \in DOMAIN lookups,
         NEW status \in {"QUEUED", "FOUND_CODE", "COMPLETED", "FAILED"},
         NEW code \in Contracts \cup {Absent}, NEW since \in Nat,
         NEW result \in Results \cup {Absent},
         Answers(j, status, code, since, result),
         status = "FOUND_CODE" \/ result # Absent => code \in Contracts,
         status = "FOUND_CODE" => since >= 1,
         result # Absent =>
           \E read \in Readings(EverHeld(code)) : result = ResultOf(read)
  PROVE  RegistryInv'
<1> DEFINE new == [lookups[j] EXCEPT !.status = status, !.code = code,
                                     !.since = since, !.result = result]
<1>1. /\ lookups \in Seq(LookupRow) /\ lookups[j] \in LookupRow
      /\ DOMAIN lookups = 1 .. Len(lookups)
  BY DEF RegistryInv, LookupsHold
<1>2. /\ new \in LookupRow
      /\ new.status = status /\ new.code = code /\ new.result = result
      /\ new.since = since
  BY <1>1 DEF LookupRow
<1>3. /\ lookups' = [lookups EXCEPT ![j] = new]
      /\ held' = held /\ employees' = employees
  BY <1>1 DEF Answers, LookupRow
<1> HIDE DEF new
<1>4. /\ lookups' \in Seq(LookupRow) /\ DOMAIN lookups' = DOMAIN lookups
      /\ lookups'[j] = new
      /\ \A i \in DOMAIN lookups : i # j => lookups'[i] = lookups[i]
  BY <1>1, <1>2, <1>3
<1>5. LookupsHold'
  BY <1>2, <1>3, <1>4 DEF RegistryInv, LookupsHold, EverHeld
<1>6. QED
  BY <1>3, <1>5 DEF RegistryInv, CardsHeld, RowsComeFromTheirContract

\* Sage changes: what was held stays held.
LEMMA EditKeepsRegistry ==
  ASSUME RegistryInv, SageEdits
  PROVE  RegistryInv'
<1>1. PICK c \in Contracts, card \in Cards :
        held' = [held EXCEPT ![c] = Append(@, card)]
  BY DEF SageEdits
<1>2. lookups' = lookups /\ employees' = employees
  BY DEF SageEdits
<1>3. CardsHeld /\ held[c] \in Seq(Cards)
  BY DEF RegistryInv, CardsHeld
<1>4. CardsHeld'
  <2>1. Append(held[c], card) \in Seq(Cards)
    BY <1>3
  <2>2. QED
    BY <1>1, <1>3, <2>1 DEF CardsHeld
<1>5. \A d \in Contracts : Readings(EverHeld(d)) \subseteq Readings(EverHeld(d)')
  <2> SUFFICES ASSUME NEW d \in Contracts
               PROVE  EverHeld(d) \subseteq EverHeld(d)'
    BY ReadingsGrow
  <2>1. CASE d # c
    BY <1>1, <1>3, <2>1 DEF EverHeld, CardsHeld
  <2>2. CASE d = c
    <3>1. held'[c] = Append(held[c], card)
      BY <1>1, <1>3 DEF CardsHeld
    <3>2. /\ DOMAIN held[c] \subseteq DOMAIN held'[c]
          /\ \A i \in DOMAIN held[c] : held'[c][i] = held[c][i]
      BY <1>3, <3>1
    <3>3. QED
      BY <2>2, <3>2 DEF EverHeld, ToSet
  <2>3. QED
    BY <2>1, <2>2
<1>6. LookupsHold'
  BY <1>2, <1>5 DEF RegistryInv, LookupsHold, EverHeld
<1>7. RowsComeFromTheirContract'
  BY <1>2, <1>5 DEF RegistryInv, RowsComeFromTheirContract, EverHeld
<1>8. QED
  BY <1>2, <1>4, <1>6, <1>7 DEF RegistryInv

\* Every step of Sage, of a lookup and of its answer keeps the invariant of
\* the registry.
LEMMA RegistryInvKept ==
  ASSUME RegistryInv, [RegistryNext]_registryVars
  PROVE  RegistryInv'
<1>1. CASE SageEdits
  BY <1>1, EditKeepsRegistry
<1>2. CASE StartLookup \/ StartSync
  <2>1. PICK company \in Companies, person \in Persons : Asks(company, person)
    BY <1>2 DEF StartLookup, StartSync
  <2> DEFINE new == [company |-> company, person |-> person, status |-> "QUEUED",
                     code |-> Absent, since |-> 0, result |-> Absent]
  <2>2. /\ lookups' = Append(lookups, new)
        /\ held' = held /\ employees' = employees
    BY <2>1 DEF Asks
  <2>3. new \in LookupRow /\ new.status = "QUEUED" /\ new.result = Absent
    BY DEF LookupRow
  <2> HIDE DEF new, LookupRow
  <2>4. /\ lookups \in Seq(LookupRow) /\ DOMAIN lookups = 1 .. Len(lookups)
        /\ Len(lookups) \in Nat
    BY DEF RegistryInv, LookupsHold
  <2>5. /\ lookups' \in Seq(LookupRow)
        /\ \A j \in DOMAIN lookups' :
             lookups'[j] = new \/ (j \in DOMAIN lookups /\ lookups'[j] = lookups[j])
    BY <2>2, <2>3, <2>4
  <2>6. LookupsHold'
    BY <2>2, <2>3, <2>5 DEF RegistryInv, LookupsHold, EverHeld
  <2>7. QED
    BY <2>2, <2>6 DEF RegistryInv, CardsHeld, RowsComeFromTheirContract
<1>3. ASSUME NEW j \in DOMAIN lookups,
             FindCode(j) \/ NothingFound(j) \/ ReadCard(j) \/ LookupFails(j)
      PROVE  RegistryInv'
  <2>1. CASE FindCode(j)
    BY <2>1, CardsOfContract, AnswerKeepsLookups DEF FindCode, RegistryInv
  <2>2. CASE NothingFound(j)
    BY <2>2, AnswerKeepsLookups DEF NothingFound
  <2>3. CASE ReadCard(j)
    <3>1. /\ lookups[j].code \in Contracts
          /\ lookups[j] \in LookupRow /\ lookups[j].since >= 1
      BY <2>3 DEF ReadCard, RegistryInv, LookupsHold
    <3>2. PICK read \in Readings(Meanwhile(j)) :
            Answers(j, "COMPLETED", lookups[j].code, 0, ResultOf(read))
      BY <2>3 DEF ReadCard
    <3>3. lookups[j].since \in Nat \ {0}
      BY <3>1 DEF LookupRow
    <3>4. /\ Meanwhile(j) \subseteq EverHeld(lookups[j].code)
          /\ EverHeld(lookups[j].code) \subseteq Cards
      BY <3>1, <3>3, CardsOfContract DEF Meanwhile, RegistryInv
    <3>5. read \in Readings(EverHeld(lookups[j].code)) /\ ResultOf(read) \in Results
      BY <3>4, ReadingsGrow DEF Results
    <3>6. QED
      BY <3>1, <3>2, <3>5, AnswerKeepsLookups
  <2>4. CASE LookupFails(j)
    BY <2>4, AnswerKeepsLookups DEF LookupFails
  <2>5. QED
    BY <1>3, <2>1, <2>2, <2>3, <2>4
<1>4. ASSUME NEW j \in DOMAIN lookups, CreateFromLookup(j) \/ ApplySync(j)
      PROVE  RegistryInv'
  <2>1. /\ lookups[j].result # Absent
        /\ held' = held /\ lookups' = lookups
    BY <1>4 DEF CreateFromLookup, ApplySync, Found
  <2>2. employees' = [employees EXCEPT ![lookups[j].code] =
                        SageEmployeePatch(lookups[j].result)]
    BY <1>4 DEF CreateFromLookup, ApplySync, SameEmployee
  <2>3. PICK read \in Readings(EverHeld(lookups[j].code)) :
          lookups[j].result = ResultOf(read)
    BY <2>1 DEF RegistryInv, LookupsHold
  <2>4. RowsComeFromTheirContract'
    BY <2>1, <2>2, <2>3 DEF RegistryInv, RowsComeFromTheirContract, EverHeld
  <2>5. QED
    BY <2>1, <2>2, <2>4 DEF RegistryInv, CardsHeld, LookupsHold, EverHeld
<1>5. CASE RemoveEmployee
  BY <1>5 DEF RemoveEmployee, RegistryInv, CardsHeld, LookupsHold,
              RowsComeFromTheirContract, EverHeld
<1>6. CASE UNCHANGED registryVars
  BY <1>6 DEF registryVars, RegistryInv, CardsHeld, LookupsHold,
              RowsComeFromTheirContract, EverHeld
<1>7. QED
  BY <1>1, <1>2, <1>3, <1>4, <1>5, <1>6 DEF RegistryNext

\* The invariant of the registry in every state of a behaviour.
LEMMA RegistryInvHolds == RegistrySpec => []RegistryInv
<1>1. RegistryInit => RegistryInv
  <2> SUFFICES ASSUME RegistryInit
               PROVE  RegistryInv
    OBVIOUS
  <2>1. {<<>>} \cup {<<card>> : card \in Cards} \subseteq Seq(Cards)
    <3>1. <<>> \in Seq(Cards)
      OBVIOUS
    <3>2. \A card \in Cards : <<card>> \in Seq(Cards)
      OBVIOUS
    <3>3. QED
      BY <3>1, <3>2
  <2>2. CardsHeld
    BY <2>1 DEF RegistryInit, CardsHeld
  <2>3. LookupsHold
    BY DEF RegistryInit, LookupsHold
  <2>4. RowsComeFromTheirContract
    BY DEF RegistryInit, RowsComeFromTheirContract
  <2>5. DOMAIN employees = Contracts /\ employees = [c \in Contracts |-> employees[c]]
    BY DEF RegistryInit
  <2>6. QED
    BY <2>2, <2>3, <2>4, <2>5 DEF RegistryInv
<1>2. RegistryInv /\ [RegistryNext]_registryVars => RegistryInv'
  BY RegistryInvKept
<1>3. QED
  BY <1>1, <1>2, PTL DEF RegistrySpec

(***************************************************************************)
(* Each column of an employee's row is one that Sage has held of that very *)
(* contract, though not all of them at one time: however old the lookup    *)
(* that the row was written from, whichever contract of the person the     *)
(* search for a code met, and whatever Sage changed while the connector    *)
(* read its tables.                                                        *)
(***************************************************************************)
THEOREM RowsAlwaysComeFromTheirContract ==
  RegistrySpec => []RowsComeFromTheirContract
<1>1. RegistryInv => RowsComeFromTheirContract
  BY DEF RegistryInv
<1> QED BY <1>1, RegistryInvHolds, PTL

\* Of functions there is one that is latest, and first of those of its date.
LEMMA LatestPostAmong ==
  ASSUME NEW posts, NEW among, IsFiniteSet(among), among # {},
         \A i \in among : i \in Nat /\ posts[i].date \in Nat
  PROVE  LatestPost(posts, among) \in among
<1> DEFINE Precedes(j, i) ==
             posts[j].date > posts[i].date \/ (posts[j].date = posts[i].date /\ j < i)
           Ahead(i) == {j \in among : Precedes(j, i)}
           Aheads == {Ahead(i) : i \in among}
<1>1. IsWellFoundedOn(StrictSubsetOrdering(among), SUBSET among)
  BY FS_StrictSubsetOrderingWellFounded, FS_FiniteSubsetsOfFinite
<1>2. PICK s \in Aheads : \A u \in Aheads : <<u, s>> \notin StrictSubsetOrdering(among)
  <2>1. Aheads \subseteq SUBSET among /\ Aheads # {}
    OBVIOUS
  <2> HIDE DEF Aheads
  <2> QED BY <1>1, <2>1, WFMin
<1>3. PICK i \in among : s = Ahead(i)
  BY <1>2
<1>4. ASSUME NEW j \in among, Precedes(j, i)
      PROVE  FALSE
  <2>1. Ahead(j) \in Aheads
    OBVIOUS
  <2>2. Ahead(j) \subseteq Ahead(i) /\ j \in Ahead(i) /\ j \notin Ahead(j)
    <3>1. \A k \in among : Precedes(k, j) => Precedes(k, i)
      BY <1>4
    <3>2. ~ Precedes(j, j)
      OBVIOUS
    <3> HIDE DEF Precedes
    <3> QED BY <1>4, <3>1, <3>2
  <2>3. <<Ahead(j), Ahead(i)>> \in StrictSubsetOrdering(among)
    <3> HIDE DEF Precedes
    <3> QED BY <2>2 DEF StrictSubsetOrdering
  <2> QED BY <1>2, <1>3, <2>1, <2>3
<1>5. \A j \in among :
        posts[j].date < posts[i].date \/ (posts[j].date = posts[i].date /\ i <= j)
  BY <1>4
<1> QED BY <1>5 DEF LatestPost

\* The columns that were read are each of a card.
LEMMA ColumnsRead ==
  ASSUME NEW read \in Readings(Cards)
  PROVE  /\ \E card \in Cards : read.posts = card.posts
         /\ \E card \in Cards : read.title = card.title
         /\ \E card \in Cards : read.birth = card.birth
BY DEF Readings

\* The functions on a card are in order from the first on.
LEMMA PostsOfCard ==
  ASSUME NEW card \in Cards
  PROVE  /\ IsFiniteSet(DOMAIN card.posts)
         /\ card.posts # <<>> => DOMAIN card.posts # {}
         /\ \A i \in DOMAIN card.posts : i \in Nat /\ card.posts[i].date \in Nat
<1> DEFINE posts == card.posts
           Posts == {posts[i] : i \in DOMAIN posts}
<1>1. posts \in Seq(Posts) /\ \A i \in DOMAIN posts : posts[i].date \in Nat
  BY EmployeeRegistryAssumption
<1> HIDE DEF posts, Posts
<1>2. Len(posts) \in Nat /\ DOMAIN posts = 1 .. Len(posts)
  BY <1>1
<1>3. IsFiniteSet(DOMAIN posts)
  BY <1>2, FS_Interval
<1>4. posts # <<>> => DOMAIN posts # {}
  BY <1>1, <1>2
<1> QED BY <1>1, <1>2, <1>3, <1>4 DEF posts

\* What a lookup makes of a card, and the API of that, is of its columns.
LEMMA CardTyped ==
  ASSUME NEW read \in Readings(Cards)
  PROVE  ResultOf(read) \in Result /\ SageEmployeePatch(ResultOf(read)) \in Row
<1>0. PICK card \in Cards : read.posts = card.posts
  BY ColumnsRead
<1> DEFINE posts == card.posts
           latest == LatestPost(posts, DOMAIN posts)
           titled == LatestPost(posts, Titled(posts))
<1>1. \A i \in DOMAIN posts : posts[i].title \in Titles
  BY DEF Titles
<1>2. read.title \in Titles /\ NoTitle \in Titles /\ read.birth \in Births
  BY ColumnsRead DEF Titles, Births
<1>3. posts # <<>> => latest \in DOMAIN posts
  <2> HIDE DEF posts
  <2> QED BY LatestPostAmong, PostsOfCard DEF posts
<1>4. Titled(posts) # {} => titled \in DOMAIN posts
  <2>1. Titled(posts) \subseteq DOMAIN posts
    BY DEF Titled
  <2>2. IsFiniteSet(Titled(posts))
    BY <2>1, FS_Subset, PostsOfCard
  <2>3. \A i \in Titled(posts) : i \in Nat /\ posts[i].date \in Nat
    BY <2>1, PostsOfCard
  <2> HIDE DEF posts
  <2> QED BY <2>1, <2>2, <2>3, LatestPostAmong DEF titled
<1> HIDE DEF latest, titled
<1>5. JobTitle(read) \in Titles
  BY <1>0, <1>1, <1>2, <1>3 DEF JobTitle, latest
<1>6. InferSageJobTitle(posts) \in Titles
  BY <1>1, <1>2, <1>4 DEF InferSageJobTitle, titled
<1>7. Situation(read) \in Situations
  BY Zenon DEF Situation, Situations
<1>8. ResultOf(read) \in Result
  BY <1>0, <1>2, <1>5, <1>7 DEF ResultOf, Result
<1>9. SageEmployeePatch(ResultOf(read)) \in Row
  BY <1>0, <1>2, <1>5, <1>6, <1>7 DEF ResultOf, SageEmployeePatch, Row
<1> QED BY <1>8, <1>9

\* What the other rows of the registry hold.
RegistryBounded ==
  /\ Len(lookups) <= MaxLookups
  /\ identities \in [Persons -> Births \cup {Absent}]
  /\ edits \in 0 .. MaxEdits

LEMMA RegistryBoundedKept ==
  ASSUME RegistryInv, RegistryBounded, [RegistryNext]_registryVars
  PROVE  RegistryBounded'
<1>1. /\ lookups \in Seq(LookupRow) /\ Len(lookups) \in Nat
      /\ MaxLookups \in Nat /\ MaxEdits \in Nat
  BY EmployeeRegistryAssumption DEF RegistryInv, LookupsHold
<1>2. CASE SageEdits
  BY <1>1, <1>2 DEF SageEdits, RegistryBounded
<1>3. CASE StartLookup \/ StartSync
  <2>1. /\ Len(lookups) < MaxLookups /\ UNCHANGED <<identities, edits>>
        /\ \E row : lookups' = Append(lookups, row)
    BY <1>3 DEF StartLookup, StartSync, Asks
  <2>2. Len(lookups') = Len(lookups) + 1
    BY <1>1, <2>1
  <2> QED BY <1>1, <2>1, <2>2 DEF RegistryBounded
<1>4. ASSUME NEW j \in DOMAIN lookups,
             FindCode(j) \/ NothingFound(j) \/ ReadCard(j) \/ LookupFails(j)
      PROVE  RegistryBounded'
  <2>1. PICK status, code, since, result : Answers(j, status, code, since, result)
    BY <1>4 DEF FindCode, NothingFound, ReadCard, LookupFails
  <2>2. UNCHANGED <<identities, edits>> /\ Len(lookups') = Len(lookups)
    BY <1>1, <2>1 DEF Answers
  <2> QED BY <2>2 DEF RegistryBounded
<1>5. ASSUME NEW j \in DOMAIN lookups, CreateFromLookup(j)
      PROVE  RegistryBounded'
  <2> DEFINE row == SageEmployeePatch(lookups[j].result)
  <2>1. /\ Found(j, lookups[j].company) /\ UNCHANGED <<lookups, edits>>
        /\ identities' = [identities EXCEPT ![lookups[j].person] = row.birth]
    BY <1>5 DEF CreateFromLookup
  <2>2. PICK read \in Readings(EverHeld(lookups[j].code)) :
          lookups[j].result = ResultOf(read)
    BY <2>1 DEF Found, RegistryInv, LookupsHold
  <2>3. read \in Readings(Cards)
    <3>1. lookups[j].code \in Contracts
      BY <2>1 DEF Found, RegistryInv, LookupsHold
    <3>2. EverHeld(lookups[j].code) \subseteq Cards
      BY <3>1, CardsOfContract DEF RegistryInv
    <3> QED BY <2>2, <3>2, ReadingsGrow
  <2>4. row \in Row
    BY <2>2, <2>3, CardTyped
  <2>5. row.birth \in Births
    BY <2>4 DEF Row
  <2> HIDE DEF row
  <2> QED BY <2>1, <2>5 DEF RegistryBounded
<1>6. ASSUME NEW j \in DOMAIN lookups, ApplySync(j)
      PROVE  RegistryBounded'
  BY <1>6 DEF ApplySync, RegistryBounded
<1>7. CASE RemoveEmployee
  BY <1>7 DEF RemoveEmployee, RegistryBounded
<1>8. CASE UNCHANGED registryVars
  BY <1>8 DEF registryVars, RegistryBounded
<1> QED BY <1>2, <1>3, <1>4, <1>5, <1>6, <1>7, <1>8 DEF RegistryNext

(***************************************************************************)
(* Every row of the registry holds what its columns may hold: a title that *)
(* a card has, on itself or on one of its functions, one of the situations *)
(* and a date of birth that Sage has said.                                 *)
(***************************************************************************)
THEOREM RegistryTypeCorrect == RegistrySpec => []RegistryTypeOK
<1>1. RegistryInit => RegistryBounded
  BY EmployeeRegistryAssumption DEF RegistryInit, RegistryBounded
<1>2. RegistryInv /\ RegistryBounded /\ [RegistryNext]_registryVars => RegistryBounded'
  BY RegistryBoundedKept
<1>3. ASSUME RegistryInv, RegistryBounded
      PROVE  RegistryTypeOK
  <2>1. \A read \in Readings(Cards) :
          ResultOf(read) \in Result /\ SageEmployeePatch(ResultOf(read)) \in Row
    BY CardTyped
  <2>2. LookupRow \subseteq Lookup
    <3>1. Results \subseteq Result
      BY <2>1 DEF Results
    <3> QED BY <3>1 DEF LookupRow, Lookup
  <2>3. lookups \in Seq(Lookup)
    <3>1. lookups \in Seq(LookupRow)
      BY <1>3 DEF RegistryInv, LookupsHold
    <3> HIDE DEF LookupRow, Lookup
    <3> QED BY <2>2, <3>1
  <2>4. employees \in [Contracts -> Row \cup {Absent}]
    <3>1. ASSUME NEW c \in Contracts PROVE employees[c] \in Row \cup {Absent}
      <4>1. Readings(ToSet(held[c])) \subseteq Readings(Cards)
        BY <1>3, CardsOfContract, ReadingsGrow DEF RegistryInv, EverHeld
      <4> QED BY <1>3, <2>1, <4>1 DEF RegistryInv, RowsComeFromTheirContract
    <3> QED BY <1>3, <3>1 DEF RegistryInv
  <2> QED BY <1>3, <2>3, <2>4 DEF RegistryInv, CardsHeld, RegistryBounded, RegistryTypeOK
<1> QED BY <1>1, <1>2, <1>3, RegistryInvHolds, PTL DEF RegistrySpec

-----------------------------------------------------------------------------
(***************************************************************************)
(* The tabs of a browser.                                                  *)
(***************************************************************************)

WebRow == [who : Principals, csrf : 1 .. MaxWebTokens, live : BOOLEAN]

\* A token that a cookie or a call holds is 0 or the place of a row.
TokensHold ==
  /\ jar.token <= Len(webRows)
  /\ \A t \in Tabs : webCalls[t] # NoWebCall =>
       /\ webCalls[t].sent.token <= Len(webRows)
       /\ webCalls[t].answer.token <= Len(webRows)

\* Whoever has to choose a company, or logs in, shows nobody.
TabsHold ==
  \A t \in Tabs :
    /\ tabs[t].selecting => tabs[t].principal = Anonymous
    /\ webCalls[t] # NoWebCall =>
         /\ webCalls[t].kind = "LOGIN" => tabs[t].principal = Anonymous
         /\ webCalls[t].kind = "SELECT" => tabs[t].selecting

\* What a call may have got at its stage.
AnswerIsOfCall(call) ==
  /\ call.stage = "ASKED" =>
       call.sets = {} /\ call.who = Anonymous /\ ~ call.select
  /\ call.select => call.kind = "LOGIN" /\ call.sets = {} /\ call.who = Anonymous
  /\ call.stage = "REFUSED" => call.kind # "ME"

AnswersHold ==
  \A t \in Tabs : webCalls[t] # NoWebCall =>
    /\ AnswerIsOfCall(webCalls[t])
    /\ webCalls[t].stage = "LOST" => calm = {}

\* The cookies of the browser once it has taken the answer of a call.
CookiesAfter(call) ==
  [c \in DOMAIN jar |-> IF c \in call.sets THEN call.answer[c] ELSE jar[c]]

\* The cookies belong together, and to the one shown.
CookiesAgree(cookies, who) ==
  IF SessionLives(cookies)
  THEN webRows[cookies.token].csrf = cookies.csrf /\ webRows[cookies.token].who = who
  ELSE who = Anonymous

\* A call that runs alone was sent with the cookies that the browser has, and
\* what comes back agrees with them.
LoneCallHolds(t) ==
  LET call == webCalls[t]
  IN /\ \A u \in Tabs \ {t} : webCalls[u] = NoWebCall
     /\ call.sent.token = jar.token
     /\ call.sent.csrf = IF call.kind = "ME" THEN jar.csrf ELSE CurrentCsrfToken(t)
     /\ call.stage = "ANSWERED" /\ ~ call.select =>
          CookiesAgree(CookiesAfter(call), call.who)
     /\ call.stage = "REFUSED" /\ call.kind = "LOGOUT" => ~ CsrfMatches(call.sent)

LoneCallsHold ==
  \A t \in Tabs : webCalls[t] # NoWebCall /\ webCalls[t].alone => LoneCallHolds(t)

\* No answer is on its way that the cookies do not agree with yet.
Settling ==
  \A t \in Tabs : webCalls[t] # NoWebCall =>
    /\ webCalls[t].alone
    /\ \/ webCalls[t].stage \in {"ASKED", "REFUSED"}
       \/ webCalls[t].stage = "ANSWERED" /\ webCalls[t].select

\* The cookies belong together, and the calm tab shows whose they are or is
\* about to ask.
BrowserIsCalm ==
  /\ SessionLives(jar) => webRows[jar.token].csrf = jar.csrf
  /\ \A t \in calm :
       \/ webCalls[t] # NoWebCall /\ webCalls[t].kind = "ME"
       \/ tabs[t].principal =
            IF SessionLives(jar) THEN webRows[jar.token].who ELSE Anonymous

CalmHolds == calm # {} /\ Settling => BrowserIsCalm

\* The inductive invariant of the tabs of a browser.
WebInv ==
  /\ WebTypeOK
  /\ TokensHold
  /\ TabsHold
  /\ AnswersHold
  /\ LoneCallsHold
  /\ CalmHolds

\* A call that is as it was, but no longer runs alone.
Joined(old, new) ==
  /\ new.kind = old.kind /\ new.stage = old.stage /\ new.sent = old.sent
  /\ new.sets = old.sets /\ new.answer = old.answer /\ new.who = old.who
  /\ new.select = old.select /\ ~ new.alone

\* A new call of a tab, and what it makes of those of the others.
LEMMA TabAsks ==
  ASSUME WebTypeOK, NEW t \in Tabs,
         NEW kind \in {"ME", "LOGIN", "SELECT", "SWITCH", "LOGOUT"},
         NEW cookies \in Cookies, NEW csrf \in 0 .. MaxWebTokens,
         webCalls' = Asking(t, kind, cookies, csrf)
  PROVE  /\ webCalls' \in [Tabs -> WebCall \cup {NoWebCall}]
         /\ webCalls'[t] # NoWebCall
         /\ webCalls'[t].kind = kind /\ webCalls'[t].stage = "ASKED"
         /\ webCalls'[t].sent.token = cookies.token
         /\ webCalls'[t].sent.csrf = csrf
         /\ webCalls'[t].sets = {} /\ webCalls'[t].who = Anonymous
         /\ webCalls'[t].answer = NoCookies /\ ~ webCalls'[t].select
         /\ webCalls'[t].alone <=> \A u \in Tabs \ {t} : webCalls[u] = NoWebCall
         /\ \A u \in Tabs \ {t} :
              \/ webCalls[u] = NoWebCall /\ webCalls'[u] = NoWebCall
              \/ /\ webCalls[u] # NoWebCall /\ webCalls'[u] # NoWebCall
                 /\ Joined(webCalls[u], webCalls'[u])
<1> DEFINE new == [kind |-> kind, stage |-> "ASKED",
                   sent |-> [cookies EXCEPT !.csrf = csrf], sets |-> {},
                   answer |-> NoCookies, who |-> Anonymous, select |-> FALSE,
                   alone |-> \A v \in Tabs \ {t} : webCalls[v] = NoWebCall]
           sent == [cookies EXCEPT !.csrf = csrf]
           alone == \A v \in Tabs \ {t} : webCalls[v] = NoWebCall
<1>1. sent \in Cookies /\ sent.token = cookies.token /\ sent.csrf = csrf
  BY DEF Cookies
<1>2. NoCookies \in Cookies
  BY DashboardSessionAssumption DEF NoCookies, Cookies
<1>3. alone \in BOOLEAN
  OBVIOUS
<1>4. /\ new \in WebCall
      /\ new.kind = kind /\ new.stage = "ASKED" /\ new.sent = sent /\ new.sets = {}
      /\ new.answer = NoCookies /\ new.who = Anonymous /\ new.select = FALSE
      /\ new.alone = alone
  <2> HIDE DEF sent, alone
  <2>1. new = [kind |-> kind, stage |-> "ASKED", sent |-> sent, sets |-> {},
               answer |-> NoCookies, who |-> Anonymous, select |-> FALSE,
               alone |-> alone]
    BY DEF sent, alone
  <2> HIDE DEF new
  <2>2. QED
    BY <1>1, <1>2, <1>3, <2>1 DEF WebCall
<1>5. new # NoWebCall
  BY <1>4, DashboardSessionAssumption
<1>6. webCalls'[t] = new
  BY DEF Asking
<1>7. ASSUME NEW u \in Tabs \ {t}
      PROVE  /\ webCalls'[u] \in WebCall \cup {NoWebCall}
             /\ \/ webCalls[u] = NoWebCall /\ webCalls'[u] = NoWebCall
                \/ /\ webCalls[u] # NoWebCall /\ webCalls'[u] # NoWebCall
                   /\ Joined(webCalls[u], webCalls'[u])
  <2>1. CASE webCalls[u] = NoWebCall
    BY <2>1 DEF Asking
  <2>2. CASE webCalls[u] # NoWebCall
    <3> DEFINE old == webCalls[u]
               other == [old EXCEPT !.alone = FALSE]
    <3>1. old \in WebCall
      BY <2>2 DEF WebTypeOK
    <3>2. webCalls'[u] = other
      BY <2>2 DEF Asking
    <3> HIDE DEF old
    <3>3. other \in WebCall /\ Joined(old, other)
      BY <3>1 DEF WebCall, Joined
    <3>4. QED
      BY <2>2, <3>2, <3>3, DashboardSessionAssumption DEF old
  <2>3. QED
    BY <2>1, <2>2
<1>8. webCalls' = [u \in Tabs |-> webCalls'[u]]
  BY DEF Asking
<1> HIDE DEF new, sent
<1>9. webCalls' \in [Tabs -> WebCall \cup {NoWebCall}]
  BY <1>4, <1>6, <1>7, <1>8
<1>10. QED
  BY <1>1, <1>4, <1>5, <1>6, <1>7, <1>9

\* Cookies and tokens have their types.
LEMMA TokensTyped ==
  ASSUME WebTypeOK, NEW t \in Tabs
  PROVE  /\ jar.token \in 0 .. MaxWebSessions /\ jar.csrf \in 0 .. MaxWebTokens
         /\ CurrentCsrfToken(t) \in 0 .. MaxWebTokens
         /\ DOMAIN webRows = 1 .. Len(webRows) /\ Len(webRows) \in Nat
BY DEF WebTypeOK, Cookies, Tab, CurrentCsrfToken

\* A tab asks: no earlier call runs alone from now on, and its own does so only
\* if there is none.
LEMMA AskingHolds ==
  ASSUME WebInv, NEW t \in Tabs, webCalls[t] = NoWebCall,
         NEW kind \in {"ME", "LOGIN", "SELECT", "SWITCH", "LOGOUT"},
         webCalls' = Asking(t, kind, jar,
                            IF kind = "ME" THEN jar.csrf ELSE CurrentCsrfToken(t)),
         UNCHANGED <<webRows, webIssued, jar, calm>>,
         tabs' \in [Tabs -> Tab],
         \A u \in Tabs \ {t} : tabs'[u] = tabs[u],
         tabs'[t].csrf = tabs[t].csrf,
         tabs'[t].selecting => tabs'[t].principal = Anonymous,
         kind = "LOGIN" => tabs'[t].principal = Anonymous,
         kind = "SELECT" => tabs'[t].selecting,
         kind # "ME" => tabs' = tabs
  PROVE  WebInv'
<1> DEFINE csrf == IF kind = "ME" THEN jar.csrf ELSE CurrentCsrfToken(t)
           Old(u) == /\ webCalls[u] # NoWebCall /\ webCalls'[u] # NoWebCall
                     /\ Joined(webCalls[u], webCalls'[u])
<1>1. jar \in Cookies /\ csrf \in 0 .. MaxWebTokens
  BY TokensTyped DEF WebInv, WebTypeOK
<1>2. /\ webCalls' \in [Tabs -> WebCall \cup {NoWebCall}]
      /\ webCalls'[t] # NoWebCall
      /\ webCalls'[t].kind = kind /\ webCalls'[t].stage = "ASKED"
      /\ webCalls'[t].sent.token = jar.token
      /\ webCalls'[t].sent.csrf = csrf
      /\ webCalls'[t].sets = {} /\ webCalls'[t].who = Anonymous
      /\ webCalls'[t].answer = NoCookies /\ ~ webCalls'[t].select
      /\ webCalls'[t].alone <=> \A u \in Tabs \ {t} : webCalls[u] = NoWebCall
      /\ \A u \in Tabs \ {t} :
           \/ webCalls[u] = NoWebCall /\ webCalls'[u] = NoWebCall
           \/ Old(u)
  <2>1. WebTypeOK /\ webCalls' = Asking(t, kind, jar, csrf)
    BY DEF WebInv
  <2> HIDE DEF csrf
  <2>2. QED
    BY <1>1, <2>1, TabAsks
<1> HIDE DEF csrf, Old
<1>3. WebTypeOK'
  BY <1>2 DEF WebInv, WebTypeOK
<1>4. TokensHold'
  <2>1. jar.token <= Len(webRows) /\ Len(webRows) \in Nat
    BY TokensTyped DEF WebInv, TokensHold
  <2>2. /\ webCalls'[t].sent.token <= Len(webRows)
        /\ webCalls'[t].answer.token <= Len(webRows)
    BY <1>2, <2>1 DEF NoCookies
  <2>3. ASSUME NEW u \in Tabs \ {t}, webCalls'[u] # NoWebCall
        PROVE  /\ webCalls'[u].sent.token <= Len(webRows)
               /\ webCalls'[u].answer.token <= Len(webRows)
    <3>1. Old(u)
      BY <1>2, <2>3
    <3>2. /\ webCalls[u].sent.token <= Len(webRows)
          /\ webCalls[u].answer.token <= Len(webRows)
      BY <3>1 DEF WebInv, TokensHold, Old
    <3>3. QED
      BY <3>1, <3>2 DEF Old, Joined
  <2>4. QED
    BY <2>1, <2>2, <2>3 DEF TokensHold
<1>5. TabsHold'
  <2>1. ASSUME NEW u \in Tabs \ {t}
        PROVE  /\ tabs'[u].selecting => tabs'[u].principal = Anonymous
               /\ webCalls'[u] # NoWebCall =>
                    /\ webCalls'[u].kind = "LOGIN" => tabs'[u].principal = Anonymous
                    /\ webCalls'[u].kind = "SELECT" => tabs'[u].selecting
    <3>1. tabs'[u] = tabs[u]
      OBVIOUS
    <3>2. webCalls'[u] # NoWebCall =>
            webCalls[u] # NoWebCall /\ webCalls'[u].kind = webCalls[u].kind
      BY <1>2 DEF Old, Joined
    <3>3. QED
      BY <3>1, <3>2 DEF WebInv, TabsHold
  <2>2. QED
    BY <1>2, <2>1 DEF TabsHold
<1>6. AnswersHold'
  <2>1. ASSUME NEW u \in Tabs, webCalls'[u] # NoWebCall
        PROVE  AnswerIsOfCall(webCalls'[u]) /\ (webCalls'[u].stage = "LOST" => calm' = {})
    <3>1. CASE u = t
      BY <1>2, <3>1 DEF AnswerIsOfCall
    <3>2. CASE u # t
      <4>1. Old(u)
        BY <1>2, <2>1, <3>2
      <4>2. AnswerIsOfCall(webCalls[u]) /\ (webCalls[u].stage = "LOST" => calm = {})
        BY <4>1 DEF WebInv, AnswersHold, Old
      <4>3. QED
        BY <3>2, <4>1, <4>2 DEF AnswerIsOfCall, Old, Joined
    <3>3. QED
      BY <3>1, <3>2
  <2>2. QED
    BY <2>1 DEF AnswersHold, AnswerIsOfCall
<1>7. LoneCallsHold'
  <2>1. ASSUME NEW u \in Tabs, webCalls'[u] # NoWebCall, webCalls'[u].alone
        PROVE  u = t /\ \A v \in Tabs \ {t} : webCalls'[v] = NoWebCall
    BY <1>2, <2>1 DEF Old, Joined
  <2>2. CurrentCsrfToken(t)' = CurrentCsrfToken(t)
    BY DEF CurrentCsrfToken
  <2>3. LoneCallHolds(t)' \/ ~ webCalls'[t].alone
    BY <1>2, <2>1, <2>2 DEF LoneCallHolds, csrf
  <2>4. QED
    BY <2>1, <2>3 DEF LoneCallsHold
<1>8. CalmHolds'
  <2>1. SUFFICES ASSUME calm # {}, Settling'
                 PROVE  BrowserIsCalm'
    BY DEF CalmHolds
  <2>2. \A u \in Tabs \ {t} : webCalls[u] = NoWebCall /\ webCalls'[u] = NoWebCall
    BY <1>2, <2>1 DEF Settling, Old, Joined
  <2>3. BrowserIsCalm
    BY <2>1, <2>2 DEF WebInv, CalmHolds, Settling
  <2>4. calm \in SUBSET Tabs
    BY DEF WebInv, WebTypeOK
  <2>5. SessionLives(jar)' <=> SessionLives(jar)
    BY DEF SessionLives
  <2>6. QED
    BY <1>2, <2>2, <2>3, <2>4, <2>5 DEF BrowserIsCalm
<1>9. QED
  BY <1>3, <1>4, <1>5, <1>6, <1>7, <1>8 DEF WebInv

\* The API serves a call, or its answer is lost: nothing of the tabs changes.
LEMMA CallMoves ==
  ASSUME WebInv, NEW t \in Tabs, webCalls[t] # NoWebCall, webCalls[t].stage = "ASKED",
         NEW new \in WebCall, webCalls' = [webCalls EXCEPT ![t] = new],
         new.kind = webCalls[t].kind, new.sent = webCalls[t].sent,
         new.alone = webCalls[t].alone, new.stage # "ASKED", AnswerIsOfCall(new),
         new.stage # "LOST",
         webRows' \in Seq(WebRow), Len(webRows) <= Len(webRows'),
         Len(webRows') <= MaxWebSessions, webIssued' \in 0 .. MaxWebTokens,
         new.answer.token <= Len(webRows'),
         UNCHANGED <<jar, tabs, calm>>,
         \/ /\ new.stage = "ANSWERED" /\ ~ new.select
            /\ new.alone => CookiesAgree(CookiesAfter(new), new.who)'
         \/ /\ new.stage = "ANSWERED" => new.select
            /\ new.stage = "REFUSED" /\ new.kind = "LOGOUT" => ~ CsrfMatches(new.sent)
            /\ UNCHANGED webRows
  PROVE  WebInv'
<1>1. /\ webCalls \in [Tabs -> WebCall \cup {NoWebCall}]
      /\ new # NoWebCall
      /\ webCalls'[t] = new /\ \A u \in Tabs \ {t} : webCalls'[u] = webCalls[u]
      /\ webCalls' \in [Tabs -> WebCall \cup {NoWebCall}]
  BY DashboardSessionAssumption DEF WebInv, WebTypeOK
<1>2. WebTypeOK'
  BY <1>1 DEF WebInv, WebTypeOK, WebRow
<1>3. TokensHold'
  <2>1. jar.token \in Nat /\ Len(webRows) \in Nat /\ Len(webRows') \in Nat
    BY TokensTyped DEF WebInv
  <2>2. \A u \in Tabs : webCalls[u] # NoWebCall =>
          webCalls[u].sent.token \in Nat /\ webCalls[u].answer.token \in Nat
    BY <1>1 DEF WebCall, Cookies
  <2>3. QED
    BY <1>1, <2>1, <2>2 DEF WebInv, TokensHold
<1>4. TabsHold'
  BY <1>1 DEF WebInv, TabsHold
<1>5. AnswersHold'
  BY <1>1 DEF WebInv, AnswersHold, AnswerIsOfCall
<1>6. ASSUME NEW u \in Tabs, webCalls'[u] # NoWebCall, webCalls'[u].alone
      PROVE  u = t /\ LoneCallHolds(t)
  BY <1>1, <1>6 DEF WebInv, LoneCallsHold, LoneCallHolds
<1>7. LoneCallsHold'
  <2>1. CurrentCsrfToken(t)' = CurrentCsrfToken(t)
    BY DEF CurrentCsrfToken
  <2>2. UNCHANGED webRows => CsrfMatches(new.sent)' = CsrfMatches(new.sent)
    BY DEF CsrfMatches, SessionLives
  <2>3. ASSUME new.alone
        PROVE  LoneCallHolds(t)'
    <3>1. LoneCallHolds(t)
      BY <1>1, <1>6, <2>3
    <3>2. \A u \in Tabs \ {t} : webCalls'[u] = NoWebCall
      BY <1>1, <3>1 DEF LoneCallHolds
    <3>3. /\ new.sent.token = jar.token
          /\ new.sent.csrf = IF new.kind = "ME" THEN jar.csrf ELSE CurrentCsrfToken(t)
      BY <3>1 DEF LoneCallHolds
    <3>4. new.stage = "ANSWERED" /\ ~ new.select =>
            CookiesAgree(CookiesAfter(new), new.who)'
      BY <2>3
    <3>5. new.stage = "REFUSED" /\ new.kind = "LOGOUT" => ~ CsrfMatches(new.sent)'
      BY <2>2
    <3>6. (CookiesAgree(CookiesAfter(webCalls[t]), webCalls[t].who))'
            <=> CookiesAgree(CookiesAfter(new), new.who)'
      BY <1>1 DEF CookiesAgree, CookiesAfter, SessionLives
    <3>7. CsrfMatches(webCalls[t].sent)' <=> CsrfMatches(new.sent)'
      BY <1>1 DEF CsrfMatches, SessionLives
    <3>8. QED
      BY <1>1, <2>1, <3>2, <3>3, <3>4, <3>5, <3>6, <3>7 DEF LoneCallHolds
  <2>4. QED
    BY <1>1, <1>6, <2>3 DEF LoneCallsHold
<1>8. CalmHolds'
  <2>1. SUFFICES ASSUME calm # {}, Settling'
                 PROVE  BrowserIsCalm'
    BY DEF CalmHolds
  <2>2. webRows' = webRows /\ new.alone
    BY <1>1, <2>1 DEF Settling
  <2>3. Settling
    BY <1>1, <2>1, <2>2 DEF Settling
  <2>4. BrowserIsCalm
    BY <2>1, <2>3 DEF WebInv, CalmHolds
  <2>5. calm \in SUBSET Tabs
    BY DEF WebInv, WebTypeOK
  <2>6. SessionLives(jar)' <=> SessionLives(jar)
    BY <2>2 DEF SessionLives
  <2>7. QED
    BY <1>1, <2>2, <2>4, <2>5, <2>6 DEF BrowserIsCalm
<1>9. QED
  BY <1>2, <1>3, <1>4, <1>5, <1>7, <1>8 DEF WebInv

\* What an answer makes of a call.
LEMMA Replied ==
  ASSUME WebTypeOK, NEW t \in Tabs, webCalls[t] # NoWebCall,
         NEW who \in Principals \cup {Anonymous},
         NEW sets \in SUBSET {"token", "csrf"}, NEW answer \in Cookies,
         Reply(t, who, sets, answer)
  PROVE  \E new \in WebCall :
           /\ webCalls' = [webCalls EXCEPT ![t] = new]
           /\ new.kind = webCalls[t].kind /\ new.sent = webCalls[t].sent
           /\ new.alone = webCalls[t].alone /\ new.select = webCalls[t].select
           /\ new.stage = "ANSWERED" /\ new.who = who /\ new.sets = sets
           /\ new.answer = answer
<1> DEFINE old == webCalls[t]
           new == [old EXCEPT !.stage = "ANSWERED", !.who = who, !.sets = sets,
                              !.answer = answer]
<1>1. old \in WebCall
  BY DEF WebTypeOK
<1>2. webCalls' = [webCalls EXCEPT ![t] = new]
  BY DEF Reply
<1> HIDE DEF old
<1>3. /\ new \in WebCall
      /\ new.kind = old.kind /\ new.sent = old.sent
      /\ new.alone = old.alone /\ new.select = old.select
      /\ new.stage = "ANSWERED" /\ new.who = who /\ new.sets = sets
      /\ new.answer = answer
  BY <1>1 DEF WebCall
<1> HIDE DEF new
<1>4. QED
  BY <1>2, <1>3 DEF old

\* A call that the API has turned down.
LEMMA TurnedDown ==
  ASSUME WebInv, NEW t \in Tabs, webCalls[t] # NoWebCall, webCalls[t].stage = "ASKED",
         TurnDown(t), webCalls[t].kind # "ME",
         webCalls[t].kind = "LOGOUT" => ~ CsrfMatches(webCalls[t].sent),
         UNCHANGED <<jar, tabs, calm>>
  PROVE  WebInv'
<1>1. PICK new \in WebCall :
        /\ webCalls' = [webCalls EXCEPT ![t] = new]
        /\ new.kind = webCalls[t].kind /\ new.sent = webCalls[t].sent
        /\ new.alone = webCalls[t].alone /\ new.select = webCalls[t].select
        /\ new.stage = "REFUSED" /\ new.answer = webCalls[t].answer
  <2> DEFINE old == webCalls[t]
             new == [old EXCEPT !.stage = "REFUSED"]
  <2>1. old \in WebCall
    BY DEF WebInv, WebTypeOK
  <2>2. webCalls' = [webCalls EXCEPT ![t] = new]
    BY DEF TurnDown
  <2> HIDE DEF old
  <2>3. /\ new \in WebCall /\ new.kind = old.kind /\ new.sent = old.sent
        /\ new.alone = old.alone /\ new.select = old.select
        /\ new.stage = "REFUSED" /\ new.answer = old.answer
    BY <2>1 DEF WebCall
  <2> HIDE DEF new
  <2>4. QED
    BY <2>2, <2>3 DEF old
<1>2. ~ webCalls[t].select
  BY DEF WebInv, AnswersHold, AnswerIsOfCall
<1>3. AnswerIsOfCall(new)
  BY <1>1, <1>2 DEF AnswerIsOfCall
<1>4. new.answer.token <= Len(webRows)
  BY <1>1 DEF WebInv, TokensHold
<1>5. CsrfMatches(new.sent) <=> CsrfMatches(webCalls[t].sent)
  BY <1>1 DEF CsrfMatches, SessionLives
<1>6. /\ webRows' = webRows /\ webIssued' = webIssued /\ webRows \in Seq(WebRow)
      /\ Len(webRows) <= MaxWebSessions /\ webIssued \in 0 .. MaxWebTokens
      /\ Len(webRows) <= Len(webRows)
  BY DEF TurnDown, WebInv, WebTypeOK, WebRow
<1>7. QED
  BY <1>1, <1>3, <1>4, <1>5, <1>6, CallMoves

\* An answer that opens a session: its cookies are of that session.
LEMMA Opened ==
  ASSUME WebInv, NEW t \in Tabs, webCalls[t] # NoWebCall, webCalls[t].stage = "ASKED",
         NEW given \in Seq(WebRow), Len(given) = Len(webRows),
         NEW who \in Principals, OpenWebSession(t, given, who),
         UNCHANGED <<jar, tabs, calm>>
  PROVE  WebInv'
<1> DEFINE size == Len(webRows)
           token == webIssued + 1
           row == [who |-> who, csrf |-> token, live |-> TRUE]
           answer == [token |-> size + 1, csrf |-> token]
<1>1. /\ size \in Nat /\ size + 1 \in 1 .. MaxWebSessions
      /\ token \in 1 .. MaxWebTokens
  BY DashboardSessionAssumption DEF WebInv, WebTypeOK, OpenWebSession
<1>2. row \in WebRow /\ row.who = who /\ row.csrf = token /\ row.live = TRUE
  BY <1>1 DEF WebRow
<1>3. answer \in Cookies /\ answer.token = size + 1 /\ answer.csrf = token
  BY <1>1 DEF Cookies
<1>4. /\ Reply(t, who, {"token", "csrf"}, answer)
      /\ webRows' = Append(given, row) /\ webIssued' = token
  BY DEF OpenWebSession
<1> HIDE DEF row, token, answer
<1>5. /\ webRows' \in Seq(WebRow) /\ Len(webRows') = size + 1
      /\ webRows'[size + 1] = row
  BY <1>1, <1>2, <1>4
<1> HIDE DEF size
<1>6. PICK new \in WebCall :
        /\ webCalls' = [webCalls EXCEPT ![t] = new]
        /\ new.kind = webCalls[t].kind /\ new.sent = webCalls[t].sent
        /\ new.alone = webCalls[t].alone /\ new.select = webCalls[t].select
        /\ new.stage = "ANSWERED" /\ new.who = who
        /\ new.sets = {"token", "csrf"} /\ new.answer = answer
  <2>1. WebTypeOK /\ who \in Principals \cup {Anonymous}
    BY DEF WebInv
  <2>2. QED
    BY <1>3, <1>4, <2>1, Replied
<1>7. ~ new.select
  BY <1>6 DEF WebInv, AnswersHold, AnswerIsOfCall
<1>8. AnswerIsOfCall(new)
  BY <1>6, <1>7 DEF AnswerIsOfCall
<1>9. CookiesAgree(CookiesAfter(new), new.who)'
  <2>1. jar' \in Cookies
    BY DEF WebInv, WebTypeOK
  <2>2. CookiesAfter(new)' = [c \in DOMAIN jar' |-> answer[c]]
    BY <1>6, <2>1 DEF CookiesAfter, Cookies
  <2>3. CookiesAfter(new)'.token = size + 1 /\ CookiesAfter(new)'.csrf = token
    BY <1>3, <2>1, <2>2 DEF Cookies
  <2>4. QED
    BY <1>1, <1>2, <1>5, <1>6, <2>3 DEF CookiesAgree, SessionLives
<1>10. Len(webRows) <= Len(webRows') /\ Len(webRows') <= MaxWebSessions
  BY <1>1, <1>5 DEF size
<1>11. webIssued' \in 0 .. MaxWebTokens /\ new.answer.token <= Len(webRows')
  BY <1>1, <1>3, <1>4, <1>5, <1>6
<1>12. QED
  BY <1>5, <1>6, <1>7, <1>8, <1>9, <1>10, <1>11, CallMoves

\* A row whose session ends, or gets another CSRF token.
LEMMA RowChanges ==
  ASSUME WebTypeOK, NEW n \in DOMAIN webRows, NEW new,
         \/ new = EndSession(n)
         \/ /\ webIssued + 1 \in 1 .. MaxWebTokens
            /\ new = [webRows EXCEPT ![n].csrf = webIssued + 1]
  PROVE  /\ new \in Seq(WebRow) /\ Len(new) = Len(webRows)
         /\ new[n].who = webRows[n].who
         /\ new = EndSession(n) => ~ new[n].live
         /\ new # EndSession(n) =>
              new[n].live = webRows[n].live /\ new[n].csrf = webIssued + 1
<1> DEFINE old == webRows[n]
<1>1. /\ webRows \in Seq(WebRow) /\ DOMAIN webRows = 1 .. Len(webRows)
      /\ old \in WebRow
  <2>1. webRows \in Seq(WebRow)
    BY DEF WebTypeOK, WebRow
  <2>2. QED
    BY <2>1
<1>2. CASE new = EndSession(n)
  <2> DEFINE row == [old EXCEPT !.live = FALSE]
  <2>1. new = [webRows EXCEPT ![n] = row]
    BY <1>2 DEF EndSession
  <2> HIDE DEF old
  <2>2. row \in WebRow /\ row.who = old.who /\ ~ row.live
    BY <1>1 DEF WebRow
  <2> HIDE DEF row
  <2>3. QED
    BY <1>1, <1>2, <2>1, <2>2 DEF old
<1>3. CASE /\ webIssued + 1 \in 1 .. MaxWebTokens
           /\ new = [webRows EXCEPT ![n].csrf = webIssued + 1]
           /\ new # EndSession(n)
  <2> DEFINE token == webIssued + 1
             row == [old EXCEPT !.csrf = token]
  <2>1. new = [webRows EXCEPT ![n] = row] /\ token \in 1 .. MaxWebTokens
    BY <1>3
  <2> HIDE DEF old, token
  <2>2. row \in WebRow /\ row.who = old.who /\ row.live = old.live /\ row.csrf = token
    BY <1>1, <2>1 DEF WebRow
  <2> HIDE DEF row
  <2>3. QED
    BY <1>1, <1>3, <2>1, <2>2 DEF old, token
<1>4. QED
  BY <1>2, <1>3

\* me: what it answers to a call alone agrees with the cookies it leaves.
LEMMA MeServed ==
  ASSUME WebInv, NEW t \in Tabs, webCalls[t] # NoWebCall, webCalls[t].stage = "ASKED",
         webCalls[t].kind = "ME", NEW sent, sent = webCalls[t].sent,
         ServeWebMe(t, sent), UNCHANGED <<jar, tabs, calm>>
  PROVE  WebInv'
<1>1. /\ WebTypeOK /\ webCalls[t] \in WebCall /\ sent \in Cookies
      /\ NoCookies \in Cookies /\ NoCookies.token = 0
      /\ jar \in Cookies
  BY DashboardSessionAssumption
  DEF WebInv, WebTypeOK, WebCall, Cookies, NoCookies
<1>2. ~ webCalls[t].select
  BY DEF WebInv, AnswersHold, AnswerIsOfCall
<1>3. webCalls[t].alone =>
        sent.token = jar.token /\ sent.csrf = jar.csrf
  BY DEF WebInv, LoneCallsHold, LoneCallHolds
<1>4. /\ webRows \in Seq(WebRow) /\ Len(webRows) <= MaxWebSessions
      /\ Len(webRows) \in Nat /\ DOMAIN webRows = 1 .. Len(webRows)
      /\ webIssued \in 0 .. MaxWebTokens
      /\ sent.token \in 0 .. Len(webRows)
  <2>1. webRows \in Seq(WebRow) /\ sent.token <= Len(webRows)
    BY DEF WebInv, WebTypeOK, WebRow, TokensHold
  <2>2. QED
    BY <1>1, <2>1 DEF WebTypeOK, Cookies
<1>5. ASSUME ~ SessionLives(sent), Reply(t, Anonymous, {}, NoCookies),
             UNCHANGED <<webRows, webIssued>>
      PROVE  WebInv'
  <2>1. PICK new \in WebCall :
          /\ webCalls' = [webCalls EXCEPT ![t] = new]
          /\ new.kind = webCalls[t].kind /\ new.sent = webCalls[t].sent
          /\ new.alone = webCalls[t].alone /\ new.select = webCalls[t].select
          /\ new.stage = "ANSWERED" /\ new.who = Anonymous
          /\ new.sets = {} /\ new.answer = NoCookies
    BY <1>1, <1>5, Replied
  <2>2. AnswerIsOfCall(new)
    BY <1>2, <2>1 DEF AnswerIsOfCall
  <2>3. new.alone => CookiesAgree(CookiesAfter(new), new.who)'
    <3>1. CookiesAfter(new)' = jar
      BY <1>1, <2>1 DEF CookiesAfter, Cookies
    <3>2. webCalls[t].alone => ~ SessionLives(jar)'
      BY <1>3, <1>5 DEF SessionLives
    <3>3. QED
      BY <2>1, <3>1, <3>2 DEF CookiesAgree
  <2>4. /\ webRows' = webRows /\ webIssued' = webIssued /\ ~ new.select
        /\ new.answer.token <= Len(webRows)
    BY <1>1, <1>2, <1>4, <1>5, <2>1
  <2>5. webRows' \in Seq(WebRow) /\ Len(webRows) <= Len(webRows')
    BY <1>4, <2>4
  <2>6. QED
    BY <1>4, <2>1, <2>2, <2>3, <2>4, <2>5, CallMoves
<1>6. ASSUME CsrfMatches(sent), Reply(t, webRows[sent.token].who, {}, sent),
             UNCHANGED <<webRows, webIssued>>
      PROVE  WebInv'
  <2>1. sent.token \in 1 .. Len(webRows)
    BY <1>4, <1>6 DEF CsrfMatches, SessionLives
  <2>2. PICK who \in Principals : who = webRows[sent.token].who
    <3>1. webRows[sent.token] \in WebRow
      BY <1>4, <2>1
    <3>2. QED
      BY <3>1 DEF WebRow
  <2>3. PICK new \in WebCall :
          /\ webCalls' = [webCalls EXCEPT ![t] = new]
          /\ new.kind = webCalls[t].kind /\ new.sent = webCalls[t].sent
          /\ new.alone = webCalls[t].alone /\ new.select = webCalls[t].select
          /\ new.stage = "ANSWERED" /\ new.who = who
          /\ new.sets = {} /\ new.answer = sent
    BY <1>1, <1>6, <2>2, Replied
  <2>4. AnswerIsOfCall(new)
    BY <1>2, <2>3 DEF AnswerIsOfCall
  <2>5. new.alone => CookiesAgree(CookiesAfter(new), new.who)'
    <3>1. CookiesAfter(new)' = jar
      BY <1>1, <2>3 DEF CookiesAfter, Cookies
    <3>2. ASSUME webCalls[t].alone
          PROVE  CookiesAgree(jar, who)'
      BY <1>3, <1>6, <2>2, <3>2 DEF CookiesAgree, CsrfMatches, SessionLives
    <3>3. CookiesAgree(jar, who)' => CookiesAgree(CookiesAfter(new), new.who)'
      BY <2>3, <3>1 DEF CookiesAgree, SessionLives
    <3>4. QED
      BY <2>3, <3>2, <3>3
  <2>6. /\ webRows' = webRows /\ webIssued' = webIssued /\ ~ new.select
        /\ new.answer.token <= Len(webRows)
    BY <1>2, <1>4, <1>6, <2>1, <2>3
  <2>7. webRows' \in Seq(WebRow) /\ Len(webRows) <= Len(webRows')
    BY <1>4, <2>6
  <2>8. QED
    BY <1>4, <2>3, <2>4, <2>5, <2>6, <2>7, CallMoves
<1>7. ASSUME SessionLives(sent), ~ CsrfMatches(sent), RefreshCsrf(sent.token),
             Reply(t, webRows[sent.token].who, {"csrf"},
                   [sent EXCEPT !.csrf = webIssued + 1])
      PROVE  WebInv'
  <2> DEFINE token == webIssued + 1
             answer == [sent EXCEPT !.csrf = token]
             n == sent.token
  <2>1. n \in 1 .. Len(webRows) /\ webRows[n].live
    BY <1>4, <1>7 DEF SessionLives
  <2>2. PICK who \in Principals : who = webRows[n].who
    <3>1. webRows[n] \in WebRow
      BY <1>4, <2>1
    <3>2. QED
      BY <3>1 DEF WebRow
  <2>3. /\ token \in 1 .. MaxWebTokens /\ webIssued' = token
        /\ webRows' = [webRows EXCEPT ![n].csrf = webIssued + 1]
    BY <1>4, <1>7, DashboardSessionAssumption DEF RefreshCsrf
  <2>4. /\ webRows' \in Seq(WebRow) /\ Len(webRows') = Len(webRows)
        /\ webRows'[n].who = who /\ webRows'[n].live /\ webRows'[n].csrf = token
    <3> DEFINE row == [webRows[n] EXCEPT !.csrf = token]
    <3>1. webRows' = [webRows EXCEPT ![n] = row] /\ webRows[n] \in WebRow
      BY <1>4, <2>1, <2>3
    <3> HIDE DEF token
    <3>2. row \in WebRow /\ row.who = who /\ row.live /\ row.csrf = token
      BY <2>1, <2>2, <2>3, <3>1 DEF WebRow
    <3> HIDE DEF row
    <3>3. QED
      BY <1>4, <2>1, <3>1, <3>2
  <2>5. Reply(t, who, {"csrf"}, answer)
    BY <1>7, <2>2
  <2> HIDE DEF token
  <2>6. answer \in Cookies /\ answer.token = n /\ answer.csrf = token
    BY <1>1, <2>3 DEF Cookies
  <2> HIDE DEF answer
  <2>7. PICK new \in WebCall :
          /\ webCalls' = [webCalls EXCEPT ![t] = new]
          /\ new.kind = webCalls[t].kind /\ new.sent = webCalls[t].sent
          /\ new.alone = webCalls[t].alone /\ new.select = webCalls[t].select
          /\ new.stage = "ANSWERED" /\ new.who = who
          /\ new.sets = {"csrf"} /\ new.answer = answer
    BY <1>1, <2>5, <2>6, Replied
  <2>8. AnswerIsOfCall(new)
    BY <1>2, <2>7 DEF AnswerIsOfCall
  <2>9. new.alone => CookiesAgree(CookiesAfter(new), new.who)'
    <3>1. CookiesAfter(new)' =
            [c \in DOMAIN jar |-> IF c \in {"csrf"} THEN answer[c] ELSE jar[c]]
      BY <2>7 DEF CookiesAfter
    <3>2. CookiesAfter(new)'.token = jar.token /\ CookiesAfter(new)'.csrf = token
      BY <1>1, <2>6, <3>1 DEF Cookies
    <3>3. PICK cookies : cookies = CookiesAfter(new)'
      OBVIOUS
    <3>4. webCalls[t].alone => CookiesAgree(cookies, who)'
      BY <1>3, <2>1, <2>4, <3>2, <3>3 DEF CookiesAgree, SessionLives
    <3>5. CookiesAgree(cookies, who)' => CookiesAgree(CookiesAfter(new), new.who)'
      BY <2>7, <3>3 DEF CookiesAgree, SessionLives
    <3>6. QED
      BY <2>7, <3>4, <3>5
  <2>10. /\ Len(webRows) <= Len(webRows') /\ Len(webRows') <= MaxWebSessions
         /\ webIssued' \in 0 .. MaxWebTokens /\ ~ new.select
         /\ new.answer.token <= Len(webRows')
    BY <1>2, <1>4, <2>1, <2>3, <2>4, <2>6, <2>7
  <2>11. QED
    BY <2>4, <2>7, <2>8, <2>9, <2>10, CallMoves
<1>8. QED
  BY <1>5, <1>6, <1>7 DEF ServeWebMe

\* A log-out: the session ends and both cookies go, or nothing happens.
LEMMA LogoutServed ==
  ASSUME WebInv, NEW t \in Tabs, webCalls[t] # NoWebCall, webCalls[t].stage = "ASKED",
         webCalls[t].kind = "LOGOUT", NEW sent, sent = webCalls[t].sent,
         ServeWebLogout(t, sent), UNCHANGED <<jar, tabs, calm>>
  PROVE  WebInv'
<1>1. CASE ~ CsrfMatches(sent)
  <2>1. TurnDown(t) /\ ~ CsrfMatches(webCalls[t].sent)
    BY <1>1 DEF ServeWebLogout
  <2>2. QED
    BY <2>1, TurnedDown
<1>2. CASE CsrfMatches(sent)
  <2>1. /\ WebTypeOK /\ NoCookies \in Cookies /\ NoCookies.token = 0
        /\ jar \in Cookies /\ sent.token \in 1 .. Len(webRows)
        /\ Len(webRows) <= MaxWebSessions /\ Len(webRows) \in Nat
        /\ DOMAIN webRows = 1 .. Len(webRows)
        /\ webIssued \in 0 .. MaxWebTokens
    <3>1. webCalls[t] \in WebCall
      BY DEF WebInv, WebTypeOK
    <3>2. webRows \in Seq(WebRow) /\ sent.token <= Len(webRows) /\ sent.token # 0
      BY <1>2 DEF WebInv, WebTypeOK, WebRow, TokensHold, CsrfMatches, SessionLives
    <3>3. sent.token \in Nat
      BY <3>1 DEF WebCall, Cookies
    <3>4. NoCookies \in Cookies /\ NoCookies.token = 0
      BY DashboardSessionAssumption DEF NoCookies, Cookies
    <3>5. QED
      BY <3>2, <3>3, <3>4 DEF WebInv, WebTypeOK
  <2>2. /\ webRows' = EndSession(sent.token) /\ webIssued' = webIssued
        /\ Reply(t, Anonymous, {"token", "csrf"}, NoCookies)
    BY <1>2 DEF ServeWebLogout
  <2>3. webRows' \in Seq(WebRow) /\ Len(webRows') = Len(webRows)
    <3>1. PICK rows : rows = EndSession(sent.token)
      OBVIOUS
    <3>2. rows \in Seq(WebRow) /\ Len(rows) = Len(webRows)
      BY <2>1, <3>1, RowChanges
    <3>3. QED
      BY <2>2, <3>1, <3>2
  <2>4. PICK new \in WebCall :
          /\ webCalls' = [webCalls EXCEPT ![t] = new]
          /\ new.kind = webCalls[t].kind /\ new.sent = webCalls[t].sent
          /\ new.alone = webCalls[t].alone /\ new.select = webCalls[t].select
          /\ new.stage = "ANSWERED" /\ new.who = Anonymous
          /\ new.sets = {"token", "csrf"} /\ new.answer = NoCookies
    <3>1. Anonymous \in Principals \cup {Anonymous}
      OBVIOUS
    <3>2. {"token", "csrf"} \in SUBSET {"token", "csrf"}
      OBVIOUS
    <3>3. /\ WebTypeOK /\ NoCookies \in Cookies
          /\ Reply(t, Anonymous, {"token", "csrf"}, NoCookies)
      BY <2>1, <2>2
    <3>4. QED
      BY <3>1, <3>2, <3>3, Replied
  <2>5. ~ new.select
    BY <2>4 DEF WebInv, AnswersHold, AnswerIsOfCall
  <2>6. AnswerIsOfCall(new)
    BY <2>4, <2>5 DEF AnswerIsOfCall
  <2>7. CookiesAgree(CookiesAfter(new), new.who)'
    <3>1. CookiesAfter(new)' = [c \in DOMAIN jar |-> NoCookies[c]]
      BY <2>1, <2>4 DEF CookiesAfter, Cookies
    <3>2. CookiesAfter(new)'.token = 0
      BY <2>1, <3>1 DEF Cookies
    <3>3. QED
      BY <2>4, <3>2 DEF CookiesAgree, SessionLives
  <2>8. /\ Len(webRows) <= Len(webRows') /\ Len(webRows') <= MaxWebSessions
        /\ webIssued' \in 0 .. MaxWebTokens
        /\ new.answer.token <= Len(webRows')
    BY <2>1, <2>2, <2>3, <2>4
  <2>9. QED
    BY <2>3, <2>4, <2>5, <2>6, <2>7, <2>8, CallMoves
<1>3. QED
  BY <1>1, <1>2

\* The API serves a call.
LEMMA TabServed ==
  ASSUME WebInv, NEW t \in Tabs, ServeTab(t)
  PROVE  WebInv'
<1>1. /\ webCalls[t] # NoWebCall /\ webCalls[t].stage = "ASKED"
      /\ UNCHANGED <<jar, tabs, calm>>
      /\ webRows \in Seq(WebRow)
  BY DEF ServeTab, WebInv, WebTypeOK, WebRow
<1>2. PICK sent : sent = webCalls[t].sent
  OBVIOUS
<1>3. CASE webCalls[t].kind = "ME" /\ ServeWebMe(t, sent)
  BY <1>1, <1>2, <1>3, MeServed
<1>4. CASE webCalls[t].kind = "LOGIN" /\ ServeAdminLogin(t)
  <2>1. CASE TurnDown(t)
    BY <1>1, <1>4, <2>1, TurnedDown
  <2>2. CASE \E officer \in Officers : OpenWebSession(t, webRows, officer)
    BY <1>1, <2>2, Opened DEF Principals
  <2>3. QED
    BY <1>4, <2>1, <2>2 DEF ServeAdminLogin
<1>5. CASE webCalls[t].kind = "LOGIN" /\ ServeEmployeeLogin(t)
  <2>1. CASE \E link \in WebEmployees : OpenWebSession(t, webRows, link)
    BY <1>1, <2>1, Opened DEF Principals
  <2>2. CASE /\ webCalls' =
                  [webCalls EXCEPT ![t].stage = "ANSWERED", ![t].select = TRUE]
             /\ UNCHANGED <<webRows, webIssued>>
    <3> DEFINE old == webCalls[t]
    <3>1. PICK new \in WebCall :
            /\ webCalls' = [webCalls EXCEPT ![t] = new]
            /\ new.kind = old.kind /\ new.sent = old.sent
            /\ new.alone = old.alone /\ new.select
            /\ new.stage = "ANSWERED" /\ new.who = old.who /\ new.sets = old.sets
            /\ new.answer = old.answer
      <4> DEFINE new == [old EXCEPT !.stage = "ANSWERED", !.select = TRUE]
      <4>1. webCalls' = [webCalls EXCEPT ![t] = new]
        BY <2>2
      <4>2. old \in WebCall
        BY <1>1 DEF WebInv, WebTypeOK
      <4> HIDE DEF old
      <4>3. /\ new \in WebCall /\ new.kind = old.kind /\ new.sent = old.sent
            /\ new.alone = old.alone /\ new.select
            /\ new.stage = "ANSWERED" /\ new.who = old.who /\ new.sets = old.sets
            /\ new.answer = old.answer
        BY <4>2 DEF WebCall
      <4> HIDE DEF new
      <4>4. QED
        BY <4>1, <4>3
    <3>2. AnswerIsOfCall(new)
      BY <1>1, <1>5, <3>1 DEF WebInv, AnswersHold, AnswerIsOfCall
    <3>3. new.answer.token <= Len(webRows)
      BY <1>1, <3>1 DEF WebInv, TokensHold
    <3>4. /\ Len(webRows) <= MaxWebSessions /\ webIssued \in 0 .. MaxWebTokens
          /\ Len(webRows) <= Len(webRows)
      BY <1>1 DEF WebInv, WebTypeOK
    <3>5. QED
      BY <1>1, <2>2, <3>1, <3>2, <3>3, <3>4, CallMoves
  <2>3. QED
    BY <1>5, <2>1, <2>2 DEF ServeEmployeeLogin
<1>6. CASE webCalls[t].kind = "SELECT" /\ ServeSelectCompany(t)
  <2>1. CASE TurnDown(t)
    BY <1>1, <1>6, <2>1, TurnedDown
  <2>2. CASE \E link \in WebEmployees : OpenWebSession(t, webRows, link)
    BY <1>1, <2>2, Opened DEF Principals
  <2>3. QED
    BY <1>6, <2>1, <2>2 DEF ServeSelectCompany
<1>7. CASE webCalls[t].kind = "SWITCH" /\ ServeSwitchCompany(t, sent)
  <2>1. CASE TurnDown(t)
    BY <1>1, <1>7, <2>1, TurnedDown
  <2>2. CASE /\ CsrfMatches(sent)
             /\ \E link \in WebEmployees : OpenWebSession(t, EndSession(sent.token), link)
    <3>1. PICK link \in WebEmployees, given \in {EndSession(sent.token)} :
            OpenWebSession(t, given, link)
      BY <2>2
    <3>2. sent.token \in DOMAIN webRows
      <4>1. webCalls[t] \in WebCall
        BY <1>1 DEF WebInv, WebTypeOK
      <4>2. sent.token \in Nat /\ sent.token # 0 /\ sent.token <= Len(webRows)
        BY <1>1, <1>2, <2>2, <4>1
        DEF WebCall, Cookies, WebInv, TokensHold, CsrfMatches, SessionLives
      <4>3. QED
        BY <1>1, <4>2
    <3>3. given \in Seq(WebRow) /\ Len(given) = Len(webRows)
      BY <3>1, <3>2, RowChanges DEF WebInv
    <3>4. QED
      BY <1>1, <3>1, <3>3, Opened DEF Principals
  <2>3. QED
    BY <1>7, <2>1, <2>2 DEF ServeSwitchCompany
<1>8. CASE webCalls[t].kind = "LOGOUT" /\ ServeWebLogout(t, sent)
  BY <1>1, <1>2, <1>8, LogoutServed
<1>9. QED
  BY <1>2, <1>3, <1>4, <1>5, <1>6, <1>7, <1>8 DEF ServeTab

\* The loss of an answer ends the calm.
LEMMA WebAnswerLost ==
  ASSUME WebInv, NEW t \in Tabs, LoseAnswer(t)
  PROVE  WebInv'
<1> DEFINE old == webCalls[t]
<1>1. PICK new \in WebCall :
        /\ webCalls' = [webCalls EXCEPT ![t] = new]
        /\ new.kind = old.kind /\ new.sent = old.sent /\ new.alone = old.alone
        /\ new.who = old.who /\ new.sets = old.sets /\ new.select = old.select
        /\ new.answer = old.answer /\ new.stage = "LOST"
  <2> DEFINE new == [old EXCEPT !.stage = "LOST"]
  <2>1. webCalls' = [webCalls EXCEPT ![t] = new]
    BY DEF LoseAnswer
  <2>2. old \in WebCall
    BY DEF WebInv, WebTypeOK, LoseAnswer
  <2> HIDE DEF old
  <2>3. /\ new \in WebCall
        /\ new.kind = old.kind /\ new.sent = old.sent /\ new.alone = old.alone
        /\ new.who = old.who /\ new.sets = old.sets /\ new.select = old.select
        /\ new.answer = old.answer /\ new.stage = "LOST"
    BY <2>2 DEF WebCall
  <2> HIDE DEF new
  <2>4. QED
    BY <2>1, <2>3
<1>2. /\ old # NoWebCall /\ calm' = {} /\ UNCHANGED <<webRows, webIssued, jar, tabs>>
  BY DEF LoseAnswer
<1>3. /\ webCalls \in [Tabs -> WebCall \cup {NoWebCall}]
      /\ new # NoWebCall
      /\ webCalls'[t] = new /\ \A u \in Tabs \ {t} : webCalls'[u] = webCalls[u]
      /\ webCalls' \in [Tabs -> WebCall \cup {NoWebCall}]
  BY <1>1, DashboardSessionAssumption DEF WebInv, WebTypeOK
<1>4. WebTypeOK'
  BY <1>2, <1>3 DEF WebInv, WebTypeOK
<1>5. TokensHold'
  BY <1>1, <1>2, <1>3 DEF WebInv, TokensHold
<1>6. TabsHold'
  BY <1>1, <1>2, <1>3 DEF WebInv, TabsHold
<1>7. AnswersHold'
  BY <1>1, <1>2, <1>3 DEF WebInv, AnswersHold, AnswerIsOfCall
<1>8. LoneCallsHold'
  <2>1. ASSUME NEW u \in Tabs, webCalls'[u] # NoWebCall, webCalls'[u].alone
        PROVE  LoneCallHolds(u)'
    <3>1. LoneCallHolds(u)
      BY <1>1, <1>2, <1>3, <2>1 DEF WebInv, LoneCallsHold
    <3>2. CurrentCsrfToken(u)' = CurrentCsrfToken(u)
      BY <1>2 DEF CurrentCsrfToken
    <3>3. u = t
      BY <1>2, <1>3, <2>1, <3>1 DEF LoneCallHolds
    <3>4. QED
      BY <1>1, <1>2, <1>3, <3>1, <3>2, <3>3 DEF LoneCallHolds
  <2>2. QED
    BY <2>1 DEF LoneCallsHold
<1>9. CalmHolds'
  BY <1>2 DEF CalmHolds
<1>10. QED
  BY <1>4, <1>5, <1>6, <1>7, <1>8, <1>9 DEF WebInv

\* And so does the end of a session, under which every call then runs.
LEMMA SessionEnded ==
  ASSUME WebInv, SessionEnds
  PROVE  WebInv'
<1>1. PICK n \in DOMAIN webRows : webRows' = EndSession(n)
  BY DEF SessionEnds
<1> DEFINE ended == EndSession(n)
<1>2. /\ webRows' \in Seq(WebRow) /\ Len(webRows') = Len(webRows)
      /\ calm' = {} /\ UNCHANGED <<webIssued, jar, tabs>>
  BY <1>1, RowChanges DEF SessionEnds, WebInv
<1>3. ASSUME NEW t \in Tabs
      PROVE  /\ webCalls'[t] \in WebCall \cup {NoWebCall}
             /\ \/ webCalls[t] = NoWebCall /\ webCalls'[t] = NoWebCall
                \/ webCalls[t] # NoWebCall /\ Joined(webCalls[t], webCalls'[t])
  <2>1. CASE webCalls[t] = NoWebCall
    BY <2>1 DEF SessionEnds
  <2>2. CASE webCalls[t] # NoWebCall
    <3> DEFINE old == webCalls[t]
               other == [old EXCEPT !.alone = FALSE]
    <3>1. old \in WebCall
      BY <2>2 DEF WebInv, WebTypeOK
    <3>2. webCalls'[t] = other
      BY <2>2 DEF SessionEnds
    <3> HIDE DEF old
    <3>3. other \in WebCall /\ Joined(old, other)
      BY <3>1 DEF WebCall, Joined
    <3>4. QED
      BY <2>2, <3>2, <3>3 DEF old
  <2>3. QED
    BY <2>1, <2>2
<1>4. webCalls' \in [Tabs -> WebCall \cup {NoWebCall}]
  <2>1. webCalls' = [t \in Tabs |-> webCalls'[t]]
    BY DEF SessionEnds
  <2>2. QED
    BY <1>3, <2>1
<1>5. WebTypeOK'
  BY <1>2, <1>4 DEF WebInv, WebTypeOK, WebRow
<1>6. TokensHold'
  BY <1>2, <1>3 DEF WebInv, TokensHold, Joined
<1>7. TabsHold'
  BY <1>2, <1>3 DEF WebInv, TabsHold, Joined
<1>8. AnswersHold'
  BY <1>2, <1>3 DEF WebInv, AnswersHold, AnswerIsOfCall, Joined
<1>9. LoneCallsHold'
  BY <1>3 DEF LoneCallsHold, Joined
<1>10. CalmHolds'
  BY <1>2 DEF CalmHolds
<1>11. QED
  BY <1>5, <1>6, <1>7, <1>8, <1>9, <1>10 DEF WebInv

\* The cookies that an answer leaves in the browser.
LEMMA CookiesTaken ==
  ASSUME WebInv, NEW t \in Tabs, webCalls[t] # NoWebCall
  PROVE  /\ webCalls[t] \in WebCall
         /\ CookiesAfter(webCalls[t]) \in Cookies
         /\ CookiesAfter(webCalls[t]).token <= Len(webRows)
         /\ webCalls[t].sets = {} => CookiesAfter(webCalls[t]) = jar
<1>1. /\ webCalls[t] \in WebCall /\ jar \in Cookies
      /\ jar.token <= Len(webRows) /\ webCalls[t].answer.token <= Len(webRows)
  BY DEF WebInv, WebTypeOK, TokensHold
<1>2. PICK answer \in Cookies, sets \in SUBSET {"token", "csrf"},
           taken \in {CookiesAfter(webCalls[t])} :
        /\ answer = webCalls[t].answer /\ sets = webCalls[t].sets
        /\ taken = [c \in DOMAIN jar |-> IF c \in sets THEN answer[c] ELSE jar[c]]
  BY <1>1 DEF WebCall, CookiesAfter
<1>3. /\ taken \in Cookies
      /\ taken.token = IF "token" \in sets THEN answer.token ELSE jar.token
      /\ sets = {} => taken = jar
  BY <1>1, <1>2 DEF Cookies
<1>4. QED
  BY <1>1, <1>2, <1>3

\* What a tab shows once it has taken an answer or an error.
LEMMA TabShows ==
  ASSUME WebTypeOK, NEW t \in Tabs, NEW who \in Principals \cup {Anonymous},
         NEW csrf \in 0 .. MaxWebTokens, NEW selecting \in BOOLEAN,
         Shows(t, who, csrf, selecting)
  PROVE  /\ tabs' \in [Tabs -> Tab]
         /\ tabs'[t].principal = who /\ (tabs'[t].selecting <=> selecting)
         /\ \A u \in Tabs \ {t} : tabs'[u] = tabs[u]
<1> DEFINE new == [open |-> TRUE, principal |-> who, csrf |-> csrf,
                   selecting |-> selecting]
<1>1. new \in Tab /\ new.principal = who /\ new.selecting = selecting
  BY DEF Tab
<1>2. tabs' = [tabs EXCEPT ![t] = new]
  BY DEF Shows
<1> HIDE DEF new
<1>3. QED
  BY <1>1, <1>2 DEF WebTypeOK

\* As long as a call is under way, no other runs alone.
LEMMA OneAlone ==
  ASSUME WebInv, NEW t \in Tabs, webCalls[t] # NoWebCall
  PROVE  /\ \A u \in Tabs \ {t} :
              webCalls[u] # NoWebCall => ~ webCalls[u].alone
         /\ webCalls[t].alone => \A u \in Tabs \ {t} : webCalls[u] = NoWebCall
BY DEF WebInv, LoneCallsHold, LoneCallHolds

\* A tab takes an answer: if its call ran alone, the cookies agree with what
\* it shows.
LEMMA ReplyTaken ==
  ASSUME WebInv, NEW t \in Tabs, TakeReply(t)
  PROVE  WebInv'
<1>1. PICK call \in WebCall, cookies \in Cookies :
        /\ call = webCalls[t] /\ call # NoWebCall /\ call.stage = "ANSWERED"
        /\ cookies = CookiesAfter(call) /\ cookies.token <= Len(webRows)
        /\ call.sets = {} => cookies = jar
        /\ jar' = cookies
        /\ Shows(t, call.who, call.answer.csrf, call.select)
        /\ webCalls' = IF call.kind = "SWITCH" THEN Asking(t, "ME", cookies, cookies.csrf)
                       ELSE [webCalls EXCEPT ![t] = NoWebCall]
        /\ calm' = CASE ~ call.alone -> {}
                     [] call.alone /\ call.select -> calm
                     [] OTHER -> {t}
  BY CookiesTaken DEF TakeReply, CookiesAfter
<1>2. UNCHANGED <<webRows, webIssued>>
  BY DEF TakeReply
<1>3. /\ call.who \in Principals \cup {Anonymous} /\ call.select \in BOOLEAN
      /\ call.answer.csrf \in 0 .. MaxWebTokens /\ call.alone \in BOOLEAN
      /\ cookies.csrf \in 0 .. MaxWebTokens
      /\ AnswerIsOfCall(call)
  <2>1. AnswerIsOfCall(call)
    BY <1>1 DEF WebInv, AnswersHold
  <2>2. QED
    BY <2>1 DEF WebCall, Cookies
<1>4. /\ tabs' \in [Tabs -> Tab]
      /\ tabs'[t].principal = call.who /\ (tabs'[t].selecting <=> call.select)
      /\ \A u \in Tabs \ {t} : tabs'[u] = tabs[u]
  BY <1>1, <1>3, TabShows DEF WebInv
<1>5. call.alone => \A u \in Tabs \ {t} : webCalls[u] = NoWebCall
  BY <1>1, OneAlone
<1>6. /\ webCalls' \in [Tabs -> WebCall \cup {NoWebCall}]
      /\ \A u \in Tabs \ {t} :
           webCalls'[u] # NoWebCall =>
             /\ webCalls[u] # NoWebCall /\ ~ webCalls'[u].alone
             /\ webCalls'[u].sent = webCalls[u].sent
             /\ webCalls'[u].answer = webCalls[u].answer
             /\ webCalls'[u].kind = webCalls[u].kind
             /\ AnswerIsOfCall(webCalls'[u])
      /\ call.alone => \A u \in Tabs \ {t} : webCalls'[u] = NoWebCall
      /\ webCalls'[t] # NoWebCall =>
           /\ call.kind = "SWITCH"
           /\ webCalls'[t].kind = "ME" /\ webCalls'[t].stage = "ASKED"
           /\ webCalls'[t].sent.token = cookies.token
           /\ webCalls'[t].sent.csrf = cookies.csrf
           /\ webCalls'[t].answer = NoCookies
           /\ AnswerIsOfCall(webCalls'[t])
           /\ \A u \in Tabs \ {t} : webCalls'[t].alone => webCalls'[u] = NoWebCall
  <2>1. WebTypeOK /\ webCalls \in [Tabs -> WebCall \cup {NoWebCall}]
    BY DEF WebInv, WebTypeOK
  <2>2. \A u \in Tabs \ {t} : webCalls[u] # NoWebCall =>
          ~ webCalls[u].alone /\ AnswerIsOfCall(webCalls[u])
    BY <1>1, OneAlone DEF WebInv, AnswersHold
  <2>3. CASE call.kind = "SWITCH"
    <3>1. webCalls' = Asking(t, "ME", cookies, cookies.csrf)
      BY <1>1, <2>3
    <3>2. /\ webCalls' \in [Tabs -> WebCall \cup {NoWebCall}]
          /\ webCalls'[t] # NoWebCall
          /\ webCalls'[t].kind = "ME" /\ webCalls'[t].stage = "ASKED"
          /\ webCalls'[t].sent.token = cookies.token
          /\ webCalls'[t].sent.csrf = cookies.csrf
          /\ webCalls'[t].sets = {} /\ webCalls'[t].who = Anonymous
          /\ webCalls'[t].answer = NoCookies /\ ~ webCalls'[t].select
          /\ webCalls'[t].alone <=> \A u \in Tabs \ {t} : webCalls[u] = NoWebCall
          /\ \A u \in Tabs \ {t} :
               \/ webCalls[u] = NoWebCall /\ webCalls'[u] = NoWebCall
               \/ /\ webCalls[u] # NoWebCall /\ webCalls'[u] # NoWebCall
                  /\ Joined(webCalls[u], webCalls'[u])
      BY <1>3, <2>1, <3>1, TabAsks
    <3>3. ASSUME NEW u \in Tabs \ {t}, webCalls'[u] # NoWebCall
          PROVE  /\ webCalls[u] # NoWebCall /\ ~ webCalls'[u].alone
                 /\ webCalls'[u].sent = webCalls[u].sent
                 /\ webCalls'[u].answer = webCalls[u].answer
                 /\ webCalls'[u].kind = webCalls[u].kind
                 /\ AnswerIsOfCall(webCalls'[u])
      BY <2>2, <3>2, <3>3 DEF Joined, AnswerIsOfCall
    <3>4. AnswerIsOfCall(webCalls'[t])
      BY <3>2 DEF AnswerIsOfCall
    <3>5. call.alone => \A u \in Tabs \ {t} : webCalls'[u] = NoWebCall
      BY <1>5, <3>2
    <3>6. QED
      BY <2>3, <3>2, <3>3, <3>4, <3>5
  <2>4. CASE call.kind # "SWITCH"
    <3>1. webCalls' = [webCalls EXCEPT ![t] = NoWebCall]
      BY <1>1, <2>4
    <3>2. webCalls'[t] = NoWebCall /\ \A u \in Tabs \ {t} : webCalls'[u] = webCalls[u]
      BY <2>1, <3>1
    <3>3. webCalls' \in [Tabs -> WebCall \cup {NoWebCall}]
      BY <2>1, <3>1
    <3>4. QED
      BY <1>5, <2>2, <3>2, <3>3
  <2>5. QED
    BY <2>3, <2>4
<1>7. WebTypeOK'
  <2>1. calm' \in SUBSET Tabs
    BY <1>1 DEF WebInv, WebTypeOK
  <2>2. QED
    BY <1>1, <1>2, <1>4, <1>6, <2>1 DEF WebInv, WebTypeOK
<1>8. TokensHold'
  <2>1. Len(webRows') = Len(webRows) /\ jar'.token <= Len(webRows)
    BY <1>1, <1>2
  <2>2. ASSUME NEW u \in Tabs, webCalls'[u] # NoWebCall
        PROVE  /\ webCalls'[u].sent.token <= Len(webRows)
               /\ webCalls'[u].answer.token <= Len(webRows)
    <3>1. CASE u = t
      <4>1. NoCookies.token = 0 /\ Len(webRows) \in Nat
        BY TokensTyped DEF NoCookies, WebInv
      <4>2. 0 <= Len(webRows)
        BY <4>1
      <4>3. QED
        BY <1>1, <1>6, <2>2, <3>1, <4>1, <4>2
    <3>2. CASE u # t
      <4>1. webCalls[u] # NoWebCall
        BY <1>6, <2>2, <3>2
      <4>2. /\ webCalls[u].sent.token <= Len(webRows)
            /\ webCalls[u].answer.token <= Len(webRows)
        BY <4>1 DEF WebInv, TokensHold
      <4>3. QED
        BY <1>6, <2>2, <3>2, <4>2
    <3>3. QED
      BY <3>1, <3>2
  <2>3. QED
    BY <2>1, <2>2 DEF TokensHold
<1>9. TabsHold'
  <2>1. tabs'[t].selecting => tabs'[t].principal = Anonymous
    BY <1>3, <1>4 DEF AnswerIsOfCall
  <2>2. webCalls'[t] # NoWebCall => webCalls'[t].kind = "ME"
    BY <1>6
  <2>3. ASSUME NEW u \in Tabs \ {t}
        PROVE  /\ tabs'[u].selecting => tabs'[u].principal = Anonymous
               /\ webCalls'[u] # NoWebCall =>
                    /\ webCalls'[u].kind = "LOGIN" => tabs'[u].principal = Anonymous
                    /\ webCalls'[u].kind = "SELECT" => tabs'[u].selecting
    <3>1. tabs'[u] = tabs[u]
      BY <1>4
    <3>2. webCalls'[u] # NoWebCall =>
            webCalls[u] # NoWebCall /\ webCalls'[u].kind = webCalls[u].kind
      BY <1>6
    <3>3. QED
      BY <3>1, <3>2 DEF WebInv, TabsHold
  <2>4. QED
    BY <2>1, <2>2, <2>3 DEF TabsHold
<1>10. AnswersHold'
  <2>1. ASSUME NEW u \in Tabs, webCalls'[u] # NoWebCall
        PROVE  AnswerIsOfCall(webCalls'[u]) /\ (webCalls'[u].stage = "LOST" => calm' = {})
    <3>1. CASE u = t
      BY <1>6, <2>1, <3>1
    <3>2. CASE u # t
      <4>1. ~ call.alone /\ AnswerIsOfCall(webCalls'[u])
        BY <1>6, <2>1, <3>2
      <4>2. calm' = {}
        BY <1>1, <4>1
      <4>3. QED
        BY <4>1, <4>2
    <3>3. QED
      BY <3>1, <3>2
  <2>2. QED
    BY <2>1 DEF AnswersHold, AnswerIsOfCall
<1>11. LoneCallsHold'
  <2>1. ASSUME NEW u \in Tabs, webCalls'[u] # NoWebCall, webCalls'[u].alone
        PROVE  u = t
    BY <1>6, <2>1
  <2>2. ASSUME webCalls'[t] # NoWebCall, webCalls'[t].alone
        PROVE  LoneCallHolds(t)'
    BY <1>1, <1>6, <2>2 DEF LoneCallHolds
  <2>3. QED
    BY <2>1, <2>2 DEF LoneCallsHold
<1>12. CalmHolds'
  <2>1. SUFFICES ASSUME calm' # {}, Settling'
                 PROVE  BrowserIsCalm'
    BY DEF CalmHolds
  <2>2. call.alone
    BY <1>1, <2>1
  <2>3. /\ \A u \in Tabs \ {t} : webCalls[u] = NoWebCall /\ webCalls'[u] = NoWebCall
        /\ LoneCallHolds(t)
    BY <1>1, <1>5, <1>6, <2>2 DEF WebInv, LoneCallsHold
  <2>4. calm \in SUBSET Tabs
    BY DEF WebInv, WebTypeOK
  <2>5. CASE call.select
    <3>1. calm' = calm /\ cookies = jar /\ call.kind = "LOGIN" /\ call.who = Anonymous
      BY <1>1, <1>3, <2>2, <2>5 DEF AnswerIsOfCall
    <3>2. Settling
      BY <1>1, <2>2, <2>3, <2>5 DEF Settling
    <3>3. BrowserIsCalm
      BY <2>1, <3>1, <3>2 DEF WebInv, CalmHolds
    <3>4. tabs[t].principal = Anonymous
      BY <1>1, <3>1 DEF WebInv, TabsHold
    <3>5. webRows' = webRows /\ jar' = jar /\ (SessionLives(jar)' <=> SessionLives(jar))
      BY <1>1, <1>2, <3>1 DEF SessionLives
    <3>6. \A u \in calm : \/ webCalls[u] # NoWebCall /\ webCalls[u].kind = "ME"
                          \/ tabs[u].principal =
                               IF SessionLives(jar) THEN webRows[jar.token].who
                               ELSE Anonymous
      BY <3>3 DEF BrowserIsCalm
    <3>7. \A u \in calm : /\ ~ (webCalls[u] # NoWebCall /\ webCalls[u].kind = "ME")
                          /\ tabs'[u].principal = tabs[u].principal
      BY <1>1, <1>4, <2>3, <2>4, <3>1, <3>4
    <3>8. QED
      BY <3>1, <3>3, <3>5, <3>6, <3>7 DEF BrowserIsCalm
  <2>6. CASE ~ call.select
    <3>1. calm' = {t}
      BY <1>1, <2>2, <2>6
    <3>2. CookiesAgree(cookies, call.who)
      BY <1>1, <2>3, <2>6 DEF LoneCallHolds
    <3>3. CookiesAgree(cookies, call.who)'
      BY <1>2, <3>2 DEF CookiesAgree, SessionLives
    <3>4. QED
      BY <1>1, <1>4, <3>1, <3>3 DEF BrowserIsCalm, CookiesAgree, SessionLives
  <2>7. QED
    BY <2>5, <2>6
<1>13. QED
  BY <1>7, <1>8, <1>9, <1>10, <1>11, <1>12 DEF WebInv

\* A tab takes an error: alone, it shows nobody only when nobody is logged in.
LEMMA ErrorTaken ==
  ASSUME WebInv, NEW t \in Tabs, TakeError(t)
  PROVE  WebInv'
<1>1. PICK call \in WebCall :
        /\ call = webCalls[t] /\ call # NoWebCall
        /\ call.stage \in {"REFUSED", "LOST"}
        /\ IF \/ call.kind \in {"ME", "LOGOUT"}
              \/ call.kind = "SELECT" /\ call.stage = "REFUSED"
           THEN Shows(t, Anonymous, 0, FALSE) ELSE UNCHANGED tabs
        /\ webCalls' = [webCalls EXCEPT ![t] = NoWebCall]
        /\ calm' = IF call.alone THEN calm ELSE {}
        /\ UNCHANGED <<webRows, webIssued, jar>>
  BY CookiesTaken DEF TakeError
<1>2. /\ tabs' \in [Tabs -> Tab] /\ \A u \in Tabs \ {t} : tabs'[u] = tabs[u]
      /\ \/ /\ call.kind \in {"ME", "LOGOUT", "SELECT"}
            /\ tabs'[t].principal = Anonymous
         \/ tabs' = tabs
      /\ tabs'[t].selecting => tabs'[t].principal = Anonymous
  <2>1. CASE UNCHANGED tabs
    BY <2>1 DEF WebInv, WebTypeOK, TabsHold
  <2>2. CASE /\ call.kind \in {"ME", "LOGOUT", "SELECT"}
             /\ Shows(t, Anonymous, 0, FALSE)
    <3>1. 0 \in 0 .. MaxWebTokens /\ WebTypeOK
      BY DashboardSessionAssumption DEF WebInv
    <3>2. QED
      BY <2>2, <3>1, TabShows
  <2>3. QED
    BY <1>1, <2>1, <2>2
<1>3. /\ webCalls'[t] = NoWebCall /\ \A u \in Tabs \ {t} : webCalls'[u] = webCalls[u]
      /\ webCalls' \in [Tabs -> WebCall \cup {NoWebCall}]
  BY <1>1 DEF WebInv, WebTypeOK
<1>4. /\ \A u \in Tabs \ {t} : webCalls[u] # NoWebCall => ~ webCalls[u].alone
      /\ call.alone => \A u \in Tabs \ {t} : webCalls[u] = NoWebCall
  BY <1>1, OneAlone
<1>5. WebTypeOK'
  BY <1>1, <1>2, <1>3 DEF WebInv, WebTypeOK
<1>6. TokensHold'
  BY <1>1, <1>3 DEF WebInv, TokensHold
<1>7. TabsHold'
  BY <1>2, <1>3 DEF WebInv, TabsHold
<1>8. AnswersHold'
  BY <1>1, <1>3 DEF WebInv, AnswersHold, AnswerIsOfCall
<1>9. LoneCallsHold'
  BY <1>3, <1>4 DEF LoneCallsHold
<1>10. CalmHolds'
  <2>1. SUFFICES ASSUME calm' # {}, Settling'
                 PROVE  BrowserIsCalm'
    BY DEF CalmHolds
  <2>2. call.alone /\ calm' = calm /\ call.stage = "REFUSED" /\ call.kind # "ME"
    BY <1>1, <2>1 DEF WebInv, AnswersHold, AnswerIsOfCall
  <2>3. /\ \A u \in Tabs \ {t} : webCalls[u] = NoWebCall /\ webCalls'[u] = NoWebCall
        /\ LoneCallHolds(t)
    BY <1>1, <1>3, <1>4, <2>2 DEF WebInv, LoneCallsHold
  <2>4. Settling
    BY <1>1, <2>2, <2>3 DEF Settling
  <2>5. BrowserIsCalm /\ calm \in SUBSET Tabs
    BY <2>1, <2>2, <2>4 DEF WebInv, CalmHolds, WebTypeOK
  <2>6. \A u \in calm :
          tabs[u].principal =
            IF SessionLives(jar) THEN webRows[jar.token].who ELSE Anonymous
    BY <1>1, <2>2, <2>3, <2>5 DEF BrowserIsCalm
  <2>7. ASSUME t \in calm
        PROVE  tabs'[t].principal = tabs[t].principal
    <3>1. CASE call.kind = "SELECT"
      BY <1>1, <1>2, <3>1 DEF WebInv, TabsHold
    <3>2. CASE call.kind = "LOGOUT"
      <4>1. ~ CsrfMatches(call.sent)
        BY <1>1, <2>2, <2>3, <3>2 DEF LoneCallHolds
      <4>2. ~ SessionLives(jar)
        <5>1. SUFFICES ASSUME SessionLives(jar) PROVE FALSE
          OBVIOUS
        <5>2. /\ call.sent.token = jar.token
              /\ call.sent.csrf = CurrentCsrfToken(t)
          BY <1>1, <2>3, <3>2 DEF LoneCallHolds
        <5>3. webRows[jar.token].csrf = jar.csrf
          BY <2>5, <5>1 DEF BrowserIsCalm
        <5>4. webRows[jar.token].csrf # 0
          <6>1. jar.token \in 1 .. Len(webRows) /\ webRows \in Seq(WebRow)
            BY <5>1, TokensTyped DEF WebInv, WebTypeOK, WebRow, TokensHold, SessionLives
          <6>2. webRows[jar.token] \in WebRow
            BY <6>1
          <6>3. QED
            BY <6>2 DEF WebRow
        <5>5. QED
          BY <4>1, <5>1, <5>2, <5>3, <5>4
          DEF CsrfMatches, SessionLives, CurrentCsrfToken
      <4>3. QED
        BY <1>2, <2>6, <2>7, <3>2, <4>2
    <3>3. QED
      BY <1>2, <2>2, <3>1, <3>2
  <2>8. \A u \in calm : tabs'[u].principal = tabs[u].principal
    BY <1>2, <2>5, <2>7
  <2>9. QED
    BY <1>1, <2>2, <2>5, <2>6, <2>8 DEF BrowserIsCalm, SessionLives
<1>11. QED
  BY <1>5, <1>6, <1>7, <1>8, <1>9, <1>10 DEF WebInv

\* A tab goes back to the form: only a call alone may have to know its token.
LEMMA SelectionCancelled ==
  ASSUME WebInv, NEW t \in Tabs, CancelCompanySelection(t)
  PROVE  WebInv'
<1>1. /\ tabs[t].selecting /\ webCalls[t] = NoWebCall
      /\ tabs' = [tabs EXCEPT ![t].selecting = FALSE, ![t].csrf = 0]
      /\ UNCHANGED <<webRows, webIssued, jar, webCalls, calm>>
  BY DEF CancelCompanySelection
<1>2. /\ tabs' \in [Tabs -> Tab] /\ \A u \in Tabs \ {t} : tabs'[u] = tabs[u]
      /\ tabs'[t].principal = tabs[t].principal /\ ~ tabs'[t].selecting
  <2> DEFINE old == tabs[t]
             new == [old EXCEPT !.selecting = FALSE, !.csrf = 0]
  <2>1. old \in Tab /\ tabs \in [Tabs -> Tab]
    BY DEF WebInv, WebTypeOK
  <2>2. tabs' = [tabs EXCEPT ![t] = new]
    BY <1>1
  <2> HIDE DEF old
  <2>3. new \in Tab /\ new.principal = old.principal /\ ~ new.selecting
    <3>1. 0 \in 0 .. MaxWebTokens
      BY DashboardSessionAssumption
    <3>2. QED
      BY <2>1, <3>1 DEF Tab
  <2> HIDE DEF new
  <2>4. QED
    BY <2>1, <2>2, <2>3 DEF old
<1>3. WebTypeOK'
  BY <1>1, <1>2 DEF WebInv, WebTypeOK
<1>4. TokensHold' /\ AnswersHold'
  BY <1>1 DEF WebInv, TokensHold, AnswersHold, AnswerIsOfCall
<1>5. TabsHold'
  BY <1>1, <1>2 DEF WebInv, TabsHold
<1>6. LoneCallsHold'
  <2>1. ASSUME NEW u \in Tabs, webCalls'[u] # NoWebCall, webCalls'[u].alone
        PROVE  LoneCallHolds(u)'
    <3>1. u # t /\ LoneCallHolds(u)
      BY <1>1, <2>1 DEF WebInv, LoneCallsHold
    <3>2. CurrentCsrfToken(u)' = CurrentCsrfToken(u)
      BY <1>1, <1>2, <3>1 DEF CurrentCsrfToken
    <3>3. QED
      BY <1>1, <3>1, <3>2
      DEF LoneCallHolds, CookiesAgree, CookiesAfter, CsrfMatches, SessionLives
  <2>2. QED
    BY <2>1 DEF LoneCallsHold
<1>7. CalmHolds'
  <2>1. \A u \in Tabs : tabs'[u].principal = tabs[u].principal
    BY <1>2
  <2>2. calm \in SUBSET Tabs
    BY DEF WebInv, WebTypeOK
  <2>3. QED
    BY <1>1, <2>1, <2>2 DEF WebInv, CalmHolds, Settling, BrowserIsCalm, SessionLives
<1>8. QED
  BY <1>3, <1>4, <1>5, <1>6, <1>7 DEF WebInv

(***************************************************************************)
(* The invariant holds whatever the tabs, the API and the network do.      *)
(***************************************************************************)
THEOREM WebInvHolds == WebSpec => []WebInv
<1>1. WebInit => WebInv
  <2>1. SUFFICES ASSUME WebInit PROVE WebInv
    OBVIOUS
  <2>2. NoCookies \in Cookies /\ NoCookies.token = 0
    BY DashboardSessionAssumption DEF NoCookies, Cookies
  <2>3. tabs \in [Tabs -> Tab] /\ \A t \in Tabs : ~ tabs[t].selecting
    BY <2>1, DashboardSessionAssumption DEF WebInit, Tab
  <2>4. webRows = <<>> /\ Len(webRows) = 0 /\ webRows \in Seq(WebRow)
    BY <2>1 DEF WebInit
  <2>5. WebTypeOK
    <3>1. Len(webRows) <= MaxWebSessions /\ webIssued \in 0 .. MaxWebTokens
      BY <2>1, <2>4, DashboardSessionAssumption DEF WebInit
    <3>2. webCalls \in [Tabs -> WebCall \cup {NoWebCall}] /\ calm \in SUBSET Tabs
      BY <2>1 DEF WebInit
    <3>3. QED
      BY <2>1, <2>2, <2>3, <2>4, <3>1, <3>2 DEF WebInit, WebTypeOK, WebRow
  <2>6. QED
    BY <2>1, <2>2, <2>3, <2>4, <2>5
    DEF WebInit, WebInv, TokensHold, TabsHold, AnswersHold, LoneCallsHold, CalmHolds
<1>2. WebInv /\ [WebNext]_webVars => WebInv'
  <2>1. SUFFICES ASSUME WebInv, [WebNext]_webVars
                 PROVE  WebInv'
    OBVIOUS
  <2>2. CASE SessionEnds
    BY <2>1, <2>2, SessionEnded
  <2>3. ASSUME NEW t \in Tabs, LoadPage(t)
        PROVE  WebInv'
    <3> DEFINE old == tabs[t]
               new == [old EXCEPT !.open = TRUE, !.principal = Anonymous,
                                  !.selecting = FALSE]
    <3>1. /\ webCalls[t] = NoWebCall
          /\ webCalls' = Asking(t, "ME", jar, jar.csrf)
          /\ tabs' = [tabs EXCEPT ![t] = new]
          /\ UNCHANGED <<webRows, webIssued, jar, calm>>
      BY <2>3 DEF LoadPage
    <3>2. old \in Tab /\ tabs \in [Tabs -> Tab]
      BY <2>1 DEF WebInv, WebTypeOK
    <3> HIDE DEF old
    <3>3. /\ new \in Tab /\ new.principal = Anonymous /\ ~ new.selecting
          /\ new.csrf = old.csrf
      BY <3>2 DEF Tab
    <3> HIDE DEF new
    <3>4. /\ tabs' \in [Tabs -> Tab] /\ \A u \in Tabs \ {t} : tabs'[u] = tabs[u]
          /\ tabs'[t].principal = Anonymous /\ tabs'[t].csrf = tabs[t].csrf
      BY <3>1, <3>2, <3>3 DEF old
    <3>5. PICK kind \in {"ME"} :
            webCalls' = Asking(t, kind, jar,
                               IF kind = "ME" THEN jar.csrf ELSE CurrentCsrfToken(t))
      BY <3>1
    <3>6. QED
      BY <2>1, <3>1, <3>4, <3>5, AskingHolds
  <2>4. ASSUME NEW t \in Tabs, NEW kind \in {"LOGIN", "SELECT", "SWITCH", "LOGOUT"},
               PostCall(t, kind), kind = "LOGIN" => tabs[t].principal = Anonymous,
               kind = "SELECT" => tabs[t].selecting
        PROVE  WebInv'
    <3>1. /\ webCalls[t] = NoWebCall
          /\ webCalls' = Asking(t, kind, jar, CurrentCsrfToken(t))
          /\ UNCHANGED <<webRows, webIssued, jar, tabs, calm>>
      BY <2>4 DEF PostCall
    <3>2. /\ tabs' \in [Tabs -> Tab] /\ \A u \in Tabs \ {t} : tabs'[u] = tabs[u]
          /\ tabs'[t] = tabs[t]
          /\ tabs[t].selecting => tabs[t].principal = Anonymous
      BY <2>1, <3>1 DEF WebInv, WebTypeOK, TabsHold
    <3>3. webCalls' = Asking(t, kind, jar,
                             IF kind = "ME" THEN jar.csrf ELSE CurrentCsrfToken(t))
      BY <2>4, <3>1
    <3>4. QED
      BY <2>1, <2>4, <3>1, <3>2, <3>3, AskingHolds
  <2>5. ASSUME NEW t \in Tabs,
               SubmitLogin(t) \/ ChooseCompany(t) \/ ChangeCompany(t) \/ PressExit(t)
        PROVE  WebInv'
    <3>1. CASE SubmitLogin(t)
      BY <2>4, <3>1 DEF SubmitLogin
    <3>2. CASE ChooseCompany(t)
      BY <2>4, <3>2 DEF ChooseCompany
    <3>3. CASE ChangeCompany(t)
      BY <2>4, <3>3 DEF ChangeCompany
    <3>4. CASE PressExit(t)
      BY <2>4, <3>4 DEF PressExit
    <3>5. QED
      BY <2>5, <3>1, <3>2, <3>3, <3>4
  <2>6. CASE UNCHANGED webVars
    <3>1. UNCHANGED <<webRows, webIssued, jar, tabs, webCalls, calm>>
      BY <2>6 DEF webVars
    <3>2. WebTypeOK' /\ TokensHold' /\ TabsHold' /\ AnswersHold'
      BY <2>1, <3>1
      DEF WebInv, WebTypeOK, TokensHold, TabsHold, AnswersHold, AnswerIsOfCall
    <3>3. LoneCallsHold'
      BY <2>1, <3>1
      DEF WebInv, LoneCallsHold, LoneCallHolds, CookiesAgree, CookiesAfter,
          CsrfMatches, SessionLives, CurrentCsrfToken
    <3>4. CalmHolds'
      BY <2>1, <3>1 DEF WebInv, CalmHolds, Settling, BrowserIsCalm, SessionLives
    <3>5. QED
      BY <3>2, <3>3, <3>4 DEF WebInv
  <2>7. QED
    BY <2>1, <2>2, <2>3, <2>5, <2>6, SelectionCancelled, TabServed, WebAnswerLost,
       ReplyTaken, ErrorTaken DEF WebNext
<1>3. QED
  BY <1>1, <1>2, PTL DEF WebSpec

(***************************************************************************)
(* However the answers of the tabs have crossed, one call that runs alone  *)
(* brings the browser back: its tab shows whom the cookies belong to, and  *)
(* every tab passes the CSRF check with them, for any number of tabs,      *)
(* users, sessions and tokens.                                             *)
(***************************************************************************)
THEOREM BrowserAlwaysRecovers == WebSpec => []BrowserRecovers
<1>1. WebInv => BrowserRecovers
  <2>1. SUFFICES ASSUME WebInv, calm # {}, \A t \in Tabs : webCalls[t] = NoWebCall
                 PROVE  /\ \A t \in calm :
                             tabs[t].principal = IF SessionLives(jar)
                                                 THEN webRows[jar.token].who
                                                 ELSE Anonymous
                        /\ SessionLives(jar) =>
                             \A t \in Tabs :
                               CsrfMatches([jar EXCEPT !.csrf = CurrentCsrfToken(t)])
    BY DEF BrowserRecovers
  <2>2. BrowserIsCalm /\ calm \in SUBSET Tabs
    BY <2>1 DEF WebInv, CalmHolds, Settling, WebTypeOK
  <2>3. \A t \in calm :
          tabs[t].principal =
            IF SessionLives(jar) THEN webRows[jar.token].who ELSE Anonymous
    BY <2>1, <2>2 DEF BrowserIsCalm
  <2>4. ASSUME SessionLives(jar), NEW t \in Tabs
        PROVE  CsrfMatches([jar EXCEPT !.csrf = CurrentCsrfToken(t)])
    <3>1. jar.token \in 1 .. Len(webRows) /\ webRows \in Seq(WebRow) /\ jar \in Cookies
      BY <2>1, <2>4, TokensTyped
      DEF WebInv, WebTypeOK, WebRow, TokensHold, SessionLives
    <3>2. webRows[jar.token] \in WebRow
      BY <3>1
    <3>3. webRows[jar.token].csrf = jar.csrf /\ jar.csrf # 0
      BY <2>2, <2>4, <3>2 DEF BrowserIsCalm, WebRow
    <3>4. CurrentCsrfToken(t) = jar.csrf
      BY <3>3 DEF CurrentCsrfToken
    <3>5. [jar EXCEPT !.csrf = CurrentCsrfToken(t)] = jar
      BY <3>1, <3>4 DEF Cookies
    <3>6. QED
      BY <2>4, <3>3, <3>5 DEF CsrfMatches
  <2>5. QED
    BY <2>3, <2>4
<1>2. QED
  BY <1>1, WebInvHolds, PTL
=============================================================================
