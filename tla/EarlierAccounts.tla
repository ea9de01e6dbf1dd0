--------------------------- MODULE EarlierAccounts ---------------------------
(***************************************************************************)
(* Accounts and sessions of the earlier API tree (domain, infra, http).    *)
(* In MySQL the first MASTER comes from a script, in memory from the tests *)
(* that use it; analysts come from a MASTER.  A request is authenticated   *)
(* by a session cookie and by the CSRF token that the browser keeps in a   *)
(* cookie beside it.  Every statement is a step, and between them other    *)
(* windows of the browser, other requests and another run of the script go *)
(* on.                                                                     *)
(***************************************************************************)
EXTENDS Naturals, Sequences

CONSTANTS
  Emails,
  Windows,             \* the requests and scripts that run at once
  MaxAccounts,         \* bound on the accounts
  MaxEarlierSessions,  \* bound on the sessions
  NoRequest

ASSUME EarlierAccountsAssumption ==
  /\ Emails # {}
  /\ MaxAccounts \in Nat \ {0} /\ MaxEarlierSessions \in Nat

VARIABLES
  keptIn,          \* "memory" or "mysql": the repositories in use
  accounts,        \* users, in the order of their ids
  earlierSessions, \* sessions, in the order of their ids
  cookies,         \* whose session and CSRF cookie the browser has; 0: none
  requests         \* what each window has under way

accountVars == <<keptIn, accounts, earlierSessions, cookies, requests>>

----------------------------------------------------------------------------
Account ==
  [email : Emails, role : {"MASTER", "ANALISTA"}, active : BOOLEAN]

\* csrf_token_hash never changes, so that the session's id stands for it;
\* last_seen_at is left out.
EarlierSession == [account : 1 .. MaxAccounts, revoked : BOOLEAN]

Unread == [account |-> 1, revoked |-> FALSE]

\* read: the session as it was found; late: it had ended when the request
\* was sent.
Request ==
  [kind : {"LOGIN", "ME", "CREATE", "LOGOUT", "BOOTSTRAP"},
   at : {"SENT", "FOUND", "KNOWN", "RESOLVED", "CHECKED", "ANSWERED", "REFUSED"},
   session : 0 .. MaxEarlierSessions, csrf : 0 .. MaxEarlierSessions,
   read : EarlierSession, user : 0 .. MaxAccounts, email : Emails, late : BOOLEAN]

AccountsTypeOK ==
  /\ keptIn \in {"memory", "mysql"}
  /\ accounts \in Seq(Account) /\ Len(accounts) <= MaxAccounts
  /\ earlierSessions \in Seq(EarlierSession)
  /\ Len(earlierSessions) <= MaxEarlierSessions
  /\ cookies \in [session : 0 .. MaxEarlierSessions, csrf : 0 .. MaxEarlierSessions]
  /\ requests \in [Windows -> Request \cup {NoRequest}]

----------------------------------------------------------------------------
(* The repositories.                                                       *)

FindByEmail(email) == {a \in DOMAIN accounts : accounts[a].email = email}

CountMasters == {a \in DOMAIN accounts : accounts[a].role = "MASTER"}

NewAccount(email, role) == [email |-> email, role |-> role, active |-> TRUE]

AnEmail == CHOOSE email \in Emails : TRUE

AccountsInit ==
  /\ \/ keptIn = "memory" /\ accounts = <<NewAccount(AnEmail, "MASTER")>>
     \/ keptIn = "mysql" /\ accounts = <<>>
  /\ earlierSessions = <<>>
  /\ cookies = [session |-> 0, csrf |-> 0]
  /\ requests = [w \in Windows |-> NoRequest]

\* The array takes whatever it is given.
MemoryCreates(email, role) ==
  keptIn = "memory" /\ accounts' = Append(accounts, NewAccount(email, role))

\* uk_users_email.
MySqlCreates(email, role) ==
  /\ keptIn = "mysql" /\ FindByEmail(email) = {}
  /\ accounts' = Append(accounts, NewAccount(email, role))

FindActiveByTokenHash(s) == s # 0 /\ ~earlierSessions[s].revoked

\* Mutant: the session is saved as it was read.
TouchedAsRead(session, read) == read

\* touch: last_seen_at, and nothing of what was read.
Touched(session, read) == session

RevokedRow(session) == [session EXCEPT !.revoked = TRUE]

----------------------------------------------------------------------------
(* What begins.                                                            *)

Ended(s) ==
  s # 0 /\ (earlierSessions[s].revoked
            \/ ~accounts[earlierSessions[s].account].active)

Sends(w, kind, email) ==
  /\ requests[w] = NoRequest
  /\ requests' = [requests EXCEPT ![w] =
       [kind |-> kind, at |-> "SENT", session |-> cookies.session,
        csrf |-> cookies.csrf, read |-> Unread, user |-> 0, email |-> email,
        late |-> Ended(cookies.session)]]
  /\ UNCHANGED <<keptIn, accounts, earlierSessions, cookies>>

SendRequest(w) ==
  \/ \E kind \in {"LOGIN", "CREATE"}, email \in Emails : Sends(w, kind, email)
  \/ \E kind \in {"ME", "LOGOUT"} : Sends(w, kind, AnEmail)

RunBootstrap(w) ==
  keptIn = "mysql" /\ \E email \in Emails : Sends(w, "BOOTSTRAP", email)

\* No route of this tree does; an operator of the database may.
DisableAccount ==
  /\ \E a \in DOMAIN accounts :
       accounts[a].active /\ accounts' = [accounts EXCEPT ![a].active = FALSE]
  /\ UNCHANGED <<keptIn, earlierSessions, cookies, requests>>

----------------------------------------------------------------------------
(* Steps of a request.                                                     *)

Is(w, kinds, at) ==
  requests[w] # NoRequest /\ requests[w].kind \in kinds /\ requests[w].at = at

Moves(w, next) ==
  /\ requests' = [requests EXCEPT ![w] = next]
  /\ UNCHANGED <<keptIn, accounts, earlierSessions, cookies>>

Guarded == {"ME", "CREATE", "LOGOUT"}

\* Nothing more is read of a request that is over.
Over(w, at) ==
  [kind |-> requests[w].kind, at |-> at, session |-> 0, csrf |-> 0,
   read |-> Unread, user |-> 0, email |-> AnEmail, late |-> FALSE]

RefuseUnless(w, condition, next) ==
  Moves(w, IF condition THEN next ELSE Over(w, "REFUSED"))

\* login: the account, then the password, which takes its time.
FindLogin(w) ==
  /\ Is(w, {"LOGIN"}, "SENT")
  /\ \/ \E a \in FindByEmail(requests[w].email) :
          /\ \A b \in FindByEmail(requests[w].email) : a <= b
          /\ RefuseUnless(w, accounts[a].active,
                          [Over(w, "CHECKED") EXCEPT !.user = a])
     \/ Moves(w, Over(w, "REFUSED"))

CreateSession(w) ==
  /\ Is(w, {"LOGIN"}, "CHECKED")
  /\ Len(earlierSessions) < MaxEarlierSessions
  /\ earlierSessions' = Append(earlierSessions,
       [account |-> requests[w].user, revoked |-> FALSE])
  /\ requests' = [requests EXCEPT
       ![w] = [Over(w, "ANSWERED") EXCEPT !.session = Len(earlierSessions) + 1]]
  /\ UNCHANGED <<keptIn, accounts, cookies>>

\* resolveSession: the session, the account, then touch.
FindSession(w) ==
  /\ Is(w, Guarded, "SENT")
  /\ LET s == requests[w].session
     IN IF FindActiveByTokenHash(s)
        THEN Moves(w, [requests[w] EXCEPT
                         !.at = "FOUND", !.read = earlierSessions[s],
                         !.user = earlierSessions[s].account])
        ELSE Moves(w, Over(w, "REFUSED"))

FindUser(w) ==
  /\ Is(w, Guarded, "FOUND")
  /\ RefuseUnless(w, accounts[requests[w].user].active,
                  [requests[w] EXCEPT !.at = "KNOWN"])

TouchSession(w) ==
  /\ Is(w, Guarded, "KNOWN")
  /\ LET s == requests[w].session
     IN earlierSessions' =
          [earlierSessions EXCEPT ![s] = Touched(@, requests[w].read)]
  /\ requests' = [requests EXCEPT ![w].at = "RESOLVED", ![w].read = Unread]
  /\ UNCHANGED <<keptIn, accounts, cookies>>

\* requireCsrf: the header is the cookie of the same browser.
CsrfOf(w) == requests[w].csrf = requests[w].session

\* requireRole, assertMaster: the account as it was read.
MayCreate(w) == accounts[requests[w].user].role = "MASTER"

\* me compares the cookie itself.
CheckMe(w) ==
  Is(w, {"ME"}, "RESOLVED") /\ RefuseUnless(w, CsrfOf(w), Over(w, "ANSWERED"))

CheckAnalyst(w) ==
  /\ Is(w, {"CREATE"}, "RESOLVED")
  /\ RefuseUnless(w, /\ MayCreate(w) /\ CsrfOf(w)
                     /\ FindByEmail(requests[w].email) = {},
                  [requests[w] EXCEPT !.at = "CHECKED"])

\* logout looks for the session again, and is through when it is not there.
CheckLogout(w) ==
  /\ Is(w, {"LOGOUT"}, "RESOLVED")
  /\ RefuseUnless(w, CsrfOf(w),
       IF FindActiveByTokenHash(requests[w].session)
       THEN [requests[w] EXCEPT !.at = "CHECKED"] ELSE Over(w, "ANSWERED"))

RevokeSession(w) ==
  /\ Is(w, {"LOGOUT"}, "CHECKED")
  /\ earlierSessions' =
       [earlierSessions EXCEPT ![requests[w].session] = RevokedRow(@)]
  /\ requests' = [requests EXCEPT ![w] = Over(w, "ANSWERED")]
  /\ UNCHANGED <<keptIn, accounts, cookies>>

\* bootstrap-master: two SELECTs before the hash of the password.
CheckBootstrap(w) ==
  /\ Is(w, {"BOOTSTRAP"}, "SENT")
  /\ RefuseUnless(w, CountMasters = {} /\ FindByEmail(requests[w].email) = {},
                  [requests[w] EXCEPT !.at = "CHECKED"])

RoleOf(kind) == IF kind = "BOOTSTRAP" THEN "MASTER" ELSE "ANALISTA"

CreateAccount(w) ==
  /\ Is(w, {"CREATE", "BOOTSTRAP"}, "CHECKED")
  /\ LET email == requests[w].email  role == RoleOf(requests[w].kind)
     IN \/ /\ Len(accounts) < MaxAccounts
           /\ MemoryCreates(email, role) \/ MySqlCreates(email, role)
           /\ requests' = [requests EXCEPT ![w] = Over(w, "ANSWERED")]
        \/ /\ keptIn = "mysql" /\ FindByEmail(email) # {}
           /\ requests' = [requests EXCEPT ![w] = Over(w, "REFUSED")]
           /\ UNCHANGED accounts
  /\ UNCHANGED <<keptIn, earlierSessions, cookies>>

----------------------------------------------------------------------------
\* The answer comes: the cookies of a login are set together, those of a
\* log-out cleared together.
TakeAnswer(w) ==
  /\ requests[w] # NoRequest /\ requests[w].at \in {"ANSWERED", "REFUSED"}
  /\ LET ours == requests[w]
     IN cookies' =
          CASE ours.at = "ANSWERED" /\ ours.kind = "LOGIN" ->
                 [session |-> ours.session, csrf |-> ours.session]
            [] ours.at = "ANSWERED" /\ ours.kind = "LOGOUT" ->
                 [session |-> 0, csrf |-> 0]
            [] OTHER -> cookies
  /\ requests' = [requests EXCEPT ![w] = NoRequest]
  /\ UNCHANGED <<keptIn, accounts, earlierSessions>>

AnswerLost(w) ==
  /\ requests[w] # NoRequest
  /\ requests' = [requests EXCEPT ![w] = NoRequest]
  /\ UNCHANGED <<keptIn, accounts, earlierSessions, cookies>>

AccountsNext ==
  \/ DisableAccount
  \/ \E w \in Windows :
       \/ SendRequest(w) \/ RunBootstrap(w)
       \/ FindLogin(w) \/ CreateSession(w)
       \/ FindSession(w) \/ FindUser(w) \/ TouchSession(w)
       \/ CheckMe(w) \/ CheckAnalyst(w) \/ CheckLogout(w) \/ RevokeSession(w)
       \/ CheckBootstrap(w) \/ CreateAccount(w) \/ TakeAnswer(w) \/ AnswerLost(w)

AccountsSpec == AccountsInit /\ [][AccountsNext]_accountVars

----------------------------------------------------------------------------
(***************************************************************************)
(* What has ended stays so: a request that is sent after a log-out, or     *)
(* after the account was disabled, gets no further than its session and    *)
(* its account, though requests that were sent before are still resolving  *)
(* and touching the same session.  The browser, in whatever order answers  *)
(* come, has the two cookies of one login or none, so that nobody who is   *)
(* logged in is refused for the CSRF token.                                *)
(***************************************************************************)
EndedStaysEnded ==
  /\ \A w \in Windows :
       requests[w] # NoRequest /\ requests[w].late
         => ~Is(w, Guarded, "KNOWN") /\ ~Is(w, Guarded, "RESOLVED")
            /\ ~Is(w, Guarded, "CHECKED")
  /\ cookies.session = cookies.csrf
=============================================================================
