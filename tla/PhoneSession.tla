---------------------------- MODULE PhoneSession ----------------------------
(***************************************************************************)
(* The session of an employee's phone: the API's row, with the hash of the *)
(* CSRF token that unsafe requests must bring; the two secrets in the      *)
(* app's memory and, under two keys, in the secure store of the device;    *)
(* and the employment that the app shows.  The app may be killed at any    *)
(* step, an answer may be lost, and a call may begin while another is      *)
(* under way: the sheet that switches companies closes while it works.     *)
(***************************************************************************)
EXTENDS Naturals, Sequences

CONSTANTS
  Employers,    \* the companies of the person
  MaxSessions,  \* bound on the sessions that the API opens
  MaxTokens,    \* bound on the CSRF tokens that it issues
  MaxCalls,     \* bound on the calls of the app under way at once
  Nobody        \* no principal is shown

ASSUME PhoneSessionAssumption ==
  /\ MaxSessions \in Nat /\ MaxTokens \in Nat
  /\ MaxCalls \in Nat \ {0}
  /\ Nobody \notin Employers

VARIABLES
  rows,     \* employee_sessions; the token of a session is its place here
  issued,   \* the CSRF tokens issued
  memory,   \* accessToken and csrfToken; 0 is the empty string
  store,    \* what SecureStore holds of them
  shown,    \* principal of the AuthProvider
  opened,   \* the app runs
  pending,    \* the calls under way
  crossed   \* a call has begun while another was under way

phoneVars == <<rows, issued, memory, store, shown, opened, pending, crossed>>

Secrets == [token : 0 .. MaxSessions, csrf : 0 .. MaxTokens]

NoSecrets == [token |-> 0, csrf |-> 0]

\* stage: ASKED, then ANSWERED or FAILED, then WRITING and perhaps SAVING.
Call == [kind : {"ME", "LOGIN", "SWITCH", "LOGOUT"},
         stage : {"ASKED", "ANSWERED", "FAILED", "WRITING", "CLEARING"},
         sent : Secrets,                      \* the headers
         answer : Secrets, who : Employers \cup {Nobody},
         writes : SUBSET {"token", "csrf"},   \* those the store still owes
         here : BOOLEAN]                      \* its page is still there

NoCall == [kind |-> "NONE"]

PhoneTypeOK ==
  /\ rows \in Seq([employer : Employers, csrf : 1 .. MaxTokens, live : BOOLEAN])
  /\ Len(rows) <= MaxSessions
  /\ issued \in 0 .. MaxTokens
  /\ memory \in Secrets /\ store \in Secrets
  /\ shown \in Employers \cup {Nobody}
  /\ opened \in BOOLEAN /\ crossed \in BOOLEAN
  /\ pending \in [1 .. MaxCalls -> Call \cup {NoCall}]

PhoneInit ==
  /\ rows = <<>> /\ issued = 0
  /\ memory = NoSecrets /\ store = NoSecrets
  /\ shown = Nobody
  /\ opened = FALSE
  /\ pending = [i \in 1 .. MaxCalls |-> NoCall]
  /\ crossed = FALSE

----------------------------------------------------------------------------
(* The calls begin.                                                          *)

Running(kind) ==
  {i \in DOMAIN pending : pending[i] # NoCall /\ pending[i].kind = kind}

\* request: whatever the memory holds goes along.
Begin(kind, secrets) ==
  \E i \in DOMAIN pending :
    /\ pending[i] = NoCall
    /\ pending' = [pending EXCEPT ![i] =
         [kind |-> kind, stage |-> "ASKED", sent |-> secrets,
          answer |-> NoSecrets, who |-> Nobody, writes |-> {}, here |-> TRUE]]
    /\ crossed' = (crossed \/ \E j \in DOMAIN pending : pending[j] # NoCall)

\* restoreSessionSecrets, then me.  Nothing else begins while it loads.
OpenApp ==
  /\ ~ opened
  /\ opened' = TRUE
  /\ memory' = store
  /\ Begin("ME", store)
  /\ UNCHANGED <<rows, issued, store, shown>>

Loading == Running("ME") # {}

\* login, firstAccess and selectCompany: the page disables its buttons.
PressLogin ==
  /\ opened /\ ~ Loading
  /\ shown = Nobody
  /\ Running("LOGIN") = {}
  /\ Begin("LOGIN", memory)
  /\ UNCHANGED <<rows, issued, memory, store, shown, opened>>

\* The sheet offers the other companies, unless it has a switch under way.
PressSwitch ==
  /\ opened /\ ~ Loading
  /\ shown # Nobody
  /\ \A i \in Running("SWITCH") : ~ pending[i].here
  /\ Begin("SWITCH", memory)
  /\ UNCHANGED <<rows, issued, memory, store, shown, opened>>

PressLogout ==
  /\ opened /\ ~ Loading
  /\ shown # Nobody
  /\ Begin("LOGOUT", memory)
  /\ UNCHANGED <<rows, issued, memory, store, shown, opened>>

----------------------------------------------------------------------------
(* The API answers.                                                        *)

\* authenticate: the session that the bearer token names, if it lives.
Authenticated(sent) == sent.token # 0 /\ rows[sent.token].live

\* The middleware of switch-company and logout.
CsrfAccepted(sent) ==
  Authenticated(sent) /\ sent.csrf = rows[sent.token].csrf

Answer(i, secrets, who) ==
  pending' = [pending EXCEPT ![i].stage = "ANSWERED", ![i].answer = secrets,
                         ![i].who = who]

Refuse(i) == pending' = [pending EXCEPT ![i].stage = "FAILED"]

\* A me that hands back the CSRF token it is given.
ServeMeEchoes(i) ==
  LET sent == pending[i].sent
  IN /\ UNCHANGED <<rows, issued>>
     /\ IF Authenticated(sent) THEN Answer(i, sent, rows[sent.token].employer)
        ELSE Answer(i, NoSecrets, Nobody)

\* /api/auth/me: no session is no error; a CSRF token that is not the
\* session's is replaced.
ServeMe(i) ==
  LET sent == pending[i].sent  who == rows[sent.token].employer
  IN \/ /\ ~ Authenticated(sent)
        /\ Answer(i, NoSecrets, Nobody)
        /\ UNCHANGED <<rows, issued>>
     \/ /\ CsrfAccepted(sent)
        /\ Answer(i, sent, who)
        /\ UNCHANGED <<rows, issued>>
     \/ /\ Authenticated(sent) /\ ~ CsrfAccepted(sent)
        /\ issued < MaxTokens /\ issued' = issued + 1
        /\ rows' = [rows EXCEPT ![sent.token].csrf = issued + 1]
        /\ Answer(i, [sent EXCEPT !.csrf = issued + 1], who)

\* A session for that company, with tokens of its own.
OpenRow(i, given, employer) ==
  /\ Len(rows) < MaxSessions
  /\ issued < MaxTokens /\ issued' = issued + 1
  /\ rows' = Append(given, [employer |-> employer, csrf |-> issued + 1,
                            live |-> TRUE])
  /\ Answer(i, [token |-> Len(rows) + 1, csrf |-> issued + 1], employer)

ServeLogin(i) == \E employer \in Employers : OpenRow(i, rows, employer)

RowRevoked(token) == [rows EXCEPT ![token].live = FALSE]

\* switch-company ends the session that asks and opens the next, at once.
ServeSwitch(i) ==
  LET sent == pending[i].sent
  IN \/ /\ CsrfAccepted(sent)
        /\ \E employer \in Employers \ {rows[sent.token].employer} :
             OpenRow(i, RowRevoked(sent.token), employer)
     \/ /\ ~ CsrfAccepted(sent)
        /\ Refuse(i)
        /\ UNCHANGED <<rows, issued>>

ServeLogout(i) ==
  LET sent == pending[i].sent
  IN \/ /\ CsrfAccepted(sent)
        /\ rows' = RowRevoked(sent.token)
        /\ Answer(i, NoSecrets, Nobody)
        /\ UNCHANGED issued
     \/ /\ ~ CsrfAccepted(sent)
        /\ Refuse(i)
        /\ UNCHANGED <<rows, issued>>

Serve(i) ==
  /\ pending[i] # NoCall /\ pending[i].stage = "ASKED"
  /\ CASE pending[i].kind = "ME" -> ServeMe(i)
       [] pending[i].kind = "LOGIN" -> ServeLogin(i)
       [] pending[i].kind = "SWITCH" -> ServeSwitch(i)
       [] pending[i].kind = "LOGOUT" -> ServeLogout(i)
  /\ UNCHANGED <<memory, store, shown, opened, crossed>>

\* The request or its answer is lost, or the API fails.
LoseCall(i) ==
  /\ pending[i] # NoCall /\ pending[i].stage \in {"ASKED", "ANSWERED"}
  /\ Refuse(i)
  /\ UNCHANGED <<rows, issued, memory, store, shown, opened, crossed>>

\* A PIN is reset, the person is disabled, or the session expires.
ServerEnds ==
  /\ \E n \in DOMAIN rows : rows[n].live /\ rows' = RowRevoked(n)
  /\ UNCHANGED <<issued, memory, store, shown, opened, pending, crossed>>

----------------------------------------------------------------------------
(* The app takes the answer.                                               *)

\* The memory changes at once; the store is owed the keys.
Puts(i, secrets, keys, stage) ==
  /\ memory' = secrets
  /\ pending' = [pending EXCEPT ![i].writes = keys, ![i].answer = secrets,
                            ![i].stage = stage]

\* me: setCsrf with what the API said.
TakeCsrf(i) ==
  /\ pending[i].kind = "ME" /\ pending[i].stage = "ANSWERED"
  /\ pending[i].who # Nobody
  /\ Puts(i, [memory EXCEPT !.csrf = pending[i].answer.csrf], {"csrf"}, "WRITING")

\* persistOutcome: saveSession.
TakeSession(i) ==
  /\ pending[i].kind = "LOGIN" /\ pending[i].stage = "ANSWERED"
  /\ Puts(i, pending[i].answer, {"token", "csrf"}, "WRITING")

\* switchCompany: clearSession first, while the call keeps the new secrets.
TakeSwitch(i) ==
  /\ pending[i].kind = "SWITCH" /\ pending[i].stage = "ANSWERED"
  /\ memory' = NoSecrets
  /\ pending' = [pending EXCEPT ![i].writes = {"token", "csrf"},
                            ![i].stage = "CLEARING"]

\* refresh without a principal or with an error; logout whatever came back.
ClearSession(i) ==
  /\ \/ pending[i].kind = "LOGOUT" /\ pending[i].stage \in {"ANSWERED", "FAILED"}
     \/ pending[i].kind = "ME" /\ pending[i].stage = "FAILED"
     \/ pending[i].kind = "ME" /\ pending[i].stage = "ANSWERED" /\ pending[i].who = Nobody
  /\ Puts(i, NoSecrets, {"token", "csrf"}, "WRITING")

GiveUp(i) ==
  /\ pending[i].kind \in {"LOGIN", "SWITCH"} /\ pending[i].stage = "FAILED"
  /\ pending' = [pending EXCEPT ![i] = NoCall]
  /\ UNCHANGED memory

Take(i) ==
  /\ pending[i] # NoCall
  /\ \/ TakeCsrf(i) \/ TakeSession(i) \/ TakeSwitch(i)
     \/ ClearSession(i) \/ GiveUp(i)
  /\ UNCHANGED <<rows, issued, store, shown, opened, crossed>>

\* One key of the store is written or deleted, in either order.
WriteKey(i) ==
  /\ pending[i] # NoCall /\ pending[i].stage \in {"WRITING", "CLEARING"}
  /\ \E key \in pending[i].writes :
       /\ store' = [store EXCEPT ![key] =
            IF pending[i].stage = "CLEARING" THEN 0 ELSE pending[i].answer[key]]
       /\ pending' = [pending EXCEPT ![i].writes = @ \ {key}]
  /\ UNCHANGED <<rows, issued, memory, shown, opened, crossed>>

\* switchCompany: saveSession once clearSession is through.
SaveSession(i) ==
  /\ pending[i] # NoCall /\ pending[i].stage = "CLEARING" /\ pending[i].writes = {}
  /\ Puts(i, pending[i].answer, {"token", "csrf"}, "WRITING")
  /\ UNCHANGED <<rows, issued, store, shown, opened, crossed>>

\* setPrincipal.  Who logs out, or has no session, leaves the pages.
Finish(i) ==
  /\ pending[i] # NoCall /\ pending[i].stage = "WRITING" /\ pending[i].writes = {}
  /\ LET who == IF pending[i].answer.token = 0 THEN Nobody ELSE pending[i].who
     IN /\ shown' = who
        /\ pending' = [j \in DOMAIN pending |->
             IF j = i THEN NoCall
             ELSE IF pending[j] # NoCall /\ who = Nobody
                  THEN [pending[j] EXCEPT !.here = FALSE]
                  ELSE pending[j]]
  /\ UNCHANGED <<rows, issued, memory, store, opened, crossed>>

\* The system ends the app; what the store is owed is lost.
Kill ==
  /\ opened
  /\ opened' = FALSE
  /\ memory' = NoSecrets /\ shown' = Nobody
  /\ pending' = [i \in DOMAIN pending |-> NoCall]
  /\ crossed' = FALSE
  /\ UNCHANGED <<rows, issued, store>>

PhoneNext ==
  \/ OpenApp \/ PressLogin \/ PressSwitch \/ PressLogout \/ ServerEnds \/ Kill
  \/ \E i \in DOMAIN pending :
       Serve(i) \/ LoseCall(i) \/ Take(i) \/ WriteKey(i) \/ SaveSession(i)
         \/ Finish(i)

PhoneSpec == PhoneInit /\ [][PhoneNext]_phoneVars

----------------------------------------------------------------------------
\* Once the app has loaded, the CSRF token in its memory is the one that the
\* API holds for the session in its memory, as long as that session lives,
\* though the app may have died between the two writes of the store and the
\* API may have issued a token whose answer was lost: me repairs the pair.
\* And the app, when idle, shows the employment of that session, if its calls
\* did not overlap.
ShownSessionCanAct ==
  LET session == rows[memory.token]
  IN opened /\ ~ Loading =>
       /\ memory.token # 0 /\ session.live => memory.csrf = session.csrf
       /\ shown # Nobody /\ ~ crossed
            /\ (\A i \in DOMAIN pending : pending[i] = NoCall)
          => memory.token # 0 /\ session.employer = shown
=============================================================================
