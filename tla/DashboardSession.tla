-------------------------- MODULE DashboardSession --------------------------
(***************************************************************************)
(* The session of the dashboard and of the portal, in the tabs of one      *)
(* browser.  The tabs share its cookies, the session and the CSRF token,   *)
(* and each keeps for itself whom it shows and the CSRF token it was given *)
(* last; the cookie goes first.  The answers to the calls of two tabs may  *)
(* arrive in any order, be lost, or set a cookie that belongs to a session *)
(* which another tab has replaced; me gives the session a new CSRF token   *)
(* whenever the one it is sent does not belong to it.                      *)
(*                                                                         *)
(* The API serves a call in one step, and an answer sets its cookies and   *)
(* reaches its tab in one.                                                 *)
(***************************************************************************)
EXTENDS Naturals, Sequences

CONSTANTS
  Tabs,
  Officers,        \* users of the dashboard
  WebEmployees,    \* the employments of one person
  MaxWebSessions,  \* bound on the sessions that the API opens
  MaxWebTokens,    \* bound on the CSRF tokens that it issues
  Anonymous,       \* no principal
  NoWebCall

VARIABLES
  webRows,    \* sessions and employee_sessions; the token is the place here
  webIssued,  \* the CSRF tokens issued
  jar,        \* the cookies payhub_session and payhub_csrf; 0 when not set
  tabs,
  webCalls,   \* the call of a tab that is under way
  calm        \* the tab whose call, with nothing beside it, was the last one

webVars == <<webRows, webIssued, jar, tabs, webCalls, calm>>

----------------------------------------------------------------------------
Principals == Officers \cup WebEmployees

Cookies == [token : 0 .. MaxWebSessions, csrf : 0 .. MaxWebTokens]

NoCookies == [token |-> 0, csrf |-> 0]

\* csrf: sessionStorage; selecting: pendingSelection.
Tab == [open : BOOLEAN, principal : Principals \cup {Anonymous},
        csrf : 0 .. MaxWebTokens, selecting : BOOLEAN]

\* sent: the session cookie and the CSRF token, of the cookie or the header;
\* sets: which cookies the answer sets, to what is in it.
WebCall ==
  [kind : {"ME", "LOGIN", "SELECT", "SWITCH", "LOGOUT"},
   stage : {"ASKED", "ANSWERED", "REFUSED", "LOST"}, sent : Cookies,
   sets : SUBSET {"token", "csrf"}, answer : Cookies,
   who : Principals \cup {Anonymous}, select : BOOLEAN, alone : BOOLEAN]

ASSUME DashboardSessionAssumption ==
  /\ MaxWebSessions \in Nat /\ MaxWebTokens \in Nat
  /\ NoWebCall \notin WebCall

WebTypeOK ==
  /\ webRows \in Seq([who : Principals, csrf : 1 .. MaxWebTokens, live : BOOLEAN])
  /\ Len(webRows) <= MaxWebSessions
  /\ webIssued \in 0 .. MaxWebTokens
  /\ jar \in Cookies
  /\ tabs \in [Tabs -> Tab]
  /\ webCalls \in [Tabs -> WebCall \cup {NoWebCall}]
  /\ calm \in SUBSET Tabs

WebInit ==
  /\ webRows = <<>> /\ webIssued = 0
  /\ jar = NoCookies
  /\ tabs = [t \in Tabs |-> [open |-> FALSE, principal |-> Anonymous, csrf |-> 0,
                             selecting |-> FALSE]]
  /\ webCalls = [t \in Tabs |-> NoWebCall]
  /\ calm = {}

----------------------------------------------------------------------------
(* The tabs ask.                                                           *)

\* Mutant: what the tab was given last goes first.
OwnTokenFirst(t) == IF tabs[t].csrf # 0 THEN tabs[t].csrf ELSE jar.csrf

\* currentCsrfToken, for the header.
CurrentCsrfToken(t) == IF jar.csrf # 0 THEN jar.csrf ELSE tabs[t].csrf

Asking(t, kind, cookies, csrf) ==
  [u \in Tabs |->
     CASE u = t ->
            [kind |-> kind, stage |-> "ASKED",
             sent |-> [cookies EXCEPT !.csrf = csrf], sets |-> {},
             answer |-> NoCookies, who |-> Anonymous, select |-> FALSE,
             alone |-> \A v \in Tabs \ {t} : webCalls[v] = NoWebCall]
       [] u # t /\ webCalls[u] # NoWebCall -> [webCalls[u] EXCEPT !.alone = FALSE]
       [] OTHER -> NoWebCall]

\* A page is opened, or loaded again: me, which sends no header.
LoadPage(t) ==
  /\ webCalls[t] = NoWebCall
  /\ tabs' = [tabs EXCEPT ![t].open = TRUE, ![t].principal = Anonymous,
                          ![t].selecting = FALSE]
  /\ webCalls' = Asking(t, "ME", jar, jar.csrf)
  /\ UNCHANGED <<webRows, webIssued, jar, calm>>

PostCall(t, kind) ==
  /\ tabs[t].open /\ webCalls[t] = NoWebCall
  /\ webCalls' = Asking(t, kind, jar, CurrentCsrfToken(t))
  /\ UNCHANGED <<webRows, webIssued, jar, tabs, calm>>

SubmitLogin(t) ==
  tabs[t].principal = Anonymous /\ ~tabs[t].selecting /\ PostCall(t, "LOGIN")

ChooseCompany(t) == tabs[t].selecting /\ PostCall(t, "SELECT")

CancelCompanySelection(t) ==
  /\ tabs[t].selecting /\ webCalls[t] = NoWebCall
  /\ tabs' = [tabs EXCEPT ![t].selecting = FALSE, ![t].csrf = 0]
  /\ UNCHANGED <<webRows, webIssued, jar, webCalls, calm>>

ChangeCompany(t) == tabs[t].principal \in WebEmployees /\ PostCall(t, "SWITCH")

PressExit(t) == tabs[t].principal # Anonymous /\ PostCall(t, "LOGOUT")

----------------------------------------------------------------------------
(* The API serves.                                                         *)

SessionLives(sent) == sent.token # 0 /\ webRows[sent.token].live

CsrfMatches(sent) == SessionLives(sent) /\ webRows[sent.token].csrf = sent.csrf

Reply(t, who, sets, answer) ==
  webCalls' = [webCalls EXCEPT ![t].stage = "ANSWERED", ![t].who = who,
                               ![t].sets = sets, ![t].answer = answer]

TurnDown(t) ==
  /\ webCalls' = [webCalls EXCEPT ![t].stage = "REFUSED"]
  /\ UNCHANGED <<webRows, webIssued>>

\* The response carries both cookies.
OpenWebSession(t, given, who) ==
  /\ Len(webRows) < MaxWebSessions
  /\ webIssued < MaxWebTokens /\ webIssued' = webIssued + 1
  /\ webRows' = Append(given, [who |-> who, csrf |-> webIssued + 1, live |-> TRUE])
  /\ Reply(t, who, {"token", "csrf"},
           [token |-> Len(webRows) + 1, csrf |-> webIssued + 1])

\* refreshCsrf
RefreshCsrf(n) ==
  /\ webIssued < MaxWebTokens /\ webIssued' = webIssued + 1
  /\ webRows' = [webRows EXCEPT ![n].csrf = webIssued + 1]

EndSession(n) == [webRows EXCEPT ![n].live = FALSE]

\* Without a session no error; with another CSRF token, a new one.
ServeWebMe(t, sent) ==
  \/ /\ ~SessionLives(sent)
     /\ Reply(t, Anonymous, {}, NoCookies)
     /\ UNCHANGED <<webRows, webIssued>>
  \/ /\ CsrfMatches(sent)
     /\ Reply(t, webRows[sent.token].who, {}, sent)
     /\ UNCHANGED <<webRows, webIssued>>
  \/ /\ SessionLives(sent) /\ ~CsrfMatches(sent)
     /\ RefreshCsrf(sent.token)
     /\ Reply(t, webRows[sent.token].who, {"csrf"},
              [sent EXCEPT !.csrf = webIssued + 1])

\* adminLogin.  The user may be unknown or disabled, or the password wrong.
ServeAdminLogin(t) ==
  TurnDown(t) \/ \E officer \in Officers : OpenWebSession(t, webRows, officer)

\* employeeLogin: a person with several employments has to choose first.
ServeEmployeeLogin(t) ==
  \/ \E link \in WebEmployees : OpenWebSession(t, webRows, link)
  \/ /\ webCalls' = [webCalls EXCEPT ![t].stage = "ANSWERED", ![t].select = TRUE]
     /\ UNCHANGED <<webRows, webIssued>>

\* The choice may have expired, or be used up.
ServeSelectCompany(t) ==
  TurnDown(t) \/ \E link \in WebEmployees : OpenWebSession(t, webRows, link)

\* requireEmployee and csrf; the session that asks ends with the next one.
ServeSwitchCompany(t, sent) ==
  IF CsrfMatches(sent) /\ webRows[sent.token].who \in WebEmployees
  THEN \E link \in WebEmployees \ {tabs[t].principal} :
         OpenWebSession(t, EndSession(sent.token), link)
  ELSE TurnDown(t)

\* requireAuth and csrf; both cookies are cleared.
ServeWebLogout(t, sent) ==
  IF CsrfMatches(sent)
  THEN /\ webRows' = EndSession(sent.token)
       /\ Reply(t, Anonymous, {"token", "csrf"}, NoCookies)
       /\ UNCHANGED webIssued
  ELSE TurnDown(t)

ServeTab(t) ==
  /\ webCalls[t] # NoWebCall /\ webCalls[t].stage = "ASKED"
  /\ LET kind == webCalls[t].kind  sent == webCalls[t].sent
     IN \/ kind = "ME" /\ ServeWebMe(t, sent)
        \/ kind = "LOGIN" /\ (ServeAdminLogin(t) \/ ServeEmployeeLogin(t))
        \/ kind = "SELECT" /\ ServeSelectCompany(t)
        \/ kind = "SWITCH" /\ ServeSwitchCompany(t, sent)
        \/ kind = "LOGOUT" /\ ServeWebLogout(t, sent)
  /\ UNCHANGED <<jar, tabs, calm>>

\* The call fails on its way, or its answer, cookies and all.
LoseAnswer(t) ==
  /\ webCalls[t] # NoWebCall /\ webCalls[t].stage \in {"ASKED", "ANSWERED"}
  /\ webCalls' = [webCalls EXCEPT ![t].stage = "LOST"]
  /\ calm' = {}
  /\ UNCHANGED <<webRows, webIssued, jar, tabs>>

\* The session expires, the user is disabled, or the PIN is reset.
SessionEnds ==
  /\ \E n \in DOMAIN webRows : webRows[n].live /\ webRows' = EndSession(n)
  /\ webCalls' = [t \in Tabs |->
       IF webCalls[t] = NoWebCall THEN NoWebCall
       ELSE [webCalls[t] EXCEPT !.alone = FALSE]]
  /\ calm' = {}
  /\ UNCHANGED <<webIssued, jar, tabs>>

----------------------------------------------------------------------------
(* The tabs take what comes back.                                          *)

Shows(t, who, csrf, selecting) ==
  tabs' = [tabs EXCEPT ![t] = [open |-> TRUE, principal |-> who, csrf |-> csrf,
                               selecting |-> selecting]]

\* applyAuthenticatedSession, applyOutcome, applyCurrentSession and logout;
\* switchCompany goes on with me.
TakeReply(t) ==
  /\ webCalls[t] # NoWebCall /\ webCalls[t].stage = "ANSWERED"
  /\ LET call == webCalls[t]
         cookies == [c \in DOMAIN jar |->
                       IF c \in call.sets THEN call.answer[c] ELSE jar[c]]
     IN /\ jar' = cookies
        /\ Shows(t, call.who, call.answer.csrf, call.select)
        /\ webCalls' = IF call.kind = "SWITCH" THEN Asking(t, "ME", cookies, cookies.csrf)
                       ELSE [webCalls EXCEPT ![t] = NoWebCall]
        /\ calm' = CASE ~call.alone -> {}
                     [] call.alone /\ call.select -> calm
                     [] OTHER -> {t}
  /\ UNCHANGED <<webRows, webIssued>>

\* me and logout leave nothing, a selection that was refused is over; the
\* others throw.
TakeError(t) ==
  /\ webCalls[t] # NoWebCall /\ webCalls[t].stage \in {"REFUSED", "LOST"}
  /\ LET call == webCalls[t]
     IN IF \/ call.kind \in {"ME", "LOGOUT"}
           \/ call.kind = "SELECT" /\ call.stage = "REFUSED"
        THEN Shows(t, Anonymous, 0, FALSE)
        ELSE UNCHANGED tabs
  /\ webCalls' = [webCalls EXCEPT ![t] = NoWebCall]
  /\ calm' = IF webCalls[t].alone THEN calm ELSE {}
  /\ UNCHANGED <<webRows, webIssued, jar>>

WebNext ==
  \/ SessionEnds
  \/ \E t \in Tabs :
       \/ LoadPage(t) \/ SubmitLogin(t) \/ ChooseCompany(t)
       \/ CancelCompanySelection(t) \/ ChangeCompany(t) \/ PressExit(t)
       \/ ServeTab(t) \/ LoseAnswer(t) \/ TakeReply(t) \/ TakeError(t)

WebSpec == WebInit /\ [][WebNext]_webVars

----------------------------------------------------------------------------
(***************************************************************************)
(* However the answers of the tabs have crossed before, once a call of one *)
(* tab has run alone its tab shows whom the browser is logged in as, and   *)
(* nobody when its log-out has gone through; and from then on every tab,   *)
(* with whatever token it was given, passes the CSRF check for the session *)
(* of the browser, until calls overlap, are lost or the session ends.      *)
(***************************************************************************)
BrowserRecovers ==
  calm # {} /\ (\A t \in Tabs : webCalls[t] = NoWebCall) =>
    /\ \A t \in calm :
         tabs[t].principal =
           IF SessionLives(jar) THEN webRows[jar.token].who ELSE Anonymous
    /\ SessionLives(jar) =>
         \A t \in Tabs : CsrfMatches([jar EXCEPT !.csrf = CurrentCsrfToken(t)])
=============================================================================
