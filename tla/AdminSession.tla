---------------------------- MODULE AdminSession ----------------------------
(***************************************************************************)
(* The administrator's session, from the row of admin_session to the tabs  *)
(* of the panel.  The browser keeps one cookie for every tab; each tab     *)
(* keeps a CSRF token of its own in React state and in sessionStorage      *)
(* (auth/AuthContext.tsx), sends its writes through apiRequest             *)
(* (api/http.ts) and, when one is refused for its session, opens one       *)
(* prompt that all its refused writes wait for (auth/sessionRecovery.ts,   *)
(* auth/SessionExpiredModal.tsx).  A login made in any tab replaces the    *)
(* session of all of them and is told to the others through localStorage.  *)
(*                                                                         *)
(* A session and its CSRF token are one value here, a number: the token is *)
(* a keyed hash of the cookie (auth/session.py) and names its session.     *)
(* Requests are served in one step and answered later, in any order; an    *)
(* answer may be lost on the way.                                          *)
(***************************************************************************)
EXTENDS Integers, Sequences, FiniteSets, TLC

CONSTANTS Tabs,          \* tabs of the one browser
          Writes,        \* the mutating calls the administrator makes
          MaxSessions,   \* bound: logins that succeed
          MaxFaults      \* bound: answers lost on the way, and reloads of a tab

ASSUME SessionAssumption == MaxSessions \in Nat \ {0} /\ MaxFaults \in Nat /\ "none" \notin Tabs

NoSession == 0
Failed == -1             \* in place of an answer: fetch rejected
SessionIds == 1..MaxSessions
Token == SessionIds \cup {NoSession}

VARIABLES live,      \* the sessions with a row that has not expired
          minted,    \* sessions created so far
          cookie,    \* the session cookie, shared by the tabs
          tab,       \* tab -> its React state
          me,        \* tab -> its GET /auth/me in flight
          enter,     \* tab -> its POST /auth/login in flight
          news,      \* tab -> storage events of other tabs, not yet handled
          write,     \* write -> its call
          applied,   \* write -> times the server carried it out (history)
          faults     \* answers lost and tabs reloaded so far

vars == <<live, minted, cookie, tab, me, enter, news, write, applied, faults>>

-----------------------------------------------------------------------------
(* Server: auth/session.py and the two dependencies of app/main.py         *)

\* get_session: the cookie names a row, in its window.
Accepts(s) == s \in live

\* require_csrf: 401 without a session, 403 with one and another's token.
CsrfVerdict(s, token) ==
  IF ~Accepts(s) THEN "401" ELSE IF token # s THEN "403" ELSE "ok"

\* The window of a session ends: 24 h without use, or 30 days when remembered.
\* Its row is deleted when a request finds it, or swept by a login.
Expire(s) ==
  /\ live' = live \ {s}
  /\ UNCHANGED <<minted, cookie, tab, me, enter, news, write, applied, faults>>

-----------------------------------------------------------------------------
(* Browser: the state of one tab                                           *)

Status == {"checking", "authenticated", "anonymous"}

\* AuthProvider's state, with the modal's "submitting".  waiter is both the
\* promise in reauthWaiterRef and sessionRecovery's "pending": the two are set
\* together, and pending is cleared by the settling of the other.
TabState == [status: Status, token: Token, stored: Token,
             prompt: BOOLEAN, waiter: BOOLEAN, submitting: BOOLEAN]

FreshTab(stored) == [status |-> "checking", token |-> stored, stored |-> stored,
                     prompt |-> FALSE, waiter |-> FALSE, submitting |-> FALSE]

Idle == [st |-> "idle"]
MeCall == {Idle, [st |-> "sent"]} \cup [st: {"answered"}, answer: Token \cup {Failed}]
LoginCall == {Idle} \cup [st: {"sent"}, cookie: Token] \cup [st: {"answered"}, answer: Token \cup {Failed}]
               \cup [st: {"confirming"}, token: SessionIds]

WriteState == {"new", "sent", "answered", "waiting", "done", "failed", "cancelled", "gone"}
Call == [st: WriteState, tab: Tabs \cup {"none"}, token: Token, retry: BOOLEAN,
         answer: {"none", "ok", "401", "403", "err"}]
NewCall == [st |-> "new", tab |-> "none", token |-> NoSession, retry |-> FALSE, answer |-> "none"]

WaitingOf(t) == {w \in Writes : write[w].tab = t /\ write[w].st = "waiting"}

\* Adopting a fresh token, as login and the storage listener both do: the
\* prompt closes and every write that waits for it is sent again, once.
Adopted(t, token) ==
  [tab EXCEPT ![t].token = token, ![t].stored = token,
              ![t].prompt = FALSE, ![t].waiter = FALSE, ![t].submitting = FALSE]
Resent_Forgotten(t, token) == write
Resent(t, token) ==
  [w \in Writes |->
     IF w \in WaitingOf(t)
       THEN [write[w] EXCEPT !.st = "sent", !.token = token, !.retry = TRUE]
       ELSE write[w]]

TypeOK ==
  /\ live \subseteq SessionIds
  /\ minted \in 0..MaxSessions
  /\ cookie \in Token
  /\ tab \in [Tabs -> TabState]
  /\ me \in [Tabs -> MeCall]
  /\ enter \in [Tabs -> LoginCall]
  /\ news \in [Tabs -> Seq(SessionIds)]
  /\ write \in [Writes -> Call]
  /\ applied \in [Writes -> Nat]
  /\ faults \in 0..MaxFaults

\* The panel is opened with no session, or with one left from an earlier visit.
Init ==
  /\ minted \in 0..1
  /\ cookie = minted
  /\ live = 1..minted
  /\ tab = [t \in Tabs |-> FreshTab(NoSession)]
  /\ me = [t \in Tabs |-> [st |-> "sent"]]
  /\ enter = [t \in Tabs |-> Idle]
  /\ news = [t \in Tabs |-> <<>>]
  /\ write = [w \in Writes |-> NewCall]
  /\ applied = [w \in Writes |-> 0]
  /\ faults = 0

-----------------------------------------------------------------------------
(* GET /auth/me at the start of a tab                                      *)

ServeMe(t) ==
  /\ me[t].st = "sent"
  /\ me' = [me EXCEPT ![t] = [st |-> "answered", answer |-> IF Accepts(cookie) THEN cookie ELSE NoSession]]
  /\ UNCHANGED <<live, minted, cookie, tab, enter, news, write, applied, faults>>

\* AuthProvider's first effect: a 401 (null) and a failure leave nobody.
IsAdmin_NotNull(answer) == answer # NoSession
IsAdmin(answer) == answer \in SessionIds
Boot(t) ==
  /\ me[t].st = "answered"
  /\ LET token == me[t].answer IN
     tab' = IF IsAdmin(token)
              THEN [tab EXCEPT ![t].status = "authenticated",
                               ![t].token = token, ![t].stored = token]
              ELSE [tab EXCEPT ![t].status = "anonymous"]
  /\ me' = [me EXCEPT ![t] = Idle]
  /\ UNCHANGED <<live, minted, cookie, enter, news, write, applied, faults>>

\* The tab is reloaded: its React state and its promises are gone, what it
\* sent may still be served.
Reload(t) ==
  /\ me[t] = Idle /\ enter[t] = Idle
  /\ tab[t].status # "checking"
  /\ faults < MaxFaults
  /\ faults' = faults + 1
  /\ tab' = [tab EXCEPT ![t] = FreshTab(@.stored)]
  /\ me' = [me EXCEPT ![t] = [st |-> "sent"]]
  /\ news' = [news EXCEPT ![t] = <<>>]
  /\ write' = [w \in Writes |->
                 IF write[w].tab # t THEN write[w]
                 ELSE [write[w] EXCEPT !.tab = "none",
                         !.st = IF @ \in {"waiting", "answered"} THEN "gone" ELSE @]]
  /\ UNCHANGED <<live, minted, cookie, enter, applied>>

-----------------------------------------------------------------------------
(* Login: the page's form, or the prompt over whatever page is open        *)

\* LoginPage offers the form to who is anonymous.
SubmitForm(t) ==
  /\ tab[t].status = "anonymous" /\ enter[t] = Idle
  /\ enter' = [enter EXCEPT ![t] = [st |-> "sent", cookie |-> cookie]]
  /\ UNCHANGED <<live, minted, cookie, tab, me, news, write, applied, faults>>

\* SessionExpiredModal, over the page that was open.
SubmitPrompt(t) ==
  /\ tab[t].prompt /\ ~tab[t].submitting /\ enter[t] = Idle
  /\ tab' = [tab EXCEPT ![t].submitting = TRUE]
  /\ enter' = [enter EXCEPT ![t] = [st |-> "sent", cookie |-> cookie]]
  /\ UNCHANGED <<live, minted, cookie, me, news, write, applied, faults>>

\* POST /auth/login with the right password: the session the cookie named is
\* deleted, another is minted.
ServeLogin(t) ==
  /\ enter[t].st = "sent" /\ minted < MaxSessions
  /\ LET new == minted + 1 IN
     /\ minted' = new
     /\ live' = (live \ {enter[t].cookie}) \cup {new}
     /\ enter' = [enter EXCEPT ![t] = [st |-> "answered", answer |-> new]]
  /\ UNCHANGED <<cookie, tab, me, news, write, applied, faults>>

RefuseLogin(t) ==
  /\ enter[t].st = "sent"
  /\ enter' = [enter EXCEPT ![t] = [st |-> "answered", answer |-> NoSession]]
  /\ UNCHANGED <<live, minted, cookie, tab, me, news, write, applied, faults>>

\* The answer of /auth/login reaches the tab: the browser stores the cookie,
\* login() the token, and asks who it is before it settles anything.
LoginAnswered(t) ==
  /\ enter[t].st = "answered" /\ enter[t].answer \in SessionIds
  /\ LET token == enter[t].answer IN
     /\ cookie' = token
     /\ tab' = [tab EXCEPT ![t].token = token, ![t].stored = token]
     /\ enter' = [enter EXCEPT ![t] = [st |-> "confirming", token |-> token]]
  /\ UNCHANGED <<live, minted, me, news, write, applied, faults>>

LoginRefused(t) ==
  /\ enter[t].st = "answered" /\ enter[t].answer \notin SessionIds
  /\ enter' = [enter EXCEPT ![t] = Idle]
  /\ tab' = [tab EXCEPT ![t].submitting = FALSE]
  /\ UNCHANGED <<live, minted, cookie, me, news, write, applied, faults>>

\* login() ends: prompt closed, other tabs told, waiting writes sent again.
\* A 401 of /auth/me changes nothing here but the administrator's number.
LoginConfirmed(t) ==
  /\ enter[t].st = "confirming"
  /\ LET token == enter[t].token IN
     /\ tab' = [tab EXCEPT ![t].status = "authenticated", ![t].prompt = FALSE,
                           ![t].waiter = FALSE, ![t].submitting = FALSE]
     /\ news' = [u \in Tabs |-> IF u = t THEN news[u] ELSE Append(news[u], token)]
     /\ write' = Resent(t, token)
  /\ enter' = [enter EXCEPT ![t] = Idle]
  /\ UNCHANGED <<live, minted, cookie, me, applied, faults>>

\* /auth/me failed: the token is new, the prompt stays open with an error.
LoginUnconfirmed(t) ==
  /\ enter[t].st = "confirming"
  /\ faults < MaxFaults
  /\ faults' = faults + 1
  /\ enter' = [enter EXCEPT ![t] = Idle]
  /\ tab' = [tab EXCEPT ![t].submitting = FALSE]
  /\ UNCHANGED <<live, minted, cookie, me, news, write, applied>>

\* onStorage: another tab has logged in.
TokenFromOtherTab(t) ==
  /\ news[t] # <<>>
  /\ tab' = Adopted(t, Head(news[t]))
  /\ write' = Resent(t, Head(news[t]))
  /\ news' = [news EXCEPT ![t] = Tail(@)]
  /\ UNCHANGED <<live, minted, cookie, me, enter, applied, faults>>

\* cancelReauth, from a button disabled while the password is being sent.
CancelPrompt(t) ==
  /\ tab[t].prompt /\ ~tab[t].submitting
  /\ tab' = [tab EXCEPT ![t].prompt = FALSE, ![t].waiter = FALSE]
  /\ write' = [w \in Writes |-> IF w \in WaitingOf(t)
                                  THEN [write[w] EXCEPT !.st = "cancelled"] ELSE write[w]]
  /\ UNCHANGED <<live, minted, cookie, me, enter, news, applied, faults>>

-----------------------------------------------------------------------------
(* Logout.  An answer lost after the deletion is Expire.                   *)

\* logout(): signed out, or told that there was no session to leave (401) or
\* that the token is another session's (403), the tab forgets.  Call and answer
\* are one step: nothing of the tab depends on the moment between them.
Logout(t) ==
  /\ tab[t].status = "authenticated"
  /\ LET verdict == CsrfVerdict(cookie, tab[t].token) IN
     /\ live' = IF verdict = "ok" THEN live \ {cookie} ELSE live
     /\ cookie' = IF verdict = "ok" THEN NoSession ELSE cookie
  /\ tab' = [tab EXCEPT ![t].status = "anonymous", ![t].token = NoSession, ![t].stored = NoSession]
  /\ UNCHANGED <<minted, me, enter, news, write, applied, faults>>

-----------------------------------------------------------------------------
(* The pages' reads and writes, through apiRequest                         *)

\* Every page reads csrfToken when the button is pressed and refuses without.
Send(w, t) ==
  /\ write[w].st = "new"
  /\ tab[t].status = "authenticated" /\ tab[t].token # NoSession
  /\ write' = [write EXCEPT ![w] = [NewCall EXCEPT !.st = "sent", !.tab = t, !.token = tab[t].token]]
  /\ UNCHANGED <<live, minted, cookie, tab, me, enter, news, applied, faults>>

\* The server checks the session and the token, and carries the write out.  The
\* cookie is read here and not at Send: a login in between deletes the session
\* of the older cookie, which refuses the write all the same.
Serve(w) ==
  /\ write[w].st = "sent"
  /\ LET verdict == CsrfVerdict(cookie, write[w].token) IN
     /\ write' = [write EXCEPT ![w].st = "answered", ![w].answer = verdict]
     /\ applied' = [applied EXCEPT ![w] = IF verdict = "ok" THEN @ + 1 ELSE @]
  /\ UNCHANGED <<live, minted, cookie, tab, me, enter, news, faults>>

\* isSessionExpired, on a write that was not sent again yet.
SessionRefused_AnyFailure(w) == write[w].answer # "ok" /\ ~write[w].retry
SessionRefused(w) == write[w].answer \in {"401", "403"} /\ ~write[w].retry

Settle(w) ==
  /\ write[w].st = "answered" /\ write[w].tab \in Tabs /\ ~SessionRefused(w)
  /\ write' = [write EXCEPT ![w].st = IF write[w].answer = "ok" THEN "done" ELSE "failed"]
  /\ UNCHANGED <<live, minted, cookie, tab, me, enter, news, applied, faults>>

\* requestReauth: the first refused write opens the prompt, the others join it.
AskAgain(w) ==
  /\ write[w].st = "answered" /\ write[w].tab \in Tabs /\ SessionRefused(w)
  /\ write' = [write EXCEPT ![w].st = "waiting", ![w].answer = "none"]
  /\ LET t == write[w].tab IN
     tab' = IF tab[t].waiter THEN tab
            ELSE [tab EXCEPT ![t].prompt = TRUE, ![t].waiter = TRUE]
  /\ UNCHANGED <<live, minted, cookie, me, enter, news, applied, faults>>

-----------------------------------------------------------------------------
(* The network loses a request or its answer: fetch rejects                *)

LoseWrite(w) ==
  /\ write[w].st \in {"sent", "answered"} /\ write[w].answer # "err"
  /\ write' = [write EXCEPT ![w].st = "answered", ![w].answer = "err"]
  /\ UNCHANGED <<me, enter>>

LoseMe(t) ==
  /\ me[t].st = "sent"
  /\ me' = [me EXCEPT ![t] = [st |-> "answered", answer |-> Failed]]
  /\ UNCHANGED <<write, enter>>

LoseLogin(t) ==
  /\ enter[t].st \in {"sent", "answered"}
  /\ enter' = [enter EXCEPT ![t] = [st |-> "answered", answer |-> Failed]]
  /\ UNCHANGED <<write, me>>

Lose ==
  /\ faults < MaxFaults
  /\ faults' = faults + 1
  /\ \/ \E w \in Writes : LoseWrite(w)
     \/ \E t \in Tabs : LoseMe(t) \/ LoseLogin(t)
  /\ UNCHANGED <<live, minted, cookie, tab, news, applied>>

-----------------------------------------------------------------------------
TabStep(t) ==
  \/ ServeMe(t) \/ Boot(t) \/ Reload(t)
  \/ SubmitForm(t)
  \/ SubmitPrompt(t) \/ ServeLogin(t) \/ RefuseLogin(t)
  \/ LoginAnswered(t) \/ LoginRefused(t) \/ LoginConfirmed(t) \/ LoginUnconfirmed(t)
  \/ TokenFromOtherTab(t) \/ CancelPrompt(t)
  \/ Logout(t)

WriteStep(w) == (\E t \in Tabs : Send(w, t)) \/ Serve(w) \/ Settle(w) \/ AskAgain(w)

Next ==
  \/ \E s \in live : Expire(s)
  \/ (\E t \in Tabs : TabStep(t))
  \/ (\E w \in Writes : WriteStep(w))
  \/ Lose

Spec == Init /\ [][Next]_vars

-----------------------------------------------------------------------------
(* Properties                                                              *)

\* A mutating call is carried out at most once however often the session runs
\* out under it, and its caller is told the truth: done means carried out,
\* cancelled at the prompt means it never was (apiRequest, _isRetry).
AppliedAtMostOnce ==
  \A w \in Writes :
    /\ applied[w] <= 1
    /\ write[w].st = "done" => applied[w] = 1
    /\ write[w].st \in {"waiting", "cancelled"} => applied[w] = 0

\* Nothing waits for a password nobody is asked for: a refused write waits
\* exactly while its own tab shows the prompt, whichever tab logs in, and
\* however the prompt is closed (sessionRecovery.ts, AuthContext.tsx).
WaitersHaveAPrompt ==
  \A t \in Tabs : /\ tab[t].prompt <=> tab[t].waiter
                  /\ tab[t].waiter <=> WaitingOf(t) # {}

-----------------------------------------------------------------------------
\* For TLC: tabs and writes are interchangeable, and what is checked is an invariant.
Interchangeable == Permutations(Tabs) \cup Permutations(Writes)
=============================================================================
