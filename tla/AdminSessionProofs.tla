-------------------------- MODULE AdminSessionProofs -------------------------
(***************************************************************************)
(* Theorems about AdminSession, for any tabs, writes and sessions, and any *)
(* number of lost answers and reloads.                                     *)
(***************************************************************************)
EXTENDS AdminSession, TLAPS

\* How often a write was carried out, by where its call stands: once more than
\* it was answered only while, or after, its answer was lost.
AppliedInv ==
  \A w \in Writes :
    /\ applied[w] <= 1
    /\ write[w].st \in {"new", "sent", "waiting", "cancelled"} => applied[w] = 0
    /\ write[w].st = "answered" /\ write[w].answer \in {"401", "403"} => applied[w] = 0
    /\ write[w].st = "answered" /\ write[w].answer = "ok" => applied[w] = 1
    /\ write[w].st = "answered" => write[w].answer # "none"
    /\ write[w].st = "done" => applied[w] = 1

\* The part of TypeOK that the properties rest on.
WriteType == write \in [Writes -> Call] /\ applied \in [Writes -> Nat]
TabType == tab \in [Tabs -> TabState]

\* Sessions and their tokens: what a call or a tab can name.
SessionType ==
  /\ live \subseteq SessionIds
  /\ minted \in 0..MaxSessions
  /\ cookie \in Token
  /\ me \in [Tabs -> MeCall]
  /\ enter \in [Tabs -> LoginCall]
  /\ news \in [Tabs -> Seq(SessionIds)]
  /\ faults \in 0..MaxFaults

\* A token that is adopted by a write or a tab is a token.
LEMMA ResentType ==
  ASSUME WriteType, NEW t \in Tabs, NEW token \in Token
  PROVE  /\ Resent(t, token) \in [Writes -> Call]
         /\ \A w \in Writes : w \in WaitingOf(t) =>
              Resent(t, token)[w] = [write[w] EXCEPT !.st = "sent", !.token = token, !.retry = TRUE]
         /\ \A w \in Writes : w \notin WaitingOf(t) => Resent(t, token)[w] = write[w]
BY DEF WriteType, Call, WriteState, Resent, WaitingOf

\* The answer of a login call, by where it stands.
LEMMA EnterFacts ==
  ASSUME SessionType, NEW t \in Tabs
  PROVE  /\ enter[t].st = "answered" => enter[t].answer \in Token \cup {Failed}
         /\ enter[t].st = "confirming" => enter[t].token \in SessionIds
         /\ enter[t].st = "sent" => enter[t].cookie \in Token
         /\ me[t].st = "answered" => me[t].answer \in Token \cup {Failed}
         /\ SessionIds \subseteq Token
BY DEF SessionType, LoginCall, MeCall, Idle, Token

-----------------------------------------------------------------------------
(* Types                                                                   *)

LEMMA InitTypes == Init => SessionType /\ TabType /\ WriteType
<1>1. SUFFICES ASSUME Init PROVE SessionType /\ TabType /\ WriteType
  OBVIOUS
<1>2. minted \in 0..MaxSessions /\ live \subseteq SessionIds /\ cookie \in Token /\ faults \in 0..MaxFaults
  BY <1>1, SessionAssumption DEF Init, SessionIds, Token, NoSession
<1>3. me \in [Tabs -> MeCall] /\ enter \in [Tabs -> LoginCall] /\ news \in [Tabs -> Seq(SessionIds)]
  BY <1>1 DEF Init, MeCall, LoginCall
<1>4. TabType
  BY <1>1 DEF Init, TabType, TabState, FreshTab, Status, Token
<1>5. WriteType
  BY <1>1 DEF Init, WriteType, NewCall, Call, WriteState, Token
<1>6. QED
  BY <1>2, <1>3, <1>4, <1>5 DEF SessionType

\* A step of a tab keeps what sessions and tokens are.
LEMMA SessionStep ==
  ASSUME SessionType, TabType, WriteType, [Next]_vars
  PROVE  SessionType'
<1>1. CASE UNCHANGED vars
  BY <1>1 DEF SessionType, vars
<1>2. ASSUME NEW s \in live, Expire(s) PROVE SessionType'
  BY <1>2 DEF SessionType, Expire
<1>3. ASSUME NEW t \in Tabs, TabStep(t) PROVE SessionType'
  <2>1. CASE ServeMe(t)
    BY <2>1 DEF ServeMe, SessionType, MeCall, Accepts, Token, Idle
  <2>2. CASE Boot(t)
    BY <2>2 DEF Boot, SessionType, MeCall
  <2>3. CASE Reload(t)
    <3>1. faults < MaxFaults /\ faults' = faults + 1 /\ me' = [me EXCEPT ![t] = [st |-> "sent"]]
          /\ news' = [news EXCEPT ![t] = <<>>] /\ UNCHANGED <<live, minted, cookie, enter>>
      BY <2>3 DEF Reload
    <3>2. faults' \in 0..MaxFaults
      BY <3>1, SessionAssumption DEF SessionType
    <3>3. QED
      BY <3>1, <3>2 DEF SessionType, MeCall
  <2>4. CASE SubmitForm(t) \/ SubmitPrompt(t)
    <3>1. enter' = [enter EXCEPT ![t] = [st |-> "sent", cookie |-> cookie]]
          /\ UNCHANGED <<live, minted, cookie, me, news, faults>>
      BY <2>4 DEF SubmitForm, SubmitPrompt
    <3>2. QED
      BY <3>1 DEF SessionType, LoginCall
  <2>5. CASE ServeLogin(t)
    <3>1. minted + 1 \in SessionIds /\ minted' \in 0..MaxSessions
      BY <2>5, SessionAssumption DEF ServeLogin, SessionType, SessionIds
    <3>2. QED
      BY <2>5, <3>1 DEF ServeLogin, SessionType, LoginCall, Token
  <2>6. CASE RefuseLogin(t)
    BY <2>6 DEF RefuseLogin, SessionType, LoginCall, Token
  <2>7. CASE LoginAnswered(t)
    BY <2>7, EnterFacts DEF LoginAnswered, SessionType, LoginCall
  <2>8. CASE LoginRefused(t)
    BY <2>8 DEF LoginRefused, SessionType, LoginCall
  <2>9. CASE LoginConfirmed(t)
    <3>1. \A u \in Tabs : Append(news[u], enter[t].token) \in Seq(SessionIds)
      BY <2>9, EnterFacts DEF LoginConfirmed, SessionType
    <3>2. QED
      BY <2>9, <3>1 DEF LoginConfirmed, SessionType, LoginCall
  <2>10. CASE LoginUnconfirmed(t)
    <3>1. faults' \in 0..MaxFaults
      BY <2>10, SessionAssumption DEF LoginUnconfirmed, SessionType
    <3>2. QED
      BY <2>10, <3>1 DEF LoginUnconfirmed, SessionType, LoginCall
  <2>11. CASE TokenFromOtherTab(t)
    <3>1. Tail(news[t]) \in Seq(SessionIds)
      BY <2>11 DEF TokenFromOtherTab, SessionType
    <3>2. QED
      BY <2>11, <3>1 DEF TokenFromOtherTab, SessionType
  <2>12. CASE CancelPrompt(t)
    BY <2>12 DEF CancelPrompt, SessionType
  <2>13. CASE Logout(t)
    BY <2>13 DEF Logout, SessionType, Token
  <2>14. QED
    BY <1>3, <2>1, <2>2, <2>3, <2>4, <2>5, <2>6, <2>7, <2>8, <2>9, <2>10, <2>11, <2>12, <2>13 DEF TabStep
<1>4. ASSUME NEW w \in Writes, WriteStep(w) PROVE SessionType'
  BY <1>4 DEF WriteStep, Send, Serve, Settle, AskAgain, SessionType
<1>5. CASE Lose
  <2>1. faults' \in 0..MaxFaults
    BY <1>5, SessionAssumption DEF Lose, SessionType
  <2>2. ASSUME NEW w \in Writes, LoseWrite(w) PROVE SessionType'
    BY <1>5, <2>1, <2>2 DEF Lose, LoseWrite, SessionType
  <2>3. ASSUME NEW t \in Tabs, LoseMe(t) PROVE SessionType'
    BY <1>5, <2>1, <2>3 DEF Lose, LoseMe, SessionType, MeCall
  <2>4. ASSUME NEW t \in Tabs, LoseLogin(t) PROVE SessionType'
    BY <1>5, <2>1, <2>4 DEF Lose, LoseLogin, SessionType, LoginCall
  <2>5. QED
    BY <1>5, <2>2, <2>3, <2>4 DEF Lose
<1>6. QED
  BY <1>1, <1>2, <1>3, <1>4, <1>5 DEF Next

\* The state of the tabs.
LEMMA TabTypeStep ==
  ASSUME SessionType, TabType, WriteType, [Next]_vars
  PROVE  TabType'
<1>1. CASE UNCHANGED vars
  BY <1>1 DEF TabType, vars
<1>2. ASSUME NEW s \in live, Expire(s) PROVE TabType'
  BY <1>2 DEF TabType, Expire
<1>3. ASSUME NEW t \in Tabs, TabStep(t) PROVE TabType'
  <2>0. tab[t] \in TabState /\ {"authenticated", "anonymous"} \subseteq Status /\ NoSession \in Token
    BY DEF TabType, Status, Token
  <2>1. CASE Boot(t)
    <3>1. CASE IsAdmin(me[t].answer)
      <4>1. me[t].answer \in Token
        BY <3>1 DEF IsAdmin, Token
      <4>2. [tab[t] EXCEPT !.status = "authenticated", !.token = me[t].answer, !.stored = me[t].answer] \in TabState
        BY <2>0, <4>1 DEF TabState
      <4>3. tab' = [tab EXCEPT ![t] = [tab[t] EXCEPT !.status = "authenticated",
                                              !.token = me[t].answer, !.stored = me[t].answer]]
        BY <2>1, <3>1 DEF Boot, TabType
      <4>4. QED
        BY <4>2, <4>3 DEF TabType
    <3>2. CASE ~IsAdmin(me[t].answer)
      <4>1. [tab[t] EXCEPT !.status = "anonymous"] \in TabState
        BY <2>0 DEF TabState
      <4>2. tab' = [tab EXCEPT ![t] = [tab[t] EXCEPT !.status = "anonymous"]]
        BY <2>1, <3>2 DEF Boot, TabType
      <4>3. QED
        BY <4>1, <4>2 DEF TabType
    <3>3. QED
      BY <3>1, <3>2
  <2>2. CASE Reload(t)
    BY <2>2 DEF Reload, FreshTab, TabType, TabState, Status
  <2>3. CASE SubmitPrompt(t)
    <3>1. [tab[t] EXCEPT !.submitting = TRUE] \in TabState
      BY <2>0 DEF TabState
    <3>2. tab' = [tab EXCEPT ![t] = [tab[t] EXCEPT !.submitting = TRUE]]
      BY <2>3 DEF SubmitPrompt, TabType
    <3>3. QED
      BY <3>1, <3>2 DEF TabType
  <2>4. CASE LoginRefused(t) \/ LoginUnconfirmed(t)
    <3>1. [tab[t] EXCEPT !.submitting = FALSE] \in TabState
      BY <2>0 DEF TabState
    <3>2. tab' = [tab EXCEPT ![t] = [tab[t] EXCEPT !.submitting = FALSE]]
      BY <2>4 DEF LoginRefused, LoginUnconfirmed, TabType
    <3>3. QED
      BY <3>1, <3>2 DEF TabType
  <2>5. CASE CancelPrompt(t)
    <3>1. [tab[t] EXCEPT !.prompt = FALSE, !.waiter = FALSE] \in TabState
      BY <2>0 DEF TabState
    <3>2. tab' = [tab EXCEPT ![t] = [tab[t] EXCEPT !.prompt = FALSE, !.waiter = FALSE]]
      BY <2>5 DEF CancelPrompt, TabType
    <3>3. QED
      BY <3>1, <3>2 DEF TabType
  <2>6. CASE LoginAnswered(t)
    <3>1. enter[t].answer \in Token
      BY <2>6 DEF LoginAnswered, Token
    <3>2. [tab[t] EXCEPT !.token = enter[t].answer, !.stored = enter[t].answer] \in TabState
      BY <2>0, <3>1 DEF TabState
    <3>3. tab' = [tab EXCEPT ![t] = [tab[t] EXCEPT !.token = enter[t].answer, !.stored = enter[t].answer]]
      BY <2>6 DEF LoginAnswered, TabType
    <3>4. QED
      BY <3>2, <3>3 DEF TabType
  <2>7. CASE LoginConfirmed(t)
    <3>1. [tab[t] EXCEPT !.status = "authenticated", !.prompt = FALSE, !.waiter = FALSE, !.submitting = FALSE] \in TabState
      BY <2>0 DEF TabState
    <3>2. tab' = [tab EXCEPT ![t] = [tab[t] EXCEPT !.status = "authenticated", !.prompt = FALSE, !.waiter = FALSE, !.submitting = FALSE]]
      BY <2>7 DEF LoginConfirmed, TabType
    <3>3. QED
      BY <3>1, <3>2 DEF TabType
  <2>8. CASE TokenFromOtherTab(t)
    <3>1. Head(news[t]) \in Token
      BY <2>8, EnterFacts DEF TokenFromOtherTab, SessionType
    <3>2. [tab[t] EXCEPT !.token = Head(news[t]), !.stored = Head(news[t]),
                         !.prompt = FALSE, !.waiter = FALSE, !.submitting = FALSE] \in TabState
      BY <2>0, <3>1 DEF TabState
    <3>3. tab' = [tab EXCEPT ![t] = [tab[t] EXCEPT !.token = Head(news[t]), !.stored = Head(news[t]),
                                            !.prompt = FALSE, !.waiter = FALSE, !.submitting = FALSE]]
      BY <2>8 DEF TokenFromOtherTab, Adopted, TabType
    <3>4. QED
      BY <3>2, <3>3 DEF TabType
  <2>9. CASE Logout(t)
    <3>1. [tab[t] EXCEPT !.status = "anonymous", !.token = NoSession, !.stored = NoSession] \in TabState
      BY <2>0 DEF TabState
    <3>2. tab' = [tab EXCEPT ![t] = [tab[t] EXCEPT !.status = "anonymous", !.token = NoSession, !.stored = NoSession]]
      BY <2>9 DEF Logout, TabType
    <3>3. QED
      BY <3>1, <3>2 DEF TabType
  <2>10. CASE ServeMe(t) \/ SubmitForm(t) \/ ServeLogin(t) \/ RefuseLogin(t)
    BY <2>10 DEF ServeMe, SubmitForm, ServeLogin, RefuseLogin, TabType
  <2>11. QED
    BY <1>3, <2>1, <2>2, <2>3, <2>4, <2>5, <2>6, <2>7, <2>8, <2>9, <2>10 DEF TabStep
<1>4. ASSUME NEW w \in Writes, WriteStep(w) PROVE TabType'
  <2>1. CASE AskAgain(w)
    <3>1. write[w].tab \in Tabs
      BY <2>1 DEF AskAgain
    <3>2. [tab[write[w].tab] EXCEPT !.prompt = TRUE, !.waiter = TRUE] \in TabState
      BY <3>1 DEF TabType, TabState
    <3>3. tab' = tab \/ tab' = [tab EXCEPT ![write[w].tab] = [tab[write[w].tab] EXCEPT !.prompt = TRUE, !.waiter = TRUE]]
      BY <2>1, <3>1 DEF AskAgain, TabType
    <3>4. QED
      BY <3>2, <3>3 DEF TabType
  <2>2. CASE (\E t \in Tabs : Send(w, t)) \/ Serve(w) \/ Settle(w)
    BY <2>2 DEF Send, Serve, Settle, TabType
  <2>3. QED
    BY <1>4, <2>1, <2>2 DEF WriteStep
<1>5. CASE Lose
  BY <1>5 DEF Lose, TabType
<1>6. QED
  BY <1>1, <1>2, <1>3, <1>4, <1>5 DEF Next

\* The calls.
LEMMA WriteTypeStep ==
  ASSUME SessionType, TabType, WriteType, [Next]_vars
  PROVE  WriteType'
<1>1. CASE UNCHANGED vars
  BY <1>1 DEF WriteType, vars
<1>2. ASSUME NEW s \in live, Expire(s) PROVE WriteType'
  BY <1>2 DEF WriteType, Expire
<1>3. ASSUME NEW t \in Tabs, TabStep(t) PROVE WriteType'
  <2>1. CASE Reload(t)
    BY <2>1 DEF Reload, WriteType, Call, WriteState
  <2>2. CASE LoginConfirmed(t)
    BY <2>2, EnterFacts, ResentType DEF LoginConfirmed, WriteType
  <2>3. CASE TokenFromOtherTab(t)
    <3>1. Head(news[t]) \in Token
      BY <2>3, EnterFacts DEF TokenFromOtherTab, SessionType
    <3>2. QED
      BY <2>3, <3>1, ResentType DEF TokenFromOtherTab, WriteType
  <2>4. CASE CancelPrompt(t)
    BY <2>4 DEF CancelPrompt, WriteType, Call, WriteState
  <2>5. CASE ServeMe(t) \/ Boot(t) \/ SubmitForm(t) \/ SubmitPrompt(t) \/ ServeLogin(t) \/ RefuseLogin(t)
    BY <2>5 DEF ServeMe, Boot, SubmitForm, SubmitPrompt, ServeLogin, RefuseLogin, WriteType
  <2>6. CASE LoginAnswered(t) \/ LoginRefused(t) \/ LoginUnconfirmed(t) \/ Logout(t)
    BY <2>6 DEF LoginAnswered, LoginRefused, LoginUnconfirmed, Logout, WriteType
  <2>7. QED
    BY <1>3, <2>1, <2>2, <2>3, <2>4, <2>5, <2>6 DEF TabStep
<1>4. ASSUME NEW w \in Writes, WriteStep(w) PROVE WriteType'
  <2>1. ASSUME NEW t \in Tabs, Send(w, t) PROVE WriteType'
    BY <2>1 DEF Send, NewCall, WriteType, TabType, TabState, Call, WriteState
  <2>2. CASE Serve(w)
    <3>1. CsrfVerdict(cookie, write[w].token) \in {"ok", "401", "403"}
      BY DEF CsrfVerdict
    <3>2. [write[w] EXCEPT !.st = "answered", !.answer = CsrfVerdict(cookie, write[w].token)] \in Call
      BY <3>1 DEF WriteType, Call, WriteState
    <3>3. write' = [write EXCEPT ![w] = [write[w] EXCEPT !.st = "answered", !.answer = CsrfVerdict(cookie, write[w].token)]]
      BY <2>2 DEF Serve, WriteType
    <3>4. applied' \in [Writes -> Nat]
      BY <2>2 DEF Serve, WriteType
    <3>5. QED
      BY <3>2, <3>3, <3>4 DEF WriteType
  <2>3. CASE Settle(w) \/ AskAgain(w)
    BY <2>3 DEF Settle, AskAgain, WriteType, Call, WriteState
  <2>4. QED
    BY <1>4, <2>1, <2>2, <2>3 DEF WriteStep
<1>5. CASE Lose
  <2>1. ASSUME NEW w \in Writes, LoseWrite(w) PROVE WriteType'
    <3>1. [write[w] EXCEPT !.st = "answered", !.answer = "err"] \in Call
      BY DEF WriteType, Call, WriteState
    <3>2. write' = [write EXCEPT ![w] = [write[w] EXCEPT !.st = "answered", !.answer = "err"]]
      BY <2>1 DEF LoseWrite, WriteType
    <3>3. QED
      BY <1>5, <3>1, <3>2 DEF Lose, WriteType
  <2>2. QED
    BY <1>5, <2>1 DEF Lose, LoseMe, LoseLogin, WriteType
<1>6. QED
  BY <1>1, <1>2, <1>3, <1>4, <1>5 DEF Next

-----------------------------------------------------------------------------
(* A write is carried out at most once                                     *)

\* What AppliedInv says of one write.
LEMMA AppliedOne ==
  ASSUME NEW w \in Writes, AppliedInv
  PROVE  /\ applied[w] <= 1
         /\ write[w].st \in {"new", "sent", "waiting", "cancelled"} => applied[w] = 0
         /\ write[w].st = "answered" /\ write[w].answer \in {"401", "403"} => applied[w] = 0
         /\ write[w].st = "answered" /\ write[w].answer = "ok" => applied[w] = 1
         /\ write[w].st = "answered" => write[w].answer # "none"
         /\ write[w].st = "done" => applied[w] = 1
BY DEF AppliedInv

\* Sending again what waits changes nothing that was carried out.
LEMMA ResentApplied ==
  ASSUME WriteType, AppliedInv, NEW t \in Tabs, NEW token \in Token,
         write' = Resent(t, token), applied' = applied
  PROVE  AppliedInv'
<1>1. SUFFICES ASSUME NEW w \in Writes
               PROVE  write'[w] = write[w] \/ (write[w].st = "waiting" /\ write'[w].st = "sent")
  BY AppliedOne DEF AppliedInv
<1>2. CASE w \in WaitingOf(t)
  <2>1. write'[w] = [write[w] EXCEPT !.st = "sent", !.token = token, !.retry = TRUE]
    BY <1>2 DEF Resent
  <2>2. write[w] \in Call
    BY DEF WriteType
  <2>3. write'[w].st = "sent"
    BY <2>1, <2>2 DEF Call
  <2>4. QED
    BY <1>2, <2>3 DEF WaitingOf
<1>3. CASE w \notin WaitingOf(t)
  BY <1>3 DEF Resent
<1>4. QED
  BY <1>2, <1>3

LEMMA AppliedStep ==
  ASSUME SessionType, TabType, WriteType, AppliedInv, [Next]_vars
  PROVE  AppliedInv'
<1>1. CASE UNCHANGED vars
  BY <1>1 DEF AppliedInv, vars
<1>2. ASSUME NEW s \in live, Expire(s) PROVE AppliedInv'
  BY <1>2 DEF AppliedInv, Expire
<1>3. ASSUME NEW t \in Tabs, TabStep(t) PROVE AppliedInv'
  <2>1. CASE Reload(t)
    <3>1. SUFFICES ASSUME NEW w \in Writes
                   PROVE  /\ write'[w].answer = write[w].answer /\ applied'[w] = applied[w]
                          /\ write'[w].st = write[w].st \/ write'[w].st = "gone"
      BY AppliedOne DEF AppliedInv
    <3>2. applied' = applied /\ write'[w] =
            IF write[w].tab # t THEN write[w]
            ELSE [write[w] EXCEPT !.tab = "none",
                    !.st = IF write[w].st \in {"waiting", "answered"} THEN "gone" ELSE write[w].st]
      BY <2>1 DEF Reload
    <3>3. write[w] \in Call
      BY DEF WriteType
    <3>4. QED
      BY <3>2, <3>3 DEF Call
  <2>2. CASE LoginConfirmed(t)
    BY <2>2, EnterFacts, ResentApplied DEF LoginConfirmed
  <2>3. CASE TokenFromOtherTab(t)
    <3>1. Head(news[t]) \in Token
      BY <2>3, EnterFacts DEF TokenFromOtherTab, SessionType
    <3>2. QED
      BY <2>3, <3>1, ResentApplied DEF TokenFromOtherTab
  <2>4. CASE CancelPrompt(t)
    <3>1. \A w \in Writes :
            write'[w] = write[w] \/ (write[w].st = "waiting" /\ write'[w].st = "cancelled")
      <4> SUFFICES ASSUME NEW w \in Writes
                   PROVE  \/ write'[w] = write[w]
                          \/ write[w].st = "waiting" /\ write'[w].st = "cancelled"
        OBVIOUS
      <4>1. \/ write'[w] = write[w]
            \/ w \in WaitingOf(t) /\ write'[w] = [write[w] EXCEPT !.st = "cancelled"]
        BY <2>4 DEF CancelPrompt
      <4>2. write[w] \in Call
        BY DEF WriteType
      <4>3. QED
        BY <4>1, <4>2 DEF Call, WaitingOf
    <3>2. applied' = applied
      BY <2>4 DEF CancelPrompt
    <3>3. QED
      BY <3>1, <3>2 DEF AppliedInv
  <2>5. CASE ServeMe(t) \/ Boot(t) \/ SubmitForm(t) \/ SubmitPrompt(t) \/ ServeLogin(t) \/ RefuseLogin(t)
    BY <2>5 DEF ServeMe, Boot, SubmitForm, SubmitPrompt, ServeLogin, RefuseLogin, AppliedInv
  <2>6. CASE LoginAnswered(t) \/ LoginRefused(t) \/ LoginUnconfirmed(t) \/ Logout(t)
    BY <2>6 DEF LoginAnswered, LoginRefused, LoginUnconfirmed, Logout, AppliedInv
  <2>7. QED
    BY <1>3, <2>1, <2>2, <2>3, <2>4, <2>5, <2>6 DEF TabStep
<1>4. ASSUME NEW w \in Writes, WriteStep(w) PROVE AppliedInv'
  <2>0. write[w] \in Call /\ applied[w] \in Nat
    BY DEF WriteType
  <2>1. ASSUME NEW t \in Tabs, Send(w, t) PROVE AppliedInv'
    <3>1. write'[w].st = "sent" /\ write[w].st = "new" /\ applied' = applied
      BY <2>1 DEF Send, NewCall, WriteType
    <3>2. \A v \in Writes : v # w => write'[v] = write[v]
      BY <2>1 DEF Send, WriteType
    <3>3. QED
      BY <3>1, <3>2, AppliedOne DEF AppliedInv
  <2>2. CASE Serve(w)
    <3>1. CsrfVerdict(cookie, write[w].token) \in {"ok", "401", "403"}
      BY DEF CsrfVerdict
    <3>2. write[w].st = "sent" /\ write'[w].st = "answered"
          /\ write'[w].answer = CsrfVerdict(cookie, write[w].token)
      BY <2>2, <2>0 DEF Serve, WriteType, Call
    <3>3. applied'[w] = IF CsrfVerdict(cookie, write[w].token) = "ok" THEN applied[w] + 1 ELSE applied[w]
      BY <2>2 DEF Serve, WriteType
    <3>4. \A v \in Writes : v # w => write'[v] = write[v] /\ applied'[v] = applied[v]
      BY <2>2 DEF Serve, WriteType
    <3>5. applied[w] = 0
      BY <3>2, AppliedOne
    <3>6. QED
      BY <3>1, <3>2, <3>3, <3>4, <3>5, AppliedOne DEF AppliedInv
  <2>3. CASE Settle(w)
    <3>1. applied' = applied /\ \A v \in Writes : v # w => write'[v] = write[v]
      BY <2>3 DEF Settle, WriteType
    <3>2. write[w].st = "answered" /\ write'[w].st = (IF write[w].answer = "ok" THEN "done" ELSE "failed")
      BY <2>3, <2>0 DEF Settle, WriteType, Call
    <3>3. QED
      BY <3>1, <3>2, AppliedOne DEF AppliedInv
  <2>4. CASE AskAgain(w)
    <3>1. applied' = applied /\ \A v \in Writes : v # w => write'[v] = write[v]
      BY <2>4 DEF AskAgain, WriteType
    <3>2. write[w].st = "answered" /\ write[w].answer \in {"401", "403"} /\ write'[w].st = "waiting"
      BY <2>4, <2>0 DEF AskAgain, SessionRefused, WriteType, Call
    <3>3. QED
      BY <3>1, <3>2, AppliedOne DEF AppliedInv
  <2>5. QED
    BY <1>4, <2>1, <2>2, <2>3, <2>4 DEF WriteStep
<1>5. CASE Lose
  <2>1. ASSUME NEW w \in Writes, LoseWrite(w) PROVE AppliedInv'
    <3>1. applied' = applied /\ \A v \in Writes : v # w => write'[v] = write[v]
      BY <1>5, <2>1 DEF Lose, LoseWrite, WriteType
    <3>2. write'[w].st = "answered" /\ write'[w].answer = "err"
      BY <2>1 DEF LoseWrite, WriteType, Call
    <3>3. QED
      BY <3>1, <3>2, AppliedOne DEF AppliedInv
  <2>2. CASE UNCHANGED write
    BY <1>5, <2>2 DEF Lose, AppliedInv
  <2>3. QED
    BY <1>5, <2>1, <2>2 DEF Lose, LoseMe, LoseLogin
<1>6. QED
  BY <1>1, <1>2, <1>3, <1>4, <1>5 DEF Next

-----------------------------------------------------------------------------
(* Who waits has a prompt                                                  *)

\* A step that opens and closes no prompt, and lets no write begin or stop to wait,
\* keeps it.
LEMMA SamePrompts ==
  ASSUME WaitersHaveAPrompt,
         \A t \in Tabs : tab'[t].prompt = tab[t].prompt /\ tab'[t].waiter = tab[t].waiter,
         \A t \in Tabs : WaitingOf(t)' = WaitingOf(t)
  PROVE  WaitersHaveAPrompt'
BY DEF WaitersHaveAPrompt

\* A tab whose prompt is closed with its waiters gone keeps it, and so do the others.
LEMMA ClosedPrompt ==
  ASSUME WaitersHaveAPrompt, NEW t \in Tabs,
         tab'[t].prompt = FALSE, tab'[t].waiter = FALSE, WaitingOf(t)' = {},
         \A u \in Tabs : u # t => tab'[u] = tab[u] /\ WaitingOf(u)' = WaitingOf(u)
  PROVE  WaitersHaveAPrompt'
BY DEF WaitersHaveAPrompt

\* After they are sent again, none of a tab's writes wait; those of the others do.
LEMMA ResentWaiting ==
  ASSUME WriteType, NEW t \in Tabs, NEW token \in Token, write' = Resent(t, token)
  PROVE  /\ WaitingOf(t)' = {}
         /\ \A u \in Tabs : u # t => WaitingOf(u)' = WaitingOf(u)
<1>1. \A w \in Writes : w \in WaitingOf(t) => write'[w].st = "sent" /\ write'[w].tab = write[w].tab
  <2>1. SUFFICES ASSUME NEW w \in Writes, w \in WaitingOf(t)
                 PROVE  write'[w].st = "sent" /\ write'[w].tab = write[w].tab
    OBVIOUS
  <2>2. write'[w] = [write[w] EXCEPT !.st = "sent", !.token = token, !.retry = TRUE]
    BY <2>1 DEF Resent
  <2>3. write[w] \in Call
    BY DEF WriteType
  <2>4. QED
    BY <2>2, <2>3 DEF Call
<1>2. \A w \in Writes : w \notin WaitingOf(t) => write'[w] = write[w]
  BY DEF Resent
<1>3. QED
  BY <1>1, <1>2 DEF WaitingOf

LEMMA WaitingStep ==
  ASSUME SessionType, TabType, WriteType, WaitersHaveAPrompt, [Next]_vars
  PROVE  WaitersHaveAPrompt'
<1>1. CASE UNCHANGED vars
  BY <1>1 DEF WaitersHaveAPrompt, WaitingOf, vars
<1>2. ASSUME NEW s \in live, Expire(s) PROVE WaitersHaveAPrompt'
  BY <1>2 DEF Expire, WaitersHaveAPrompt, WaitingOf
<1>3. ASSUME NEW t \in Tabs, TabStep(t) PROVE WaitersHaveAPrompt'
  <2>0. tab[t] \in TabState
    BY DEF TabType
  <2>1. CASE Reload(t)
    <3>1. tab'[t] = FreshTab(tab[t].stored) /\ \A u \in Tabs : u # t => tab'[u] = tab[u]
      BY <2>1 DEF Reload, TabType
    <3>2. \A w \in Writes : write'[w] =
            IF write[w].tab # t THEN write[w]
            ELSE [write[w] EXCEPT !.tab = "none",
                    !.st = IF write[w].st \in {"waiting", "answered"} THEN "gone" ELSE write[w].st]
      BY <2>1 DEF Reload
    <3>3. \A w \in Writes : IF write[w].tab # t THEN write'[w] = write[w] ELSE write'[w].tab = "none"
      BY <3>2 DEF WriteType, Call
    <3>4. WaitingOf(t)' = {} /\ \A u \in Tabs : u # t => WaitingOf(u)' = WaitingOf(u)
      BY <3>3, SessionAssumption DEF WaitingOf
    <3>5. FreshTab(tab[t].stored).prompt = FALSE /\ FreshTab(tab[t].stored).waiter = FALSE
      BY DEF FreshTab
    <3>6. QED
      BY <3>1, <3>4, <3>5, ClosedPrompt
  <2>2. CASE LoginConfirmed(t)
    <3>1. tab'[t].prompt = FALSE /\ tab'[t].waiter = FALSE /\ \A u \in Tabs : u # t => tab'[u] = tab[u]
      BY <2>2, <2>0 DEF LoginConfirmed, TabType, TabState
    <3>2. WaitingOf(t)' = {} /\ \A u \in Tabs : u # t => WaitingOf(u)' = WaitingOf(u)
      BY <2>2, EnterFacts, ResentWaiting DEF LoginConfirmed
    <3>3. QED
      BY <3>1, <3>2, ClosedPrompt
  <2>3. CASE TokenFromOtherTab(t)
    <3>1. tab'[t].prompt = FALSE /\ tab'[t].waiter = FALSE /\ \A u \in Tabs : u # t => tab'[u] = tab[u]
      BY <2>3, <2>0 DEF TokenFromOtherTab, Adopted, TabType, TabState
    <3>2. Head(news[t]) \in Token
      BY <2>3, EnterFacts DEF TokenFromOtherTab, SessionType
    <3>3. WaitingOf(t)' = {} /\ \A u \in Tabs : u # t => WaitingOf(u)' = WaitingOf(u)
      BY <2>3, <3>2, ResentWaiting DEF TokenFromOtherTab
    <3>4. QED
      BY <3>1, <3>3, ClosedPrompt
  <2>4. CASE CancelPrompt(t)
    <3>1. tab'[t].prompt = FALSE /\ tab'[t].waiter = FALSE /\ \A u \in Tabs : u # t => tab'[u] = tab[u]
      BY <2>4, <2>0 DEF CancelPrompt, TabType, TabState
    <3>2. \A w \in Writes : IF w \in WaitingOf(t) THEN write'[w].st = "cancelled" /\ write'[w].tab = t
                                               ELSE write'[w] = write[w]
      BY <2>4 DEF CancelPrompt, WaitingOf, WriteType, Call
    <3>3. WaitingOf(t)' = {} /\ \A u \in Tabs : u # t => WaitingOf(u)' = WaitingOf(u)
      BY <3>2 DEF WaitingOf
    <3>4. QED
      BY <3>1, <3>3, ClosedPrompt
  <2>5. CASE Boot(t) \/ SubmitPrompt(t) \/ LoginAnswered(t) \/ LoginRefused(t) \/ LoginUnconfirmed(t) \/ Logout(t)
    <3>1. write' = write /\ \A u \in Tabs : tab'[u].prompt = tab[u].prompt /\ tab'[u].waiter = tab[u].waiter
      BY <2>5 DEF Boot, SubmitPrompt, LoginAnswered, LoginRefused, LoginUnconfirmed, Logout, TabType, TabState
    <3>2. QED
      BY <3>1, SamePrompts DEF WaitingOf
  <2>6. CASE ServeMe(t) \/ SubmitForm(t) \/ ServeLogin(t) \/ RefuseLogin(t)
    BY <2>6 DEF ServeMe, SubmitForm, ServeLogin, RefuseLogin, WaitersHaveAPrompt, WaitingOf
  <2>7. QED
    BY <1>3, <2>1, <2>2, <2>3, <2>4, <2>5, <2>6 DEF TabStep
<1>4. ASSUME NEW w \in Writes, WriteStep(w) PROVE WaitersHaveAPrompt'
  <2>0. write[w] \in Call
    BY DEF WriteType
  <2>1. CASE AskAgain(w)
    <3> DEFINE t == write[w].tab
    <3>1. t \in Tabs /\ write[w].st = "answered" /\ write'[w].st = "waiting" /\ write'[w].tab = t
      BY <2>1, <2>0 DEF AskAgain, WriteType, Call
    <3>2. \A v \in Writes : v # w => write'[v] = write[v]
      BY <2>1 DEF AskAgain, WriteType
    <3>3. WaitingOf(t)' # {} /\ \A u \in Tabs : u # t => WaitingOf(u)' = WaitingOf(u)
      BY <3>1, <3>2 DEF WaitingOf
    <3>4. CASE tab[t].waiter
      <4>1. tab' = tab
        BY <2>1, <3>4 DEF AskAgain
      <4>2. QED
        BY <3>1, <3>3, <3>4, <4>1 DEF WaitersHaveAPrompt
    <3>5. CASE ~tab[t].waiter
      <4>1. tab' = [tab EXCEPT ![t] = [tab[t] EXCEPT !.prompt = TRUE, !.waiter = TRUE]] /\ tab[t] \in TabState
        BY <2>1, <3>1, <3>5 DEF AskAgain, TabType
      <4>2. tab'[t].prompt = TRUE /\ tab'[t].waiter = TRUE /\ \A u \in Tabs : u # t => tab'[u] = tab[u]
        BY <3>1, <4>1 DEF TabType, TabState
      <4>3. QED
        BY <3>1, <3>3, <4>2 DEF WaitersHaveAPrompt
    <3>6. QED
      BY <3>4, <3>5
  <2>2. CASE (\E t \in Tabs : Send(w, t)) \/ Serve(w) \/ Settle(w)
    <3>1. tab' = tab /\ write[w].st \in {"new", "sent", "answered"} /\ \A v \in Writes : v # w => write'[v] = write[v]
      BY <2>2 DEF Send, Serve, Settle, WriteType
    <3>2. write'[w].st \in {"sent", "answered", "done", "failed"}
      <4>1. ASSUME NEW t \in Tabs, Send(w, t) PROVE write'[w].st = "sent"
        BY <4>1 DEF Send, NewCall, WriteType
      <4>2. ASSUME Serve(w) PROVE write'[w].st = "answered"
        <5>1. write' = [write EXCEPT ![w] = [write[w] EXCEPT !.st = "answered",
                                               !.answer = CsrfVerdict(cookie, write[w].token)]]
          BY <4>2 DEF Serve
        <5>2. QED
          BY <5>1, <2>0 DEF WriteType, Call
      <4>3. ASSUME Settle(w) PROVE write'[w].st \in {"done", "failed"}
        BY <4>3, <2>0 DEF Settle, WriteType, Call
      <4>4. QED
        BY <2>2, <4>1, <4>2, <4>3
    <3>3. \A u \in Tabs : WaitingOf(u)' = WaitingOf(u)
      BY <3>1, <3>2 DEF WaitingOf
    <3>4. QED
      BY <3>1, <3>3, SamePrompts
  <2>3. QED
    BY <1>4, <2>1, <2>2 DEF WriteStep
<1>5. CASE Lose
  <2>1. ASSUME NEW w \in Writes, LoseWrite(w) PROVE WaitersHaveAPrompt'
    <3>1. tab' = tab /\ write[w].st # "waiting" /\ write'[w].st = "answered"
          /\ \A v \in Writes : v # w => write'[v] = write[v]
      BY <1>5, <2>1 DEF Lose, LoseWrite, WriteType, Call
    <3>2. \A u \in Tabs : WaitingOf(u)' = WaitingOf(u)
      BY <3>1 DEF WaitingOf
    <3>3. QED
      BY <3>1, <3>2, SamePrompts
  <2>2. CASE UNCHANGED write
    BY <1>5, <2>2 DEF Lose, WaitersHaveAPrompt, WaitingOf
  <2>3. QED
    BY <1>5, <2>1, <2>2 DEF Lose, LoseMe, LoseLogin
<1>6. QED
  BY <1>1, <1>2, <1>3, <1>4, <1>5 DEF Next

-----------------------------------------------------------------------------
(* The theorems                                                            *)

IInv == SessionType /\ TabType /\ WriteType /\ AppliedInv /\ WaitersHaveAPrompt

LEMMA InitIInv == Init => IInv
<1>1. SUFFICES ASSUME Init PROVE IInv
  OBVIOUS
<1>2. AppliedInv
  BY <1>1 DEF Init, AppliedInv, NewCall
<1>3. WaitersHaveAPrompt
  BY <1>1 DEF Init, WaitersHaveAPrompt, WaitingOf, NewCall, FreshTab
<1>4. QED
  BY <1>1, <1>2, <1>3, InitTypes DEF IInv

LEMMA IInvStep == IInv /\ [Next]_vars => IInv'
BY SessionStep, TabTypeStep, WriteTypeStep, AppliedStep, WaitingStep DEF IInv

LEMMA IInvHolds == Spec => []IInv
BY InitIInv, IInvStep, PTL DEF Spec

\* Sessions, tokens, tabs and calls keep their types (AdminSession!TypeOK), for any
\* tabs, writes and bounds.
THEOREM TypeCorrect == Spec => []TypeOK
<1>1. IInv => TypeOK
  BY DEF IInv, SessionType, TabType, WriteType, TypeOK
<1>2. QED
  BY <1>1, IInvHolds, PTL

\* A write of the panel is carried out at most once however often its session runs
\* out, is replaced or its answers are lost, and its caller is told the truth
\* (apiRequest of api/http.ts).
THEOREM OnceApplied == Spec => []AppliedAtMostOnce
<1>1. IInv => AppliedAtMostOnce
  BY DEF IInv, AppliedInv, AppliedAtMostOnce
<1>2. QED
  BY <1>1, IInvHolds, PTL

\* A tab shows its prompt exactly while one of its refused writes waits for it
\* (auth/sessionRecovery.ts).
THEOREM PromptForWaiters == Spec => []WaitersHaveAPrompt
<1>1. IInv => WaitersHaveAPrompt
  BY DEF IInv
<1>2. QED
  BY <1>1, IInvHolds, PTL
=============================================================================
