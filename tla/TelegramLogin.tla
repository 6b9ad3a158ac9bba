--------------------------- MODULE TelegramLogin ---------------------------
(***************************************************************************)
(* The login of the Telegram account, in the api: the handlers of          *)
(* routers/setup.py and the login service of                               *)
(* packages/setup/telegram_login.py, whose lock the calls take in turn     *)
(* while Telegram is waited for.  The calls come from any page in any      *)
(* order; what the wizard offers is module SetupWizard.                    *)
(*                                                                         *)
(* A login is the number of its "send me a code"; the session file holds   *)
(* the number of the login that made it.  The rate limits are left out.    *)
(***************************************************************************)
EXTENDS Integers, Sequences

CONSTANTS MAX_CODE_ATTEMPTS,  \* wrong codes that end a login
          MaxLogins,          \* bound: codes asked for
          MaxCalls,           \* bound: calls made
          Nothing             \* null

VARIABLES srv, net
vars == <<srv, net>>

NoSession == 0
Logins == 1..MaxLogins
Stages == {"code", "password"}
Kinds == {"credentials", "start", "code", "password", "cancel", "disconnect"}
\* A start waits for the lock as an early one when it was let through while another
\* login's answer was being looked at.
Starts == {"start", "early start"}
Verdicts == {"right", "password needed", "wrong", "lost"}

\* A pending login is live until its time is over, whoever holds the lock.
Pending == [id: Logins, stage: Stages, live: BOOLEAN, bad: 0..MAX_CODE_ATTEMPTS - 1, early: BOOLEAN]
Live(s) == s.login # Nothing /\ s.login.live

TypeOK ==
  /\ srv.cred \in BOOLEAN /\ srv.session \in 0..MaxLogins /\ srv.logins \in 0..MaxLogins
  /\ srv.login \in Pending \cup {Nothing} /\ srv.finishing \in Pending \cup {Nothing}
  /\ srv.holding \in BOOLEAN /\ (srv.holding => srv.queue # <<>>) /\ srv.dropped \subseteq Logins
  /\ Len(srv.queue) <= MaxCalls /\ \A i \in DOMAIN srv.queue : srv.queue[i] \in Kinds \cup Starts
  /\ net.sent \subseteq Kinds /\ net.calls \in 0..MaxCalls /\ net.codeOf \in 0..MaxLogins

Init ==
  /\ srv = [cred |-> FALSE, session |-> NoSession, login |-> Nothing, logins |-> 0,
            finishing |-> Nothing, queue |-> <<>>, holding |-> FALSE, dropped |-> {}]
  /\ net = [sent |-> {}, calls |-> 0, codeOf |-> 0]

\* A call is made; two answers are under way one after the other, and a code that
\* is typed is the one of the login that waits for it.
Send(kind) ==
  /\ net.calls < MaxCalls /\ kind \notin net.sent
  /\ kind \in Stages => /\ srv.login # Nothing /\ srv.login.stage = kind
                        /\ \A i \in DOMAIN srv.queue : srv.queue[i] # kind
  /\ net' = [net EXCEPT !.sent = @ \cup {kind}, !.calls = @ + 1,
                        !.codeOf = IF kind = "code" /\ srv.login # Nothing THEN srv.login.id ELSE @]
  /\ UNCHANGED srv

-----------------------------------------------------------------------------
(* The handlers, up to the lock                                            *)

Taken(kind) == net' = [net EXCEPT !.sent = @ \ {kind}]
Appended(kind) == srv' = [srv EXCEPT !.queue = Append(@, kind)]
Queued(kind) == Appended(kind) /\ Taken(kind)

\* Other credentials than the session's are refused, and any while a login waits.
SaveCredentials ==
  /\ "credentials" \in net.sent
  /\ srv' = IF Live(srv) \/ srv.session # NoSession THEN srv ELSE [srv EXCEPT !.cred = TRUE]
  /\ Taken("credentials")

\* An answer has the lock: Telegram looks at it, or its login is being finished.
Answering(s) == s.holding /\ Head(s.queue) \in Stages
MayStart_WhateverSession(s) == s.cred /\ ~Live(s)
MayStart(s) == s.cred /\ s.session = NoSession /\ ~Live(s)
ServeStart ==
  /\ "start" \in net.sent /\ Taken("start")
  /\ IF ~MayStart(srv) THEN UNCHANGED srv
     ELSE Appended(IF Answering(srv) THEN "early start" ELSE "start")
ServeCancel ==
  /\ "cancel" \in net.sent
  /\ IF Live(srv) THEN Queued("cancel") ELSE Taken("cancel") /\ UNCHANGED srv
ServeAnswer(kind) == kind \in net.sent /\ Queued(kind)
ServeDisconnect == "disconnect" \in net.sent /\ Queued("disconnect")

-----------------------------------------------------------------------------
(* Under the lock, which is had in the order it was asked for              *)

\* _discard_locked, with the pending session file.  It awaits the client's disconnect
\* with the lock held; what is checked meanwhile is checked as after it, so that it is
\* one step, except where the session is put in place behind it (FinishEnds).
Discarded(s) == [s EXCEPT !.login = Nothing,
                          !.dropped = IF s.login = Nothing THEN @ ELSE @ \cup {s.login.id}]
Released(s) == [s EXCEPT !.queue = Tail(@), !.holding = FALSE]
Holding(s) == [s EXCEPT !.holding = TRUE]
HasTurn(kind) == srv.queue # <<>> /\ Head(srv.queue) = kind /\ ~srv.holding

\* start, up to what Telegram is asked; submit_code and submit_password likewise.
TurnStart ==
  /\ \E kind \in Starts : HasTurn(kind)
  /\ srv' = IF Live(srv) THEN Released(srv) ELSE Holding(Discarded(srv))
  /\ UNCHANGED net
TurnAnswer(kind) ==
  /\ HasTurn(kind)
  /\ srv' = IF Live(srv) /\ srv.login.stage = kind THEN Holding(srv) ELSE Released(srv)
  /\ UNCHANGED net
TurnCancel_NoLock == "cancel" \in net.sent /\ srv' = Discarded(srv) /\ Taken("cancel")
TurnCancel == HasTurn("cancel") /\ srv' = Released(Discarded(srv)) /\ UNCHANGED net
\* disconnect_telegram: with the session, the stored credentials.
TurnDisconnect ==
  /\ HasTurn("disconnect")
  /\ srv' = [Released(Discarded(srv)) EXCEPT !.session = NoSession, !.cred = FALSE]
  /\ UNCHANGED net

\* Telegram has sent a code, or has not.
CodeSent(sent) ==
  /\ srv.holding /\ Head(srv.queue) \in Starts /\ srv.logins < MaxLogins
  /\ srv' = IF sent
       THEN [Released(srv) EXCEPT !.logins = @ + 1,
               !.login = [id |-> srv.logins + 1, stage |-> "code", live |-> TRUE, bad |-> 0,
                          early |-> Head(srv.queue) = "early start"]]
       ELSE Released(srv)
  /\ UNCHANGED net

\* _finish_locked: the login waits no more, its client is disconnected, and only then
\* the session file is put in place.  The lock is held, but in between there is
\* neither a pending login nor a session.
Finishing(s) == [s EXCEPT !.login = Nothing, !.finishing = s.login]
FinishEnds ==
  /\ srv.finishing # Nothing
  /\ srv' = [Released(srv) EXCEPT !.session = srv.finishing.id, !.finishing = Nothing]
  /\ UNCHANGED net
\* _after_failure: a wrong code or password may be typed again, a few times.
Failed_NoLimit(s, verdict) ==
  IF verdict = "wrong" THEN [s EXCEPT !.login.bad = @ + 1] ELSE Discarded(s)
Failed(s, verdict) ==
  IF verdict = "wrong" /\ s.login.bad + 1 < MAX_CODE_ATTEMPTS THEN [s EXCEPT !.login.bad = @ + 1]
  ELSE Discarded(s)

\* Telegram has looked at a code or a password; it takes no other login's code.
SignedIn(kind, verdict) ==
  /\ srv.holding /\ Head(srv.queue) = kind /\ srv.login # Nothing
  /\ kind = "password" => verdict # "password needed"
  /\ kind = "code" /\ verdict \in {"right", "password needed"} => net.codeOf = srv.login.id
  /\ srv' = CASE verdict = "right" -> Finishing(srv)
              [] verdict = "password needed" -> Released([srv EXCEPT !.login.stage = "password"])
              [] OTHER -> Released(Failed(srv, verdict))
  /\ UNCHANGED net

-----------------------------------------------------------------------------
(* Time and restarts                                                       *)

LoginExpires == Live(srv) /\ srv' = [srv EXCEPT !.login.live = FALSE] /\ UNCHANGED net
\* The task that waits for it takes the lock.
ExpireLater_NoLock == srv.login # Nothing /\ ~srv.login.live /\ srv' = Discarded(srv) /\ UNCHANGED net
ExpireLater ==
  /\ srv.login # Nothing /\ ~srv.login.live /\ ~srv.holding
  /\ srv' = Discarded(srv)
  /\ UNCHANGED net

\* A pending login is in the api's memory only, and so is one that is being finished.
Restart ==
  /\ srv.login # Nothing \/ srv.queue # <<>>
  /\ LET lost == {login.id : login \in {srv.login, srv.finishing} \ {Nothing}} IN
     srv' = [srv EXCEPT !.login = Nothing, !.finishing = Nothing, !.dropped = @ \cup lost,
                        !.queue = <<>>, !.holding = FALSE]
  /\ UNCHANGED net

Next ==
  \/ \E kind \in Kinds : Send(kind)
  \/ SaveCredentials \/ ServeStart \/ ServeCancel \/ ServeDisconnect
  \/ TurnStart \/ TurnCancel \/ TurnDisconnect
  \/ \E kind \in Stages : ServeAnswer(kind) \/ TurnAnswer(kind)
  \/ \E sent \in BOOLEAN : CodeSent(sent)
  \/ \E kind \in Stages, verdict \in Verdicts : SignedIn(kind, verdict)
  \/ FinishEnds
  \/ LoginExpires \/ ExpireLater \/ Restart

Spec == Init /\ [][Next]_vars

-----------------------------------------------------------------------------
(* Properties                                                              *)

\* A login that was cancelled, given up or lost by a restart never becomes the
\* session, whatever Telegram still answers, and a held lock is a login's: what
\* Telegram is asked about is still there when it answers.
DroppedIsNeverSession ==
  /\ srv.session \notin srv.dropped
  /\ Answering(srv) => srv.login # Nothing \/ srv.finishing # Nothing

\* "Já existe uma sessão do Telegram conectada. Desconecte-a antes de entrar com outra
\* conta" (routers/setup.py): a session is replaced by no other login, unless
\* login_start, which checks before it waits for the lock, let that one through while
\* the answer of another had the lock: its time was over while Telegram looked at its
\* code, or it was being finished.
SessionKept ==
  srv.session # NoSession /\ srv'.session \notin {srv.session, NoSession} => srv.finishing.early
=============================================================================
