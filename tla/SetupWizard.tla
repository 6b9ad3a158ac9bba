---------------------------- MODULE SetupWizard ----------------------------
(***************************************************************************)
(* The page of the setup wizard (pages/ConfiguracaoPage.tsx with           *)
(* hooks/useSetupStatus.ts): which step is open, what it offers, and the   *)
(* calls of the steps CredentialsStep, LoginStep and RuleStep.  What the   *)
(* api does with them is here only what the status shows; its login is     *)
(* module TelegramLogin, the steps of the bot and of the groups are        *)
(* modules SetupBot and SetupGroups.                                       *)
(***************************************************************************)
EXTENDS Integers, FiniteSets, Sequences

CONSTANTS MaxChanges,  \* bound: what happens on the server
          MaxOps,      \* bound: the administrator's calls
          MaxPolls,    \* bound: readings of the status under way
          Nothing      \* null

VARIABLES srv, ui, net
vars == <<srv, ui, net>>

\* The steps in their order; the recipients belong to the bot's step.
ORDER == <<"credentials", "login", "bot", "groups", "rule", "done">>
Steps == {ORDER[i] : i \in DOMAIN ORDER}
Logins == {"none", "awaiting_code", "awaiting_password"}
Kinds == {"credentials", "start", "code", "password", "cancel", "disconnect", "rule"}

\* build_status: a pending login hides the session; the next step is the first
\* that is not done.
Status == [done: SUBSET Steps, login: Logins, version: 0..MaxChanges]
View(s) == [done |-> s.done, login |-> s.login, version |-> s.version]
NextStep(v) == ORDER[CHOOSE i \in DOMAIN ORDER :
                       /\ ORDER[i] \notin v.done
                       /\ \A j \in 1..i - 1 : ORDER[j] \in v.done]
Authorized(v) == v.login = "none" /\ "login" \in v.done

TypeOK ==
  /\ srv.done \subseteq Steps \ {"done"} /\ srv.login \in Logins /\ srv.version \in 0..MaxChanges
  /\ ui.status \in Status \cup {Nothing} /\ ui.chosen \in Steps \cup {"none", Nothing}
  /\ ui.busy \in BOOLEAN /\ ui.confirm \in BOOLEAN /\ ui.editing \in BOOLEAN /\ ui.error \in BOOLEAN
  /\ ui.applied \in 0..MaxChanges
  /\ \A c \in net.calls : c.kind \in Kinds /\ c.st \in {"sent", "ok", "refused", "reload"} /\ c.stale \in BOOLEAN
  /\ \A p \in net.polls : p.view \in Status \cup {Nothing} /\ p.stale \in BOOLEAN
  /\ net.ops \in 0..MaxOps /\ net.late \in BOOLEAN

Init ==
  /\ \E n \in {0, 1, 4} :
       srv = [done |-> {ORDER[i] : i \in 1..n}, login |-> "none", version |-> 0]
  /\ ui = [status |-> Nothing, chosen |-> Nothing, busy |-> FALSE, confirm |-> FALSE, editing |-> FALSE,
           error |-> FALSE, applied |-> 0]
  /\ net = [calls |-> {}, polls |-> {[view |-> Nothing, stale |-> FALSE]}, ops |-> 0, late |-> FALSE]

-----------------------------------------------------------------------------
(* Which step is open                                                      *)

OpenStep(u) == IF u.status = Nothing THEN "none"
               ELSE IF u.chosen # Nothing THEN u.chosen ELSE NextStep(u.status)

\* Only the open step renders its body: what another one held is lost.
Remounted(u) == IF OpenStep(u) = OpenStep(ui) THEN u
                ELSE [u EXCEPT !.busy = FALSE, !.confirm = FALSE, !.editing = FALSE, !.error = FALSE]

Toggle(step) ==
  /\ ui.status # Nothing
  /\ ui' = Remounted([ui EXCEPT !.chosen = IF OpenStep(ui) = step THEN "none" ELSE step])
  /\ UNCHANGED <<srv, net>>

-----------------------------------------------------------------------------
(* The steps                                                               *)

\* What the open step offers.
Offers(kind) ==
  /\ ui.status # Nothing /\ ~ui.busy
  /\ CASE kind = "credentials" ->
            OpenStep(ui) = "credentials" /\ ("credentials" \notin ui.status.done \/ ui.editing)
       [] kind = "rule" ->
            OpenStep(ui) = "rule" /\ ("rule" \notin ui.status.done \/ ui.editing)
       [] OTHER ->
            /\ OpenStep(ui) = "login" /\ "credentials" \in ui.status.done
            /\ CASE kind = "start" -> ui.status.login = "none" /\ "login" \notin ui.status.done
                 [] kind = "code" -> ui.status.login = "awaiting_code"
                 [] kind = "password" -> ui.status.login = "awaiting_password"
                 [] kind = "cancel" -> ui.status.login # "none"
                 [] kind = "disconnect" -> Authorized(ui.status) /\ ui.confirm

\* "Trocar credenciais", not with a session; "Criar outra regra".
Edit ==
  /\ ui.status # Nothing
  /\ \/ OpenStep(ui) = "credentials" /\ "credentials" \in ui.status.done /\ (ui.editing \/ ~Authorized(ui.status))
     \/ OpenStep(ui) = "rule" /\ "rule" \in ui.status.done
  /\ ui' = [ui EXCEPT !.editing = ~@]
  /\ UNCHANGED <<srv, net>>
ConfirmDisconnect ==
  /\ OpenStep(ui) = "login" /\ "credentials" \in ui.status.done /\ Authorized(ui.status)
  /\ ui' = [ui EXCEPT !.confirm = ~@]
  /\ UNCHANGED <<srv, net>>

\* CredentialsStep.submit, LoginStep.run, RuleStep.submit
Run(kind) ==
  /\ Offers(kind) /\ net.ops < MaxOps /\ Cardinality(net.calls) < 2
  /\ ui' = [ui EXCEPT !.busy = TRUE, !.error = FALSE]
  /\ net' = [net EXCEPT !.ops = @ + 1,
                        !.calls = @ \cup {[n |-> net.ops, kind |-> kind, st |-> "sent", view |-> Nothing, stale |-> FALSE]}]
  /\ UNCHANGED srv

\* What an answer overtakes if it is shown later.
Overtaken(answers) == {[a EXCEPT !.stale = a.view # Nothing] : a \in answers}

\* handleStatus: the answer's status is shown and the wizard moves on.
HandleStatus_Refetched(u, view) == [u EXCEPT !.chosen = Nothing]
HandleStatus(u, view) == [u EXCEPT !.status = view, !.chosen = Nothing]
Answer(c) ==
  /\ c.st = "ok" /\ c.kind # "rule"
  /\ ui' = [Remounted(HandleStatus([ui EXCEPT !.busy = FALSE, !.confirm = FALSE, !.editing = FALSE], c.view))
              EXCEPT !.applied = IF c.view.version > @ THEN c.view.version ELSE @]
  /\ net' = [net EXCEPT !.calls = Overtaken(@ \ {c}), !.polls = Overtaken(@), !.late = c.stale]
  /\ UNCHANGED srv
\* A rule that was created has to be applied, and then the status is read again;
\* the rule stays created when the listener is not told.
RuleCreated(c) ==
  /\ c.st = "ok" /\ c.kind = "rule"
  /\ ui' = [ui EXCEPT !.editing = FALSE]
  /\ net' = [net EXCEPT !.calls = (@ \ {c}) \cup {[c EXCEPT !.st = "reload"]}]
  /\ UNCHANGED srv
RuleApplied(c, ok) ==
  /\ c.st = "reload" /\ Cardinality(net.polls) < MaxPolls
  /\ ui' = [ui EXCEPT !.busy = FALSE, !.error = ~ok]
  /\ net' = [net EXCEPT !.calls = @ \ {c}, !.polls = @ \cup {[view |-> Nothing, stale |-> FALSE]}]
  /\ UNCHANGED srv
Fail(c) ==
  /\ c.st \in {"ok", "refused"}
  /\ ui' = [ui EXCEPT !.busy = FALSE, !.error = TRUE]
  /\ net' = [net EXCEPT !.calls = @ \ {c}]
  /\ UNCHANGED srv

-----------------------------------------------------------------------------
(* The status, read every POLL_MS                                          *)

AskStatus ==
  /\ Cardinality(net.polls) < MaxPolls
  /\ net' = [net EXCEPT !.polls = @ \cup {[view |-> Nothing, stale |-> FALSE]}]
  /\ UNCHANGED <<srv, ui>>
ServeStatus(p) ==
  /\ p.view = Nothing
  /\ net' = [net EXCEPT !.polls = (@ \ {p}) \cup {[p EXCEPT !.view = View(srv)]}]
  /\ UNCHANGED <<srv, ui>>
ShowStatus(p) ==
  /\ p.view # Nothing
  /\ ui' = Remounted([ui EXCEPT !.status = p.view])
  /\ net' = [net EXCEPT !.polls = @ \ {p}, !.late = p.stale]
  /\ UNCHANGED srv
FailStatus(p) ==
  /\ net' = [net EXCEPT !.polls = @ \ {p}]
  /\ UNCHANGED <<srv, ui>>

-----------------------------------------------------------------------------
(* The server                                                              *)

Effect(s, kind) ==
  CASE kind = "credentials" -> [s EXCEPT !.done = @ \cup {"credentials"}]
    [] kind = "start" -> [s EXCEPT !.login = "awaiting_code"]
    [] kind = "code" -> [s EXCEPT !.login = "awaiting_password"]
    [] kind = "password" -> [s EXCEPT !.login = "none", !.done = @ \cup {"login"}]
    [] kind = "cancel" -> [s EXCEPT !.login = "none"]
    [] kind = "disconnect" -> [s EXCEPT !.login = "none", !.done = @ \ {"credentials", "login", "bot"}]
    [] kind = "rule" -> [s EXCEPT !.done = @ \cup {"rule"}]
\* What the api refuses: a login that does not wait for it, or an account that is in.
Refused(s, kind) ==
  CASE kind = "credentials" -> s.login # "none" \/ "login" \in s.done
    [] kind = "start" -> "credentials" \notin s.done \/ "login" \in s.done \/ s.login # "none"
    [] kind = "code" -> s.login # "awaiting_code"
    [] kind = "password" -> s.login # "awaiting_password"
    [] OTHER -> FALSE
\* A code that needs no password signs in at once.
Signed(s, kind) == IF kind = "code" THEN {Effect(s, "code"), Effect(s, "password")} ELSE {Effect(s, kind)}

Serve(c) ==
  /\ c.st = "sent"
  /\ \/ /\ ~Refused(srv, c.kind) /\ srv.version < MaxChanges
        /\ \E s \in Signed(srv, c.kind) : srv' = [s EXCEPT !.version = @ + 1]
        /\ net' = [net EXCEPT !.calls = (@ \ {c}) \cup {[c EXCEPT !.st = "ok", !.view = View(srv')]}]
     \/ /\ net' = [net EXCEPT !.calls = (@ \ {c}) \cup {[c EXCEPT !.st = "refused"]}]
        /\ UNCHANGED srv
  /\ UNCHANGED ui

\* Elsewhere: the login's time is over, and a step of another page is done.
Elsewhere ==
  /\ srv.version < MaxChanges
  /\ \/ srv.login # "none" /\ srv' = [srv EXCEPT !.login = "none", !.version = @ + 1]
     \/ \E step \in {"bot", "groups"} \ srv.done : srv' = [srv EXCEPT !.done = @ \cup {step}, !.version = @ + 1]
  /\ UNCHANGED <<ui, net>>

Next ==
  \/ \E step \in Steps : Toggle(step)
  \/ Edit \/ ConfirmDisconnect \/ AskStatus \/ Elsewhere
  \/ \E kind \in Kinds : Run(kind)
  \/ \E c \in net.calls : Answer(c) \/ RuleCreated(c) \/ Fail(c) \/ Serve(c)
  \/ \E c \in net.calls, ok \in BOOLEAN : RuleApplied(c, ok)
  \/ \E p \in net.polls : ServeStatus(p) \/ ShowStatus(p) \/ FailStatus(p)

Spec == Init /\ [][Next]_vars

-----------------------------------------------------------------------------
(* Properties                                                              *)

\* The page never goes back behind what a call of its own was answered, unless
\* an older answer, of a reading or of another call, is shown after it.
OwnChangeIsShown == ui.status # Nothing /\ ~net.late => ui.status.version >= ui.applied
=============================================================================
