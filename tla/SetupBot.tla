------------------------------ MODULE SetupBot ------------------------------
(***************************************************************************)
(* The third step of the setup wizard: the alert bot and the pairing of a  *)
(* recipient by /start.  The browser is setup/BotStep.tsx, with the loop   *)
(* that waits for the /start while the status says that a window is open;  *)
(* the server is the bot's part of routers/setup.py.                       *)
(*                                                                         *)
(* A window is the number of its link.  The list of recipients below it,   *)
(* with their names and test messages, is left out.                        *)
(***************************************************************************)
EXTENDS Integers, FiniteSets

CONSTANTS MaxLinks,   \* bound: links made
          MaxOps,     \* bound: the administrator's other clicks
          Nothing     \* null

VARIABLES srv, ui, net
vars == <<srv, ui, net>>

Links == 1..MaxLinks
NoLink == 0
\* What of the status this step looks at, and who reads it: the page's timer,
\* the click on the link's button, the loop at its end.
View(s) == [bot |-> s.bot, active |-> s.window # NoLink /\ s.live]
Readers == {"timer", "open", "loop"}
Results == {"waiting", "paired", "expired", "error"}

TypeOK ==
  /\ srv.bot \in BOOLEAN /\ srv.window \in 0..MaxLinks /\ srv.live \in BOOLEAN /\ srv.made \in 0..MaxLinks
  /\ srv.starts \subseteq Links /\ srv.paired \subseteq Links
  /\ ui.status \in [bot: BOOLEAN, active: BOOLEAN] /\ ui.open \in BOOLEAN
  /\ ui.loop \in {"off", "asking", "reading", "sleeping"}
  /\ ui.link \in 0..MaxLinks /\ ui.busy \in BOOLEAN /\ ui.saving \in BOOLEAN /\ ui.changing \in BOOLEAN
  /\ ui.notice \in {"none", "paired", "expired"} /\ ui.error \in BOOLEAN
  /\ \A p \in net.polls : /\ p.window \in 0..MaxLinks /\ p.st \in {"sent", "held"} \cup Results
                          /\ p.mine \in BOOLEAN
  /\ \A r \in net.reads : r.by \in Readers /\ r.view \in [bot: BOOLEAN, active: BOOLEAN] \cup {Nothing}
  /\ net.call \in {"none", "link", "link made", "token", "token saved"}
  /\ net.ops \in 0..MaxOps /\ net.ended \in BOOLEAN /\ net.elsewhere \in BOOLEAN

Init ==
  /\ srv = [bot |-> FALSE, window |-> NoLink, live |-> FALSE, made |-> 0, starts |-> {}, paired |-> {}]
  /\ ui = [status |-> [bot |-> FALSE, active |-> FALSE], open |-> TRUE, loop |-> "off", link |-> NoLink,
           busy |-> FALSE, saving |-> FALSE, changing |-> FALSE, notice |-> "none", error |-> FALSE]
  /\ net = [polls |-> {}, reads |-> {}, call |-> "none", ops |-> 0, ended |-> FALSE, elsewhere |-> FALSE]

-----------------------------------------------------------------------------
(* The loop that waits for the /start                                      *)

\* A poll of a loop that was cancelled is nobody's, the api still answers it.
Disowned(n) == [n EXCEPT !.polls = {[p EXCEPT !.mine = FALSE] : p \in @},
                         !.elsewhere = @ \/ \E p \in n.polls : p.st = "paired"]
Polling(n) == [n EXCEPT !.polls = @ \cup {[window |-> NoLink, st |-> "sent", mine |-> TRUE]}]

\* The effect: a loop begins when the step opens, or the status begins to say
\* that a window is open, and is cancelled when either ends.
Waits(u) == u.open /\ u.status.active
Effect_NotOnMount(u, n) ==
  IF Waits(u) = Waits(ui) \/ u.open # ui.open THEN ui' = [u EXCEPT !.loop = IF Waits(u) THEN @ ELSE "off"] /\ net' = n
  ELSE IF Waits(u) THEN ui' = [u EXCEPT !.loop = "asking"] /\ net' = Polling(n)
  ELSE ui' = [u EXCEPT !.loop = "off"] /\ net' = Disowned(n)
Effect(u, n) ==
  IF Waits(u) = Waits(ui) THEN ui' = u /\ net' = n
  ELSE IF Waits(u) THEN ui' = [u EXCEPT !.loop = "asking"] /\ net' = [Polling(n) EXCEPT !.ended = FALSE, !.elsewhere = @ \/ ~View(srv).active]
  ELSE ui' = [u EXCEPT !.loop = "off"] /\ net' = Disowned(n)

\* A poll's answer in the loop that sent it.
AnswerPoll(p) ==
  /\ p.st \in Results
  /\ LET n == [net EXCEPT !.polls = @ \ {p}] IN
     CASE ~p.mine -> ui' = ui /\ net' = n
       [] p.mine /\ p.st = "waiting" -> ui' = [ui EXCEPT !.loop = "sleeping"] /\ net' = n
       [] p.mine /\ p.st = "error" -> /\ ui' = [ui EXCEPT !.link = NoLink, !.loop = "off", !.error = TRUE]
                                      /\ net' = [n EXCEPT !.ended = TRUE]
       [] p.mine /\ p.st \in {"paired", "expired"} ->
            /\ ui' = [ui EXCEPT !.link = NoLink, !.loop = "reading", !.notice = p.st]
            /\ net' = [n EXCEPT !.reads = {r \in @ : r.by # "loop"} \cup {[by |-> "loop", view |-> Nothing]}]
  /\ UNCHANGED srv
Sleep ==
  /\ ui.loop = "sleeping"
  /\ ui' = [ui EXCEPT !.loop = "asking"]
  /\ net' = Polling(net)
  /\ UNCHANGED srv

-----------------------------------------------------------------------------
(* The status                                                              *)

AskStatus ==
  /\ \A r \in net.reads : r.by # "timer"
  /\ net' = [net EXCEPT !.reads = @ \cup {[by |-> "timer", view |-> Nothing]}]
  /\ UNCHANGED <<srv, ui>>
ServeStatus(r) ==
  /\ r.view = Nothing
  /\ net' = [net EXCEPT !.reads = (@ \ {r}) \cup {[r EXCEPT !.view = View(srv)]}]
  /\ UNCHANGED <<srv, ui>>
\* What the loop and the click read opens the step ("stay"); the loop is over
\* then, whatever the status says.
ShowStatus(r) ==
  /\ r.view # Nothing
  /\ LET u == [ui EXCEPT !.status = r.view, !.open = @ \/ r.by # "timer",
                         !.busy = @ /\ r.by # "open",
                         !.loop = IF r.by = "loop" /\ @ = "reading" THEN "off" ELSE @]
     IN Effect(u, [net EXCEPT !.reads = @ \ {r},
                              !.ended = @ \/ (r.by = "loop" /\ ui.loop = "reading")])
  /\ UNCHANGED srv
FailStatus(r) ==
  /\ ui' = IF r.by = "timer" THEN ui
           ELSE [ui EXCEPT !.error = TRUE, !.busy = @ /\ r.by # "open",
                           !.loop = IF r.by = "loop" /\ @ = "reading" THEN "off" ELSE @]
  /\ net' = [net EXCEPT !.reads = @ \ {r}, !.ended = @ \/ (r.by = "loop" /\ ui.loop = "reading")]
  /\ UNCHANGED srv

\* The step is closed and opened; what it held is lost.
Toggle ==
  /\ net.ops < MaxOps
  /\ Effect([ui EXCEPT !.open = ~@, !.link = NoLink, !.busy = FALSE, !.saving = FALSE, !.changing = FALSE,
                       !.notice = "none", !.error = FALSE],
            [net EXCEPT !.ops = @ + 1])
  /\ UNCHANGED srv

-----------------------------------------------------------------------------
(* The token and the link                                                  *)

ChangeToken ==
  /\ ui.open /\ ui.status.bot /\ net.ops < MaxOps
  /\ ui' = [ui EXCEPT !.changing = ~@]
  /\ net' = [net EXCEPT !.ops = @ + 1]
  /\ UNCHANGED srv
SubmitToken ==
  /\ ui.open /\ (ui.changing \/ ~ui.status.bot) /\ ~ui.saving /\ net.call = "none" /\ net.ops < MaxOps
  /\ ui' = [ui EXCEPT !.saving = TRUE, !.error = FALSE]
  /\ net' = [net EXCEPT !.call = "token", !.ops = @ + 1]
  /\ UNCHANGED srv
\* A new token closes the window.
ServeToken ==
  /\ net.call = "token"
  /\ srv' = [srv EXCEPT !.bot = TRUE, !.window = NoLink]
  /\ net' = [net EXCEPT !.call = "token saved"]
  /\ UNCHANGED ui
\* The answer carries the status; no "stay": the wizard goes to the next step,
\* which is this one as long as nobody is registered.
AnswerToken ==
  /\ net.call = "token saved"
  /\ \E open \in {ui.open, srv.paired = {}} :
       Effect([ui EXCEPT !.status = [bot |-> TRUE, active |-> FALSE], !.saving = FALSE, !.changing = FALSE, !.open = open],
              [net EXCEPT !.call = "none"])
  /\ UNCHANGED srv

OpenPairing ==
  /\ ui.open /\ ui.status.bot /\ ~ui.busy /\ net.call = "none" /\ srv.made < MaxLinks
  /\ \A r \in net.reads : r.by # "open"
  /\ ui' = [ui EXCEPT !.busy = TRUE, !.notice = "none", !.error = FALSE]
  /\ net' = [net EXCEPT !.call = "link"]
  /\ UNCHANGED srv
ServeLink ==
  /\ net.call = "link"
  /\ srv' = [srv EXCEPT !.made = @ + 1, !.window = srv.made + 1, !.live = TRUE]
  /\ net' = [net EXCEPT !.call = "link made"]
  /\ UNCHANGED ui
AnswerLink ==
  /\ net.call = "link made"
  /\ ui' = [ui EXCEPT !.link = IF ui.open THEN srv.made ELSE @]
  /\ net' = [net EXCEPT !.call = "none", !.reads = @ \cup {[by |-> "open", view |-> Nothing]}]
  /\ UNCHANGED srv
FailCall ==
  /\ net.call # "none"
  /\ ui' = [ui EXCEPT !.error = TRUE, !.busy = FALSE, !.saving = FALSE]
  /\ net' = [net EXCEPT !.call = "none"]
  /\ UNCHANGED srv

-----------------------------------------------------------------------------
(* poll_pairing                                                            *)

Answered(p, result) == net' = [net EXCEPT !.polls = (@ \ {p}) \cup {[p EXCEPT !.st = result]}]

\* Only one poll of a window waits for Telegram.
ArrivePoll(p) ==
  /\ p.st = "sent"
  /\ IF ~View(srv).active THEN srv' = [srv EXCEPT !.window = NoLink] /\ Answered(p, "expired")
     ELSE /\ UNCHANGED srv
          /\ IF \E q \in net.polls : q.st = "held" /\ q.window = srv.window
               THEN Answered(p, "waiting")
               ELSE net' = [net EXCEPT !.polls = (@ \ {p}) \cup {[p EXCEPT !.st = "held", !.window = srv.window]}]
  /\ UNCHANGED ui
\* The /start with the window's code registers its sender and closes the window.
ReturnPoll_FallsThrough(p) ==
  /\ p.st = "held"
  /\ srv' = IF p.window \in srv.starts
       THEN [srv EXCEPT !.starts = @ \ {p.window}, !.paired = @ \cup {p.window}, !.window = NoLink]
       ELSE srv
  /\ Answered(p, "waiting")
  /\ UNCHANGED ui
ReturnPoll(p) ==
  /\ p.st = "held"
  /\ IF p.window \in srv.starts
       THEN /\ srv' = [srv EXCEPT !.starts = @ \ {p.window}, !.paired = @ \cup {p.window}, !.window = NoLink]
            /\ net' = [net EXCEPT !.polls = (@ \ {p}) \cup {[p EXCEPT !.st = "paired"]},
                                  !.elsewhere = @ \/ ~p.mine]
       ELSE UNCHANGED srv /\ Answered(p, "waiting")
  /\ UNCHANGED ui
FailPoll(p) ==
  /\ p.st \in {"sent", "held", "paired"}
  /\ net' = [net EXCEPT !.polls = (@ \ {p}) \cup {[p EXCEPT !.st = "error"]}, !.elsewhere = @ \/ p.st = "paired"]
  /\ UNCHANGED <<srv, ui>>

\* Somebody opens a link; the time of a window is over.
SendStart(link) ==
  /\ link <= srv.made /\ link \notin srv.starts \cup srv.paired
  /\ srv' = [srv EXCEPT !.starts = @ \cup {link}]
  /\ UNCHANGED <<ui, net>>
WindowExpires ==
  /\ srv.live
  /\ srv' = [srv EXCEPT !.live = FALSE]
  /\ UNCHANGED <<ui, net>>

Next ==
  \/ \E p \in net.polls : AnswerPoll(p) \/ ArrivePoll(p) \/ ReturnPoll(p) \/ FailPoll(p)
  \/ Sleep \/ AskStatus \/ Toggle \/ ChangeToken \/ SubmitToken \/ ServeToken \/ AnswerToken
  \/ \E r \in net.reads : ServeStatus(r) \/ ShowStatus(r) \/ FailStatus(r)
  \/ OpenPairing \/ ServeLink \/ AnswerLink \/ FailCall
  \/ \E link \in Links : SendStart(link)
  \/ WindowExpires

Spec == Init /\ [][Next]_vars

-----------------------------------------------------------------------------
(* Properties                                                              *)

\* "Waits for the /start while a pairing window is open on the server ... so a
\* reloaded tab keeps waiting too" (BotStep.tsx:125-126): the step that says
\* "Aguardando o /start" waits for it.
WaitingIsWaited == Waits(ui) => ui.loop # "off"

\* What the code keeps of it: a loop that failed, or that ended while another
\* window was opened, is not begun again.
WaitedUnlessEnded == ~net.ended => WaitingIsWaited

\* "O link expirou" is said of a link nobody used: not when the poll that
\* registered its user was of a loop that was cancelled, or was lost on its way,
\* or the loop was begun by a status that was no longer true.
ExpiredIsHonest ==
  ui.notice # "expired" /\ ui'.notice = "expired" /\ ~net.elsewhere => srv.made \notin srv.paired
=============================================================================
