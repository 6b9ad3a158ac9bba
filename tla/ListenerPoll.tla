---------------------------- MODULE ListenerPoll ----------------------------
(***************************************************************************)
(* What the panel knows of "Aplicar regras" (hooks/useListenerStatus.ts,   *)
(* components/listenerState.ts, components/ListenerApplyControl.tsx): it   *)
(* polls the mailbox of the listener, faster while a request is under way, *)
(* and tells once how a request ended.  The mailbox itself is module       *)
(* ReloadMailbox; here the server may move it on at any time.              *)
(***************************************************************************)
EXTENDS Integers

CONSTANTS MaxApplies, \* bound: "Aplicar regras" clicked
          MaxPolls,   \* bound: readings of the status
          Nothing     \* null

VARIABLES srv, ui, net
vars == <<srv, ui, net>>

States == {"idle", "pending", "applying", "failed"}
Under == {"pending", "applying"}
Over == {"idle", "failed"}

\* The mailbox, with the number of the request it is about.
ListenerStatus == [state: States, request: 0..MaxApplies, unapplied: BOOLEAN]

TypeOK ==
  /\ srv \in ListenerStatus
  /\ ui.state \in States \cup {Nothing} /\ ui.error \in BOOLEAN /\ ui.requesting \in BOOLEAN
  /\ ui.unapplied \in BOOLEAN
  /\ ui.toasts \in [1..MaxApplies -> 0..MaxPolls + MaxApplies]
  /\ net.poll \in {"none", "asked", "answered", "timer"} /\ net.pollData \in ListenerStatus \cup {Nothing}
  /\ net.post \in {"none", "asked", "answered"} /\ net.postData \in ListenerStatus \cup {Nothing}
  /\ net.polls \in 0..MaxPolls /\ net.outrun \subseteq 1..MaxApplies

Init ==
  /\ srv \in {[state |-> state, request |-> 0, unapplied |-> unapplied] : state \in Over, unapplied \in BOOLEAN}
  /\ ui = [state |-> Nothing, error |-> FALSE, requesting |-> FALSE, unapplied |-> FALSE,
           toasts |-> [r \in 1..MaxApplies |-> 0]]
  /\ net = [poll |-> "asked", pollData |-> Nothing, post |-> "none", postData |-> Nothing,
            polls |-> 0, outrun |-> {}]

\* describeListener, and when the button does nothing.
View(u) ==
  CASE u.state # "idle" -> u.state [] u.state = "idle" /\ u.unapplied -> "unapplied" [] OTHER -> "applied"
Busy == View(ui) \in Under \/ ui.requesting

\* accept: what ends while the page was told it was under way is told.
Settled_Always(before, status) == status.state \in Over
Settled(before, status) == before \in Under /\ status.state \in Over
Accept(u, status) ==
  [u EXCEPT !.state = status.state, !.unapplied = status.unapplied, !.error = FALSE,
            !.toasts = IF Settled(u.state, status) /\ status.request # 0 THEN [u.toasts EXCEPT ![status.request] = @ + 1] ELSE @]

-----------------------------------------------------------------------------
(* The reading, one at a time                                              *)

AnswerPoll ==
  /\ net.poll = "asked"
  /\ net' = [net EXCEPT !.poll = "answered", !.pollData = srv]
  /\ UNCHANGED <<srv, ui>>
\* The request this reading shows the end of while its own answer, that it is
\* under way, has still to arrive (net.outrun).
OutrunBy(status) ==
  {r \in 1..MaxApplies : /\ r = status.request /\ status.state \in Over
                         /\ net.post = "answered" /\ net.postData.request = r}
ShowPoll ==
  /\ net.poll = "answered"
  /\ ui' = Accept(ui, net.pollData)
  /\ net' = [net EXCEPT !.poll = "timer", !.pollData = Nothing, !.outrun = @ \cup OutrunBy(net.pollData)]
  /\ UNCHANGED srv
FailPoll ==
  /\ net.poll \in {"asked", "answered"}
  /\ ui' = [ui EXCEPT !.error = TRUE]
  /\ net' = [net EXCEPT !.poll = "timer", !.pollData = Nothing]
  /\ UNCHANGED srv

\* A tick: the timer's, or refresh() of a page that changed something.  The
\* reading that was under way is cancelled.
Asked(n) == [n EXCEPT !.poll = "asked", !.pollData = Nothing, !.polls = @ + 1]
Tick ==
  /\ net.polls < MaxPolls
  /\ net' = Asked(net)
  /\ UNCHANGED <<srv, ui>>

-----------------------------------------------------------------------------
(* The request                                                             *)

Apply ==
  /\ ui.state # Nothing /\ ~Busy /\ srv.request < MaxApplies
  /\ ui' = [ui EXCEPT !.requesting = TRUE, !.error = FALSE]
  /\ net' = [net EXCEPT !.post = "asked"]
  /\ UNCHANGED srv
\* A request already under way, of another tab, takes this one in.
ServeApply ==
  /\ net.post = "asked"
  /\ srv' = IF srv.state \in Under THEN srv ELSE [srv EXCEPT !.state = "pending", !.request = @ + 1]
  /\ net' = [net EXCEPT !.post = "answered", !.postData = srv']
  /\ UNCHANGED ui
AnswerApply ==
  /\ net.post = "answered" /\ net.polls < MaxPolls
  /\ ui' = [Accept(ui, net.postData) EXCEPT !.requesting = FALSE]
  /\ net' = Asked([net EXCEPT !.post = "none", !.postData = Nothing])
  /\ UNCHANGED srv
FailApply ==
  /\ net.post # "none"
  /\ ui' = [ui EXCEPT !.error = TRUE, !.requesting = FALSE]
  /\ net' = [net EXCEPT !.post = "none", !.postData = Nothing]
  /\ UNCHANGED srv

\* The listener takes the request, applies it or fails.
ListenerStep ==
  /\ \/ srv.state = "pending" /\ srv' = [srv EXCEPT !.state = "applying"]
     \/ srv.state = "applying" /\ srv' = [srv EXCEPT !.state = "idle", !.unapplied = FALSE]
     \/ srv.state = "applying" /\ srv' = [srv EXCEPT !.state = "failed"]
  /\ UNCHANGED <<ui, net>>
ConfigurationChanges ==
  /\ srv' = [srv EXCEPT !.unapplied = TRUE]
  /\ UNCHANGED <<ui, net>>

Next ==
  \/ AnswerPoll \/ ShowPoll \/ FailPoll \/ Tick
  \/ Apply \/ ServeApply \/ AnswerApply \/ FailApply
  \/ ListenerStep \/ ConfigurationChanges

Spec == Init /\ [][Next]_vars

-----------------------------------------------------------------------------
(* Properties                                                              *)

\* "Called once when a request that was pending/applying ends"
\* (useListenerStatus.ts:13).  It is not: a reading may show the end of the request
\* before the page has the answer to its POST, which says it is under way, and the
\* next reading then ends it again.
CalledOnce == \A r \in 1..MaxApplies : ui.toasts[r] <= 1

\* What does hold, after that as before it: only such a request is told again, once
\* more and no oftener, and every other is told at most once.
ToldOnce ==
  \A r \in 1..MaxApplies : ui.toasts[r] <= IF r \in net.outrun THEN 2 ELSE 1
=============================================================================
