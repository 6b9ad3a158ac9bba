----------------------------- MODULE HealthPoll -----------------------------
(***************************************************************************)
(* The state of Telegram on the health page (hooks/useHealth.ts): a poll   *)
(* every few seconds, or by the button, reads it, and an event of the      *)
(* stream brings every change of it.                                       *)
(*                                                                         *)
(* A state of Telegram is the number of changes before it.                 *)
(***************************************************************************)
EXTENDS Integers, Sequences, FiniteSets

CONSTANTS MaxChanges,  \* bound: changes of the state of Telegram
          MaxPolls,    \* bound: polls
          Nothing      \* null, not loaded yet

MaxWaiting == 2        \* bound: polls under way

VARIABLES srv, ui, net
vars == <<srv, ui, net>>

Failed == -1

TypeOK ==
  /\ srv \in 0..MaxChanges
  /\ ui.health \in (0..MaxChanges) \cup {Nothing} /\ ui.loading \in BOOLEAN /\ ui.error \in BOOLEAN
  /\ ui.sseState \in {"connecting", "open", "error"}
  /\ \A k \in 1..Len(net.events) : net.events[k] \in 1..MaxChanges
  /\ \A p \in net.polls : p.answer \in {Nothing, Failed} \cup 0..MaxChanges
  /\ net.newest \in 0..MaxChanges /\ net.polled \in 0..MaxPolls

Polled(n) == [n EXCEPT !.polls = @ \cup {[n |-> n.polled, answer |-> Nothing]}, !.polled = @ + 1]
Newest(n, state) == IF state > n.newest THEN state ELSE n.newest

Init ==
  /\ srv = 0
  /\ ui = [health |-> Nothing, loading |-> TRUE, error |-> FALSE, sseState |-> "connecting"]
  /\ net = Polled([events |-> <<>>, polls |-> {}, polled |-> 0, newest |-> 0])

\* The adapter changes state and tells the stream.
Change ==
  /\ srv < MaxChanges
  /\ srv' = srv + 1
  /\ net' = [net EXCEPT !.events = Append(@, srv + 1)]
  /\ UNCHANGED ui

\* The interval, and "Reverificar".
Poll ==
  /\ Cardinality(net.polls) < MaxWaiting /\ net.polled < MaxPolls
  /\ net' = Polled(net)
  /\ UNCHANGED <<srv, ui>>
AnswerPoll(p) ==
  /\ p.answer = Nothing
  /\ \E a \in {srv, Failed} : net' = [net EXCEPT !.polls = (@ \ {p}) \cup {[p EXCEPT !.answer = a]}]
  /\ UNCHANGED <<srv, ui>>
\* It is shown whatever was heard since it was asked for.
ShowPoll(p) ==
  /\ p.answer # Nothing
  /\ ui' = IF p.answer = Failed THEN [ui EXCEPT !.error = TRUE, !.loading = FALSE]
           ELSE [ui EXCEPT !.health = p.answer, !.error = FALSE, !.loading = FALSE]
  /\ net' = [net EXCEPT !.polls = @ \ {p}, !.newest = Newest(net, p.answer)]
  /\ UNCHANGED srv

\* The stream opens, drops and opens again; what was missed is sent then
\* (module EventStream).
Connect ==
  /\ ui.sseState # "open"
  /\ ui' = [ui EXCEPT !.sseState = "open"]
  /\ UNCHANGED <<srv, net>>
Drop ==
  /\ ui.sseState # "error"
  /\ ui' = [ui EXCEPT !.sseState = "error"]
  /\ UNCHANGED <<srv, net>>
\* An event that comes before the first answer has nothing to be shown in.
Hear_NotShown ==
  /\ ui.sseState = "open" /\ net.events # <<>>
  /\ net' = [net EXCEPT !.events = Tail(@)]
  /\ UNCHANGED <<srv, ui>>
Hear ==
  /\ ui.sseState = "open" /\ net.events # <<>>
  /\ ui' = IF ui.health = Nothing THEN ui ELSE [ui EXCEPT !.health = Head(net.events)]
  /\ net' = [net EXCEPT !.events = Tail(@), !.newest = Newest(net, Head(net.events))]
  /\ UNCHANGED srv

Next ==
  \/ Change \/ Poll \/ Connect \/ Drop \/ Hear
  \/ \E p \in net.polls : AnswerPoll(p) \/ ShowPoll(p)

Spec == Init /\ [][Next]_vars

-----------------------------------------------------------------------------
(* Properties                                                              *)

\* The state of Telegram that is shown is the one it is in once every event was
\* heard and no poll is awaited, unless the answer of a poll was older than what
\* had been heard by then.
AdapterIsCurrent ==
  net.events = <<>> /\ net.polls = {} /\ ui.health # Nothing =>
    ui.health = srv \/ ui.health < net.newest
=============================================================================
