--------------------------- MODULE HealthHistory ----------------------------
(***************************************************************************)
(* The history and the log of events on the health page                    *)
(* (useSaudeHistory of pages/SaudePage.tsx), which a timer, a button and   *)
(* every test message ask for, and the test message itself.                *)
(*                                                                         *)
(* A history and a log are the number of things that had happened.         *)
(***************************************************************************)
EXTENDS Integers, FiniteSets

CONSTANTS MaxPast,     \* bound: things that happen
          MaxReads,    \* bound: readings
          Nothing      \* null

VARIABLES srv, ui, net
vars == <<srv, ui, net>>

Failed == -1
Loaded == (0..MaxPast) \cup {Nothing}
Chosen == {"none", "known"}   \* the recipient that is selected

TypeOK ==
  /\ srv \in 0..MaxPast
  /\ ui.history \in Loaded /\ ui.events \in Loaded /\ ui.failed \in BOOLEAN /\ ui.loading \in BOOLEAN
  /\ ui.recipient \in Chosen /\ ui.sending \in BOOLEAN
  /\ ui.result \in {"none", "delivered", "not delivered", "error"}
  /\ \A r \in net.reads : r.history \in Loaded \cup {Failed} /\ r.events \in Loaded \cup {Failed}
  /\ net.test \in {"none", "sent", "delivered", "not delivered", "error"} /\ net.asked \in 0..MaxReads

\* refresh: a reading that is under way is not doubled.
Asked(n) == [n EXCEPT !.reads = @ \cup {[n |-> n.asked, history |-> Nothing, events |-> Nothing]},
                      !.asked = @ + 1]
Refreshed_Twice(n) == Asked(n)
Refreshed(n) == IF n.reads = {} THEN Asked(n) ELSE n
CanRefresh == net.asked < MaxReads

Init ==
  /\ srv = 0
  /\ ui = [history |-> Nothing, events |-> Nothing, failed |-> FALSE, loading |-> TRUE,
           recipient |-> "none", sending |-> FALSE, result |-> "none"]
  /\ net = Refreshed([reads |-> {}, test |-> "none", asked |-> 0])

Happen ==
  /\ srv < MaxPast
  /\ srv' = srv + 1
  /\ UNCHANGED <<ui, net>>

\* Every minute; the button, which is disabled while it reads, does the same.
Refresh ==
  /\ CanRefresh
  /\ net' = Refreshed(net)
  /\ ui' = [ui EXCEPT !.loading = TRUE]
  /\ UNCHANGED srv
AnswerRead(r, field) ==
  /\ r[field] = Nothing
  /\ \E a \in {srv, Failed} : net' = [net EXCEPT !.reads = (@ \ {r}) \cup {[r EXCEPT ![field] = a]}]
  /\ UNCHANGED <<srv, ui>>
\* Promise.allSettled: what failed keeps what was there.
ShowRead_Cleared(r) ==
  /\ r.history # Nothing /\ r.events # Nothing
  /\ ui' = [ui EXCEPT !.history = IF r.history = Failed THEN Nothing ELSE r.history,
                      !.events = IF r.events = Failed THEN Nothing ELSE r.events,
                      !.failed = r.history = Failed \/ r.events = Failed, !.loading = FALSE]
  /\ net' = [net EXCEPT !.reads = @ \ {r}]
  /\ UNCHANGED srv
ShowRead(r) ==
  /\ r.history # Nothing /\ r.events # Nothing
  /\ ui' = [ui EXCEPT !.history = IF r.history = Failed THEN @ ELSE r.history,
                      !.events = IF r.events = Failed THEN @ ELSE r.events,
                      !.failed = r.history = Failed \/ r.events = Failed, !.loading = FALSE]
  /\ net' = [net EXCEPT !.reads = @ \ {r}]
  /\ UNCHANGED srv

Choose(r) ==
  /\ r # ui.recipient
  /\ ui' = [ui EXCEPT !.recipient = r]
  /\ UNCHANGED <<srv, net>>
SendTest ==
  /\ ~ui.sending /\ ui.recipient = "known"
  /\ ui' = [ui EXCEPT !.sending = TRUE, !.result = "none"]
  /\ net' = [net EXCEPT !.test = "sent"]
  /\ UNCHANGED srv
\* A send is recorded, the one that was not delivered too.
ServeTest ==
  /\ net.test = "sent"
  /\ \E a \in {"delivered", "not delivered", "error"} :
       /\ net' = [net EXCEPT !.test = a]
       /\ srv' = IF a = "error" \/ srv = MaxPast THEN srv ELSE srv + 1
  /\ UNCHANGED ui
AnswerTest ==
  /\ net.test \notin {"none", "sent"}
  /\ LET told == net.test # "error" IN
       /\ told => CanRefresh
       /\ ui' = [ui EXCEPT !.result = net.test, !.sending = FALSE, !.loading = @ \/ told]
       /\ net' = [IF told THEN Refreshed(net) ELSE net EXCEPT !.test = "none"]
  /\ UNCHANGED srv

Next ==
  \/ Happen \/ Refresh \/ SendTest \/ ServeTest \/ AnswerTest
  \/ \E r \in Chosen : Choose(r)
  \/ \E r \in net.reads : ShowRead(r) \/ \E field \in {"history", "events"} : AnswerRead(r, field)

Spec == Init /\ [][Next]_vars

-----------------------------------------------------------------------------
(* Properties                                                              *)

\* What is shown never goes back and is never lost: of two readings the older
\* one is not the last to be shown, whatever asked for them, and a failed one
\* keeps the last good data on the screen.
HistoryOnlyAdvances ==
  /\ ui.history # Nothing => ui'.history # Nothing /\ ui'.history >= ui.history
  /\ ui.events # Nothing => ui'.events # Nothing /\ ui'.events >= ui.events
=============================================================================
