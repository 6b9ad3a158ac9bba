----------------------------- MODULE LinkSearch -----------------------------
(***************************************************************************)
(* The search by which a purchase is linked to a product or a rule         *)
(* (economia/PurchaseForm.tsx, with the search of pages/EconomiaPage.tsx): *)
(* debounced, cancelled by the next letter and by the rules that arrive    *)
(* after the page.                                                         *)
(***************************************************************************)
EXTENDS Integers, FiniteSets

CONSTANTS Queries,   \* what can be typed that is long enough to search
          Short,     \* what is not
          MaxOps,    \* bound: changes of the text
          Nothing    \* no options

VARIABLES srv, ui, net
vars == <<srv, ui, net>>

TypeOK ==
  /\ srv.rules \in {"awaited", "listed"}
  /\ ui.query \in Queries \cup {Short} /\ ui.options \in Queries \cup {Nothing}
  /\ ui.searching \in BOOLEAN /\ ui.timer \in BOOLEAN /\ ui.linked \in BOOLEAN
  /\ \A s \in net.searches : s.of \in Queries /\ s.live \in BOOLEAN
  /\ net.ops \in 0..MaxOps

Init ==
  /\ srv = [rules |-> "awaited"]
  /\ \E linked \in BOOLEAN :
       ui = [query |-> Short, options |-> Nothing, searching |-> FALSE, timer |-> FALSE, linked |-> linked]
  /\ net = [searches |-> {}, ops |-> 0]

\* The effect on the text and on the search: what was asked is cancelled, and a
\* text that is too short has no options.
Cancelled_Not(n) == n
Cancelled(n) == [n EXCEPT !.searches = {[s EXCEPT !.live = FALSE] : s \in @}]
Searched(u) ==
  IF u.query = Short THEN [u EXCEPT !.options = Nothing, !.timer = FALSE]
  ELSE [u EXCEPT !.timer = TRUE]

Type ==
  /\ ~ui.linked /\ net.ops < MaxOps
  /\ \E q \in (Queries \cup {Short}) \ {ui.query} : ui' = Searched([ui EXCEPT !.query = q])
  /\ net' = [Cancelled(net) EXCEPT !.ops = @ + 1]
  /\ UNCHANGED srv
RulesListed ==
  /\ srv.rules = "awaited"
  /\ srv' = [srv EXCEPT !.rules = "listed"]
  /\ ui' = Searched(ui)
  /\ net' = Cancelled(net)

Timer ==
  /\ ui.timer
  /\ ui' = [ui EXCEPT !.timer = FALSE, !.searching = TRUE]
  /\ net' = [net EXCEPT !.searches = @ \cup {[of |-> ui.query, live |-> TRUE]}]
  /\ UNCHANGED srv
AnswerSearch(s, ok) ==
  /\ ui' = IF s.live THEN [ui EXCEPT !.options = IF ok THEN s.of ELSE Nothing, !.searching = FALSE] ELSE ui
  /\ net' = [net EXCEPT !.searches = @ \ {s}]
  /\ UNCHANGED srv

\* An option is picked; the link can be taken away again.
Pick ==
  /\ ui.options # Nothing
  /\ ui' = [ui EXCEPT !.linked = TRUE, !.query = Short, !.options = Nothing, !.timer = FALSE]
  /\ net' = IF ui.query = Short THEN net ELSE Cancelled(net)
  /\ UNCHANGED srv
Unlink ==
  /\ ui.linked /\ net.ops < MaxOps
  /\ ui' = [ui EXCEPT !.linked = FALSE]
  /\ net' = [net EXCEPT !.ops = @ + 1]
  /\ UNCHANGED srv

Next ==
  \/ Type \/ RulesListed \/ Timer \/ Pick \/ Unlink
  \/ \E s \in net.searches, ok \in BOOLEAN : AnswerSearch(s, ok)

Spec == Init /\ [][Next]_vars

-----------------------------------------------------------------------------
(* Properties                                                              *)

\* Once nothing is awaited the options are those of the text in the field: none
\* of another text, and none for a text that is too short or a form that is linked.
Live == {s \in net.searches : s.live}
OptionsAreOfQuery ==
  /\ ~ui.timer /\ Live = {} => ui.options \in {Nothing, ui.query}
  /\ ui.query = Short => ui.options = Nothing
=============================================================================
