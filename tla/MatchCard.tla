------------------------------ MODULE MatchCard ------------------------------
(***************************************************************************)
(* The card of a match in the feed (components/MatchCard.tsx): the actions *)
(* of its row and of its menu, which change places with the width of the   *)
(* card, the focus of the keyboard, and the form of the rule's target,     *)
(* while the match is edited elsewhere and the feed is drawn again.        *)
(***************************************************************************)
EXTENDS Integers, FiniteSets

CONSTANTS Targets,   \* targets the administrator types
          MaxOps,    \* bound: requests of the administrator and edits elsewhere
          Nothing    \* null

VARIABLES srv, ui, net
vars == <<srv, ui, net>>

\* What of a match its card depends on; one without a product has no panel.
Match == [product: BOOLEAN, priced: BOOLEAN, target: Targets \cup {Nothing}, snoozed: BOOLEAN]
Actions == {"open", "correct", "target", "snooze", "rule", "purchased", "delete"}

TypeOK ==
  /\ srv \in Match
  /\ ui.match \in Match
  /\ ui.narrow \in BOOLEAN /\ ui.menu \in BOOLEAN /\ ui.form \in BOOLEAN /\ ui.error \in BOOLEAN
  /\ ui.input \in Targets \cup {Nothing}
  /\ ui.focus \in Actions \cup {"trigger", "elsewhere"}
  /\ net.target \subseteq Targets /\ net.snooze \in SUBSET BOOLEAN /\ net.ops \in 0..MaxOps

\* The target's field is filled when the card is mounted, and not again.
Init ==
  /\ srv \in [product: BOOLEAN, priced: BOOLEAN, target: Targets \cup {Nothing}, snoozed: {FALSE}]
  /\ ui = [match |-> srv, narrow |-> FALSE, menu |-> FALSE, focus |-> "elsewhere",
           form |-> FALSE, input |-> srv.target, error |-> FALSE]
  /\ net = [target |-> {}, snooze |-> {}, ops |-> 0]

-----------------------------------------------------------------------------
(* What is offered, and where                                              *)

CanCorrect(u) == u.match.product /\ ~u.match.priced
InRow(u) ==
  {a \in {"open", "correct", "target", "snooze"} :
     CASE a = "open"    -> u.match.product
       [] a = "correct" -> CanCorrect(u)
       [] a = "target"  -> ~CanCorrect(u)
       [] a = "snooze"  -> u.match.product /\ ~u.narrow}
InMenu_NeverSnooze(u) ==
  {a \in {"rule", "purchased", "delete"} : a = "rule" => u.match.product}
InMenu(u) ==
  {a \in {"snooze", "rule", "purchased", "delete"} :
     CASE a = "snooze" -> u.narrow /\ u.match.product
       [] a = "rule"   -> u.match.product
       [] OTHER        -> TRUE}

FirstItem(u) ==
  CASE "snooze" \in InMenu(u) -> "snooze" [] "rule" \in InMenu(u) -> "rule" [] OTHER -> "purchased"
\* The form stays open behind a price that has to be corrected first.
FormShown(u) == u.form /\ ~CanCorrect(u)

\* An item that is no longer drawn loses the focus to the page.
Drawn(u) == [u EXCEPT !.focus = IF @ \in InMenu(u) \cup {"trigger"} THEN @ ELSE "elsewhere"]
Asks == net.ops < MaxOps

\* The card's own width, not the window's.
Resize ==
  /\ ui' = Drawn([ui EXCEPT !.narrow = ~@])
  /\ UNCHANGED <<srv, net>>

-----------------------------------------------------------------------------
(* The menu                                                                *)

ToggleMenu ==
  /\ ui' = IF ui.menu THEN [ui EXCEPT !.menu = FALSE, !.focus = "trigger"]
           ELSE [ui EXCEPT !.menu = TRUE, !.focus = FirstItem(ui)]
  /\ UNCHANGED <<srv, net>>
Escape ==
  /\ ui.menu
  /\ ui' = [ui EXCEPT !.menu = FALSE, !.focus = "trigger"]
  /\ UNCHANGED <<srv, net>>
\* A click outside and the Tab key.
Leave ==
  /\ ui.menu
  /\ ui' = [ui EXCEPT !.menu = FALSE, !.focus = "elsewhere"]
  /\ UNCHANGED <<srv, net>>

\* The page does what the item says; the wanted state is the one on the card.
Snoozed(n) == [n EXCEPT !.snooze = @ \cup {~ui.match.snoozed}, !.ops = @ + 1]
Pick(a) ==
  /\ ui.menu /\ a \in InMenu(ui) /\ (a = "snooze" => Asks)
  /\ ui' = [ui EXCEPT !.menu = FALSE, !.focus = "trigger"]
  /\ net' = IF a = "snooze" THEN Snoozed(net) ELSE net
  /\ UNCHANGED srv
SnoozeInRow ==
  /\ "snooze" \in InRow(ui) /\ Asks
  /\ net' = Snoozed(net)
  /\ UNCHANGED <<srv, ui>>

-----------------------------------------------------------------------------
(* The form of the target                                                  *)

ToggleForm ==
  /\ "target" \in InRow(ui)
  /\ ui' = [ui EXCEPT !.form = ~@, !.error = FALSE]
  /\ UNCHANGED <<srv, net>>
CancelForm ==
  /\ FormShown(ui)
  /\ ui' = [ui EXCEPT !.form = FALSE]
  /\ UNCHANGED <<srv, net>>
\* Nothing stands for a text that is no price.
Type(v) ==
  /\ FormShown(ui) /\ v # ui.input
  /\ ui' = [ui EXCEPT !.input = v, !.error = FALSE]
  /\ UNCHANGED <<srv, net>>
Submit ==
  /\ FormShown(ui)
  /\ IF ui.input = Nothing
       THEN ui' = [ui EXCEPT !.error = TRUE] /\ UNCHANGED net
       ELSE /\ Asks
            /\ ui' = [ui EXCEPT !.error = FALSE, !.form = FALSE]
            /\ net' = [net EXCEPT !.target = @ \cup {ui.input}, !.ops = @ + 1]
  /\ UNCHANGED srv

-----------------------------------------------------------------------------
(* The api, and the feed drawn again                                       *)

ServeTarget(v) ==
  /\ srv' = [srv EXCEPT !.target = v]
  /\ net' = [net EXCEPT !.target = @ \ {v}]
  /\ UNCHANGED ui
ServeSnooze(s) ==
  /\ srv' = [srv EXCEPT !.snoozed = s]
  /\ net' = [net EXCEPT !.snooze = @ \ {s}]
  /\ UNCHANGED ui
\* The target or the price of the match, changed elsewhere.
EditElsewhere ==
  /\ Asks
  /\ \/ \E v \in (Targets \cup {Nothing}) \ {srv.target} : srv' = [srv EXCEPT !.target = v]
     \/ srv' = [srv EXCEPT !.priced = ~@]
  /\ net' = [net EXCEPT !.ops = @ + 1]
  /\ UNCHANGED ui

\* The card keeps its state: its key is the match's id.
Redraw_Remounted ==
  /\ srv # ui.match
  /\ ui' = Drawn([ui EXCEPT !.match = srv, !.form = FALSE, !.input = srv.target])
  /\ UNCHANGED <<srv, net>>
Redraw ==
  /\ srv # ui.match
  /\ ui' = Drawn([ui EXCEPT !.match = srv])
  /\ UNCHANGED <<srv, net>>

Next ==
  \/ Resize \/ ToggleMenu \/ Escape \/ Leave \/ SnoozeInRow
  \/ \E a \in Actions : Pick(a)
  \/ ToggleForm \/ CancelForm \/ Submit
  \/ \E v \in Targets \cup {Nothing} : Type(v)
  \/ \E v \in net.target : ServeTarget(v)
  \/ \E s \in net.snooze : ServeSnooze(s)
  \/ EditElsewhere \/ Redraw

Spec == Init /\ [][Next]_vars

-----------------------------------------------------------------------------
(* Properties                                                              *)

\* A card offers each of its actions once: what the width takes from the row is
\* in the menu, and a price that has to be corrected stands in for the target.
OfferedOnce ==
  LET all == {"target", "delete", "purchased"} \cup IF ui.match.product THEN {"open", "snooze", "rule"} ELSE {}
      corrected == IF CanCorrect(ui) THEN (all \ {"target"}) \cup {"correct"} ELSE all
  IN InRow(ui) \cap InMenu(ui) = {} /\ InRow(ui) \cup InMenu(ui) = corrected

\* What was typed is replaced by the administrator only, and a form that is not
\* on screen asks for no target: not when the feed is drawn again over it, nor
\* when its place is taken by a correction and given back.
DraftIsKept ==
  /\ ui'.input # ui.input => FormShown(ui) /\ ui'.match = ui.match
  /\ net'.target \ net.target # {} => net'.target \ net.target = {ui.input} /\ FormShown(ui)
=============================================================================
