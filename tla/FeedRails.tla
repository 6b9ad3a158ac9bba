----------------------------- MODULE FeedRails ------------------------------
(***************************************************************************)
(* The two rails of the live feed (pages/FeedPage.tsx): the rule filter    *)
(* with its fold, and the rails' own folding while the page is scrolled    *)
(* (chrome/scrollChrome.ts and components/RailStrip.tsx).  The switches of *)
(* the daily digest in the right one are module FeedDigest.                *)
(*                                                                         *)
(* A position of the window is a small number: 0 is the top (less than 24  *)
(* px), 1 the band in which the chrome keeps its mode, 2 and more is past  *)
(* the header (140 px).  A rail reaches down to a position that grows with *)
(* the rules it lists.                                                     *)
(***************************************************************************)
EXTENDS Integers, FiniteSets

CONSTANTS Rules,             \* rule ids, in the api's order
          RAIL_RULES_VISIBLE,\* rules listed before "Ver todas"
          MaxScroll,         \* bound: the lowest position of the window
          MaxLoads,          \* bound: lists shown, each reads the rules again
          Nothing            \* null

VARIABLES srv, ui, net
vars == <<srv, ui, net>>

Sides == {"left", "right"}
Modes == {"off", "rest", "compact"}
Closed == [side \in Sides |-> FALSE]
OffScreen == MaxScroll + 1

-----------------------------------------------------------------------------
(* What the page derives from its state                                    *)

\* Busiest rules first, the api's order among equals.
Before(a, b) == ui.counts[a] > ui.counts[b] \/ (ui.counts[a] = ui.counts[b] /\ a < b)
TopRules == {r \in ui.rules : Cardinality({s \in ui.rules : Before(s, r)}) < RAIL_RULES_VISIBLE}

\* The fold never hides the selected rule.
VisibleRules == IF ui.expanded THEN ui.rules ELSE TopRules \cup (ui.rules \cap {ui.selected})

\* nextChromeMode: past the header to fold, back at the very top to unfold.
NextMode(mode, y) ==
  IF mode = "compact" THEN IF y = 0 THEN "rest" ELSE "compact"
                      ELSE IF y > 1 THEN "compact" ELSE "rest"

Managed(u) == u.mode # "off" /\ u.wide
Compact(u) == u.mode = "compact" /\ u.wide
RailState(u, side) ==
  IF ~Managed(u) THEN "plain"
  ELSE IF ~Compact(u) THEN "open"
  ELSE IF u.open[side] THEN "pinned"
  ELSE IF u.passed[side] THEN "collapsed"
  ELSE "open"

\* The position at which a rail's bottom leaves the screen.
Bottom(side) == IF side = "left" THEN 2 + Cardinality(VisibleRules) ELSE 2

TypeOK ==
  /\ srv \in [rules: SUBSET Rules]
  /\ ui.rules \subseteq Rules /\ ui.counts \in [Rules -> 0..1]
  /\ ui.selected \in Rules \cup {Nothing} /\ ui.expanded \in BOOLEAN
  /\ ui.y \in 0..MaxScroll /\ ui.mode \in Modes /\ ui.wide \in BOOLEAN
  /\ ui.open \in [Sides -> BOOLEAN] /\ ui.passed \in [Sides -> BOOLEAN]
  /\ ui.threshold \in [Sides -> 0..OffScreen]
  /\ net \in [rules: BOOLEAN, loads: 0..MaxLoads]

Init ==
  /\ srv \in [rules: SUBSET Rules]
  /\ ui = [rules |-> {}, counts |-> [r \in Rules |-> 0], selected |-> Nothing, expanded |-> FALSE,
           y |-> 0, mode |-> "rest", wide |-> TRUE,
           open |-> Closed, passed |-> Closed, threshold |-> [side \in Sides |-> OffScreen]]
  /\ net = [rules |-> TRUE, loads |-> 0]

-----------------------------------------------------------------------------
(* Rules, matches and the filter                                           *)

\* loadRules: a lookup that fails leaves no rules.
LoadRules(ok) ==
  /\ net.rules
  /\ ui' = [ui EXCEPT !.rules = IF ok THEN srv.rules ELSE {}]
  /\ net' = [net EXCEPT !.rules = FALSE]
  /\ UNCHANGED srv

\* Another list of matches is shown: the effect on "matches" reads the rules.
ShowMatches(counts) ==
  /\ net.loads < MaxLoads
  /\ ui' = [ui EXCEPT !.counts = counts]
  /\ net' = [net EXCEPT !.loads = @ + 1, !.rules = TRUE]
  /\ UNCHANGED srv

\* A rule is created or deleted in another tab.
OtherRules(r) ==
  /\ net.loads < MaxLoads
  /\ srv' = [srv EXCEPT !.rules = IF r \in @ THEN @ \ {r} ELSE @ \cup {r}]
  /\ UNCHANGED <<ui, net>>

\* A button of the rail is there while the rail is not an icon strip.
Reachable(side) == RailState(ui, side) # "collapsed"

SelectRule(r) ==
  /\ Reachable("left") /\ r \in VisibleRules \cup {Nothing}
  /\ ui' = [ui EXCEPT !.selected = r]
  /\ UNCHANGED <<srv, net>>

\* "Ver todas" / "Ver menos", when the fold hides something.
ToggleExpanded ==
  /\ Reachable("left") /\ Cardinality(ui.rules) > RAIL_RULES_VISIBLE
  /\ ui' = [ui EXCEPT !.expanded = ~@]
  /\ UNCHANGED <<srv, net>>

-----------------------------------------------------------------------------
(* The rails fold while the page is scrolled                               *)

\* setState during render: outside compact no rail is pinned or passed.
Settled(u) == IF Compact(u) THEN u ELSE [u EXCEPT !.open = Closed, !.passed = Closed]

\* check, the scroll listener: a rail that was scrolled past stays so.
Checked_EveryRail(u) == [u EXCEPT !.passed = [side \in Sides |-> @[side] \/ \E s \in Sides : u.y > u.threshold[s]]]
Checked(u) == [u EXCEPT !.passed = [side \in Sides |-> @[side] \/ u.y > u.threshold[side]]]

\* The effect on railsCompact measures both rails once, and checks at once.
Measured(u) == Checked([u EXCEPT !.threshold = [side \in Sides |-> Bottom(side)]])

\* A change of mode or width, and the listener while compact.
Moved(u) == IF ~Compact(u) THEN Settled(u)
            ELSE IF ~Compact(ui) THEN Measured(u) ELSE Checked(u)

Scroll(y) ==
  /\ y # ui.y
  /\ ui' = Moved([ui EXCEPT !.y = y, !.mode = IF @ = "off" THEN @ ELSE NextMode(@, y)])
  /\ UNCHANGED <<srv, net>>

\* The grid gets less than three columns (the product panel opens) or again.
ResizeGrid ==
  /\ ui' = Moved([ui EXCEPT !.wide = ~@])
  /\ UNCHANGED <<srv, net>>

\* The window crosses the wide breakpoint: the chrome is off below it.
ResizeWindow ==
  /\ ui' = Moved([ui EXCEPT !.mode = IF @ = "off" THEN NextMode("rest", ui.y) ELSE "off"])
  /\ UNCHANGED <<srv, net>>

\* The strip's icons, and "Recolher painel".
SetRailOpen(side, open) ==
  /\ RailState(ui, side) = IF open THEN "collapsed" ELSE "pinned"
  /\ ui' = [ui EXCEPT !.open[side] = open]
  /\ UNCHANGED <<srv, net>>

-----------------------------------------------------------------------------
Next ==
  \/ \E ok \in BOOLEAN : LoadRules(ok)
  \/ \E counts \in [Rules -> 0..1] : ShowMatches(counts)
  \/ \E r \in Rules : OtherRules(r)
  \/ \E r \in Rules \cup {Nothing} : SelectRule(r)
  \/ ToggleExpanded
  \/ \E y \in 0..MaxScroll : Scroll(y)
  \/ ResizeGrid \/ ResizeWindow
  \/ \E side \in Sides, open \in BOOLEAN : SetRailOpen(side, open)

Spec == Init /\ [][Next]_vars

-----------------------------------------------------------------------------
(* Properties                                                              *)

Folds(side) == RailState(ui, side) = "open" /\ RailState(ui', side) = "collapsed"

\* "A rail only folds into its strip once the page has scrolled past it"
\* (FeedPage.tsx:458): a rail as long as it was when it was measured never folds
\* while any of it is on screen.  One that has grown since may.
FoldsOncePassed ==
  \A side \in Sides : Folds(side) /\ Compact(ui) /\ Bottom(side) <= ui.threshold[side]
    => ui'.y > Bottom(side)
=============================================================================
