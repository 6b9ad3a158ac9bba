------------------------------ MODULE PanelUrl ------------------------------
(***************************************************************************)
(* Which product the side panel shows (hooks/useProductPanel.ts), shared   *)
(* by the feed and the history page: the ?produto= of the address, the     *)
(* phase of the panel and the timer that ends its exit.  The browser's     *)
(* history is a stack of addresses and a place in it; an address is here   *)
(* the product it names, or none.  A navigation and the render it leads to *)
(* are one step.                                                           *)
(***************************************************************************)
EXTENDS Integers, Sequences

CONSTANTS Products,    \* product keys
          MaxHistory,  \* bound: addresses on the browser's stack
          Nothing      \* null

VARIABLES srv, ui, net
vars == <<srv, ui, net>>

Url(u) == u.history[u.at]

TypeOK ==
  /\ ui.history \in Seq(Products \cup {Nothing}) /\ ui.at \in 1..Len(ui.history)
  /\ ui.key \in Products \cup {Nothing}
  /\ ui.phase \in {"closed", "open", "closing"}
  /\ ui.selfInitiated \in BOOLEAN /\ ui.exit \in BOOLEAN
  /\ ui.idle \in BOOLEAN /\ ui.missed \in BOOLEAN

\* The effect on urlKey, and only on a change of it: its own change is ignored,
\* another one (back, forward, a link) opens the panel or starts its exit.
Opened(u, key) == [u EXCEPT !.exit = FALSE, !.key = key, !.phase = "open"]
Closing(u) == [u EXCEPT !.phase = "closing", !.exit = TRUE]
UrlEffect(u) ==
  IF u.selfInitiated THEN [u EXCEPT !.selfInitiated = FALSE]
  ELSE IF Url(u) # Nothing THEN Opened(u, Url(u))
  ELSE IF u.phase = "closed" THEN u ELSE Closing(u)
Rendered(u) == IF Url(u) = Url(ui) THEN u ELSE UrlEffect(u)

\* setSearchParams with replace: false, which forgets what was ahead.  A click that
\* leaves the address as it was is idle: the effect does not run, and the mark that
\* the change is the panel's own waits for the next change.
Push(u, url) == [u EXCEPT !.history = Append(SubSeq(@, 1, u.at), url), !.at = @ + 1]
Clicked(u, url) ==
  Rendered([Push(u, url) EXCEPT !.idle = (url = Url(ui)), !.missed = FALSE])
CanPush == ui.at < MaxHistory

\* The page is mounted with a link to a product, or with none.
Init ==
  /\ srv = Nothing /\ net = Nothing
  /\ \E url \in Products \cup {Nothing} :
       LET fresh == [history |-> <<url>>, at |-> 1, key |-> Nothing, phase |-> "closed",
                     selfInitiated |-> FALSE, exit |-> FALSE,
                     idle |-> FALSE, missed |-> FALSE] IN
       ui = UrlEffect(fresh)

\* "Abrir produto", a card's title or "Corrigir", of any product of the list.
Open_ExitGoesOn(key) ==
  /\ CanPush
  /\ ui' = Clicked([ui EXCEPT !.selfInitiated = TRUE, !.key = key, !.phase = "open"], key)
  /\ UNCHANGED <<srv, net>>
Open(key) ==
  /\ CanPush
  /\ ui' = Clicked(Opened([ui EXCEPT !.selfInitiated = TRUE], key), key)
  /\ UNCHANGED <<srv, net>>

\* The cross, Esc, a click outside, the sheet dragged down: all of them work
\* while the panel is there, on its way out too.
Close ==
  /\ ui.phase # "closed" /\ CanPush
  /\ ui' = Clicked(Closing([ui EXCEPT !.selfInitiated = TRUE]), Nothing)
  /\ UNCHANGED <<srv, net>>

ExitEnds ==
  /\ ui.exit
  /\ ui' = [ui EXCEPT !.exit = FALSE, !.phase = "closed", !.key = Nothing]
  /\ UNCHANGED <<srv, net>>

\* The browser's back and forward buttons.  After an idle click the effect takes the
\* change for the panel's own, and misses it.
Navigate(at) ==
  /\ at \in {ui.at - 1, ui.at + 1} /\ at \in 1..Len(ui.history)
  /\ LET moved == ui.history[at] # Url(ui) IN
     ui' = Rendered([ui EXCEPT !.at = at, !.missed = IF moved THEN ui.idle ELSE @,
                               !.idle = @ /\ ~moved])
  /\ UNCHANGED <<srv, net>>

Next ==
  \/ \E key \in Products : Open(key)
  \/ Close \/ ExitEnds
  \/ \E at \in 1..MaxHistory : Navigate(at)

Spec == Init /\ [][Next]_vars

-----------------------------------------------------------------------------
(* Properties                                                              *)

\* The panel and the address agree, once no exit is under way.
Agrees == IF Url(ui) = Nothing THEN ui.phase = "closed"
                               ELSE ui.phase = "open" /\ ui.key = Url(ui)

\* "?produto=<key> is the single source of truth for is a panel open, and which
\* one" (useProductPanel.ts:28), whatever is clicked and whatever button of the
\* browser is used; but not from a back or forward that came after an idle click,
\* opening what is open or closing what is on its way out, until the next change.
UrlIsTheTruth == ~ui.exit /\ ~ui.missed => Agrees

\* The same without the exception, as the comment has it: it does not hold.
SingleSourceOfTruth == ~ui.exit => Agrees
=============================================================================
