----------------------------- MODULE Recipients -----------------------------
(***************************************************************************)
(* The recipients of the rules page: the list of cards                     *)
(* (pages/DestinatariosSection.tsx), the card whose delivery settings are  *)
(* edited in place (pages/RecipientCard.tsx) with its preview              *)
(* (hooks/useRecipientPreview.ts), and the form that takes the page's rail *)
(* to add or to rename a recipient (pages/RecipientRailForm.tsx).          *)
(***************************************************************************)
EXTENDS Integers, FiniteSets

CONSTANTS Recipients,  \* recipient ids
          Rules,       \* rule ids
          MaxOps,      \* bound: clicks that edit or that call the api
          Nothing      \* null

MaxReads == 2          \* bound: readings of the list under way

VARIABLES srv, ui, net
vars == <<srv, ui, net>>

Settings == [mode: {"all", "selected"}, ids: SUBSET Rules, types: SUBSET {"target", "common"}]
NewSettings == [mode |-> "all", ids |-> {}, types |-> {"target", "common"}]
Person == [settings: Settings, active: BOOLEAN]

\* What the api refuses: a chosen rule that is gone, and a choice of nothing.
ValidSettings(d, rules) ==
  /\ d.ids \subseteq rules
  /\ d.mode = "selected" => d.ids # {} /\ d.types # {}
\* The preview is asked for a draft that chooses something.
Previewable(d) == d.mode = "selected" => d.ids # {} /\ d.types # {}

Card == [draft: Settings, saving: BOOLEAN, timer: BOOLEAN, preview: Settings \cup {Nothing}]
FreshCard(p) ==
  [draft |-> p.settings, saving |-> FALSE, timer |-> Previewable(p.settings), preview |-> Nothing]

RailForm == [of: Recipients \cup {Nothing}, submitting: BOOLEAN, invalid: BOOLEAN]
NoRail == Nothing

TypeOK ==
  /\ srv.rules \subseteq Rules
  /\ DOMAIN srv.people \subseteq Recipients /\ \A r \in DOMAIN srv.people : srv.people[r] \in Person
  /\ DOMAIN ui.list \subseteq Recipients /\ \A r \in DOMAIN ui.list : ui.list[r] \in Person
  /\ DOMAIN ui.cards \subseteq DOMAIN ui.list /\ \A r \in DOMAIN ui.cards : ui.cards[r] \in Card
  /\ ui.loading \in BOOLEAN /\ ui.error \in BOOLEAN
  /\ ui.pausing \in Recipients \cup {Nothing} /\ ui.deleting \in Recipients \cup {Nothing}
  /\ ui.rail \in RailForm \cup {NoRail}
  /\ \A r \in net.reads : r.last \in BOOLEAN /\ r.answered \in BOOLEAN
  /\ \A c \in net.calls : c.op \in {"pause", "delete", "save", "add", "rename"} /\ c.st \in {"sent", "ok", "error"}
  /\ \A a \in net.asks : a.r \in Recipients /\ a.of \in Settings /\ a.live \in BOOLEAN
  /\ net.late \in BOOLEAN /\ net.ops \in 0..MaxOps

\* reload
Reloaded(n) ==
  [n EXCEPT !.reads = {[r EXCEPT !.last = FALSE] : r \in @}
                        \cup {[last |-> TRUE, answered |-> FALSE, list |-> <<>>]}]
CanRead(n) == Cardinality(n.reads) < MaxReads

First == CHOOSE r \in Recipients : TRUE   \* the other ones are added here
Init ==
  /\ \E d \in {NewSettings, [NewSettings EXCEPT !.mode = "selected", !.ids = Rules]} :
       srv = [rules |-> Rules, people |-> [r \in {First} |-> [settings |-> d, active |-> TRUE]]]
  /\ ui = [list |-> <<>>, cards |-> <<>>, loading |-> TRUE, error |-> FALSE,
           pausing |-> Nothing, deleting |-> Nothing, rail |-> NoRail]
  /\ net = Reloaded([reads |-> {}, calls |-> {}, asks |-> {}, late |-> FALSE, ops |-> 0])

CanAct == net.ops < MaxOps
Counted(n) == [n EXCEPT !.ops = @ + 1]
Sent(op, r, draft) ==
  [Counted(net) EXCEPT !.calls = @ \cup {[n |-> net.ops, op |-> op, r |-> r, draft |-> draft, mine |-> TRUE, st |-> "sent"]}]
\* The answers to the previews of these cards are dropped from now on.
Stale(n, rs) == [n EXCEPT !.asks = {[a EXCEPT !.live = @ /\ a.r \notin rs] : a \in @}]
\* What a component that is gone called is nobody's: its handler still runs.
Orphaned(n, ops, rs) == [n EXCEPT !.calls = {[c EXCEPT !.mine = @ /\ ~(c.op \in ops /\ c.r \in rs)] : c \in @}]
Unmounted(n, rs) == Orphaned(Stale(n, rs), {"save"}, rs)
RailGone(n) == Orphaned(n, {"add", "rename"}, Recipients \cup {Nothing})

-----------------------------------------------------------------------------
(* A card and its draft                                                    *)

\* The effect on the draft's key: the timer starts over when there is something
\* to ask, what was asked before is stale.
WithDraft(c, d) == IF d = c.draft THEN c ELSE [c EXCEPT !.draft = d, !.timer = Previewable(d)]

Toggled(set, x) == IF x \in set THEN set \ {x} ELSE set \cup {x}
\* The mode, the chips of the rules that still exist, and the two switches.
Edits(d) ==
  {[d EXCEPT !.mode = m] : m \in {"all", "selected"} \ {d.mode}}
    \cup {[d EXCEPT !.ids = Toggled(@, rule)] : rule \in IF d.mode = "selected" THEN srv.rules ELSE {}}
    \cup {[d EXCEPT !.types = Toggled(@, "common")]}
EditCard(r) ==
  /\ CanAct /\ r \in DOMAIN ui.cards
  /\ \E d \in Edits(ui.cards[r].draft) : ui' = [ui EXCEPT !.cards[r] = WithDraft(@, d)]
  /\ net' = Counted(Stale(net, {r}))
  /\ UNCHANGED srv

Dirty(r) == ui.cards[r].draft # ui.list[r].settings
Discard(r) ==
  /\ r \in DOMAIN ui.cards /\ Dirty(r) /\ ~ui.cards[r].saving
  /\ ui' = [ui EXCEPT !.cards[r] = WithDraft(@, ui.list[r].settings)]
  /\ net' = Stale(net, {r})
  /\ UNCHANGED srv
SaveCard(r) ==
  /\ CanAct /\ r \in DOMAIN ui.cards /\ Dirty(r) /\ ~ui.cards[r].saving
  /\ ui' = [ui EXCEPT !.cards[r].saving = TRUE]
  /\ net' = Sent("save", r, ui.cards[r].draft)
  /\ UNCHANGED srv

\* The debounced preview is asked, and answered.
AskPreview(r) ==
  /\ r \in DOMAIN ui.cards /\ ui.cards[r].timer
  /\ ui' = [ui EXCEPT !.cards[r].timer = FALSE]
  /\ net' = [net EXCEPT !.asks = @ \cup {[r |-> r, of |-> ui.cards[r].draft, live |-> TRUE]}]
  /\ UNCHANGED srv
AnswerPreview_NeverStale(a, ok) ==
  /\ ok => ValidSettings(a.of, srv.rules)
  /\ ui' = IF a.r \in DOMAIN ui.cards
             THEN [ui EXCEPT !.cards[a.r].preview = IF ok THEN a.of ELSE Nothing] ELSE ui
  /\ net' = [net EXCEPT !.asks = @ \ {a}]
  /\ UNCHANGED srv
AnswerPreview(a, ok) ==
  /\ ok => ValidSettings(a.of, srv.rules)
  /\ ui' = IF a.live THEN [ui EXCEPT !.cards[a.r].preview = IF ok THEN a.of ELSE Nothing] ELSE ui
  /\ net' = [net EXCEPT !.asks = @ \ {a}]
  /\ UNCHANGED srv

-----------------------------------------------------------------------------
(* The list                                                                *)

AnswerRead(r) ==
  /\ ~r.answered
  /\ net' = [net EXCEPT !.reads = (@ \ {r}) \cup {[r EXCEPT !.answered = TRUE, !.list = srv.people]}]
  /\ UNCHANGED <<srv, ui>>

\* A card stays mounted with its draft, unless the settings it was drawn from
\* are other ones now: then the draft follows them.
Followed(list, r) ==
  IF r \notin DOMAIN ui.cards THEN FreshCard(list[r])
  ELSE IF ui.list[r].settings = list[r].settings THEN ui.cards[r]
  ELSE WithDraft(ui.cards[r], list[r].settings)
ShowRead(r) ==
  /\ r.answered
  /\ LET cards == [p \in DOMAIN r.list |-> Followed(r.list, p)] IN
     /\ ui' = [ui EXCEPT !.list = r.list, !.cards = cards, !.loading = FALSE, !.error = FALSE]
     /\ net' = [Stale(Unmounted(net, DOMAIN ui.cards \ DOMAIN cards),
                      {p \in DOMAIN cards \cap DOMAIN ui.cards : cards[p].draft # ui.cards[p].draft})
                  EXCEPT !.reads = @ \ {r}, !.late = ~r.last]
  /\ UNCHANGED srv

\* An error takes the place of the cards, which lose what was typed in them.
Failed(u) == [u EXCEPT !.error = TRUE, !.cards = <<>>]
FailRead(r) ==
  /\ ~r.answered
  /\ ui' = [Failed(ui) EXCEPT !.loading = FALSE]
  /\ net' = [Unmounted(net, Recipients) EXCEPT !.reads = @ \ {r}]
  /\ UNCHANGED srv

Pause(r) ==
  /\ CanAct /\ r \in DOMAIN ui.cards /\ ui.list[r].active /\ ui.pausing # r
  /\ ui' = [ui EXCEPT !.pausing = r]
  /\ net' = Sent("pause", r, Nothing)
  /\ UNCHANGED srv
Delete(r) ==
  /\ CanAct /\ r \in DOMAIN ui.cards /\ ui.deleting # r
  /\ ui' = [ui EXCEPT !.deleting = r]
  /\ net' = Sent("delete", r, Nothing)
  /\ UNCHANGED srv

-----------------------------------------------------------------------------
(* The form in the rail                                                    *)

\* "Adicionar destinatário" and "Editar": another target is another form.
OpenRail(of) ==
  /\ CanAct /\ of \in DOMAIN ui.cards \cup {Nothing}
  /\ ui.rail # NoRail => ui.rail.of # of
  /\ ui' = [ui EXCEPT !.rail = [of |-> of, submitting |-> FALSE, invalid |-> FALSE]]
  /\ net' = Counted(RailGone(net))
  /\ UNCHANGED srv
CancelRail ==
  /\ ui.rail # NoRail
  /\ ui' = [ui EXCEPT !.rail = NoRail]
  /\ net' = RailGone(net)
  /\ UNCHANGED srv
\* Only a new recipient chooses its rules here, and may choose none.
ChooseInRail ==
  /\ CanAct /\ ui.rail # NoRail /\ ui.rail.of = Nothing
  /\ ui' = [ui EXCEPT !.rail.invalid = ~@]
  /\ net' = Counted(net)
  /\ UNCHANGED srv
SubmitRail ==
  /\ CanAct /\ ui.rail # NoRail /\ ~ui.rail.submitting /\ ~ui.rail.invalid
  /\ ui' = [ui EXCEPT !.rail.submitting = TRUE]
  /\ net' = IF ui.rail.of # Nothing THEN Sent("rename", ui.rail.of, Nothing)
            ELSE Sent("add", Nothing, Nothing)
  /\ UNCHANGED srv

-----------------------------------------------------------------------------
(* The api, and the handlers that wait for it                              *)

With(c, st) == [net EXCEPT !.calls = (@ \ {c}) \cup {[c EXCEPT !.st = st]}]
Without(f, x) == [y \in DOMAIN f \ {x} |-> f[y]]

Allowed(c) ==
  /\ c.op \notin {"add"} => c.r \in DOMAIN srv.people
  /\ c.op = "save" => ValidSettings(c.draft, srv.rules)
  /\ c.op = "add" => DOMAIN srv.people # Recipients
Served(c) ==
  CASE c.op = "pause" -> {[srv.people EXCEPT ![c.r].active = FALSE]}
    [] c.op = "delete" -> {Without(srv.people, c.r)}
    [] c.op = "save" -> {[srv.people EXCEPT ![c.r].settings = c.draft]}
    [] c.op = "rename" -> {srv.people}
    [] c.op = "add" -> {[r \in DOMAIN srv.people \cup {new} |->
                           IF r = new THEN [settings |-> NewSettings, active |-> TRUE] ELSE srv.people[r]] :
                          new \in Recipients \ DOMAIN srv.people}
Serve(c) ==
  /\ c.st = "sent" /\ Allowed(c)
  /\ \E people \in Served(c) : srv' = [srv EXCEPT !.people = people]
  /\ net' = With(c, "ok")
  /\ UNCHANGED ui
Refuse(c) ==
  /\ c.st = "sent"
  /\ net' = With(c, "error")
  /\ UNCHANGED <<srv, ui>>

Gone(c) == [net EXCEPT !.calls = @ \ {c}]
\* Whichever call of a kind ends clears the mark of its kind.
Ended(u, c) ==
  CASE c.op = "pause" -> [u EXCEPT !.pausing = Nothing]
    [] c.op = "delete" -> [u EXCEPT !.deleting = Nothing]
    [] c.op = "save" -> IF c.mine THEN [u EXCEPT !.cards[c.r].saving = FALSE] ELSE u
    [] OTHER -> IF c.mine THEN [u EXCEPT !.rail.submitting = FALSE] ELSE u
\* A form of the rail that was saved closes the rail, whatever is in it by now.
Answer_NoReload(c) ==
  /\ c.st = "ok" /\ CanRead(net)
  /\ ui' = IF c.op \in {"add", "rename"} THEN [ui EXCEPT !.rail = NoRail] ELSE Ended(ui, c)
  /\ net' = IF c.op = "save" THEN Gone(c) ELSE Reloaded(RailGone(Gone(c)))
  /\ UNCHANGED srv
Answer(c) ==
  /\ c.st = "ok" /\ CanRead(net)
  /\ ui' = IF c.op \in {"add", "rename"} THEN [ui EXCEPT !.rail = NoRail] ELSE Ended(ui, c)
  /\ net' = Reloaded(IF c.op \in {"add", "rename"} THEN RailGone(Gone(c)) ELSE Gone(c))
  /\ UNCHANGED srv
\* A refused save is told on its card or in its form, the rest in the list's place.
AnswerFailure(c) ==
  /\ c.st = "error"
  /\ IF c.op \in {"pause", "delete"}
       THEN ui' = Failed(Ended(ui, c)) /\ net' = Unmounted(Gone(c), Recipients)
       ELSE ui' = Ended(ui, c) /\ net' = Gone(c)
  /\ UNCHANGED srv

\* A rule is deleted in the table beside: every choice loses it, the cards are
\* not read again.
RuleDeleted(rule) ==
  /\ CanAct /\ rule \in srv.rules
  /\ srv' = [rules |-> srv.rules \ {rule},
             people |-> [r \in DOMAIN srv.people |-> [srv.people[r] EXCEPT !.settings.ids = @ \ {rule}]]]
  /\ net' = Counted(net)
  /\ UNCHANGED ui

Next ==
  \/ \E r \in Recipients : \/ EditCard(r) \/ Discard(r) \/ SaveCard(r) \/ AskPreview(r)
                           \/ Pause(r) \/ Delete(r)
  \/ \E a \in net.asks, ok \in BOOLEAN : AnswerPreview(a, ok)
  \/ \E r \in net.reads : AnswerRead(r) \/ ShowRead(r) \/ FailRead(r)
  \/ \E of \in Recipients \cup {Nothing} : OpenRail(of)
  \/ CancelRail \/ ChooseInRail \/ SubmitRail
  \/ \E c \in net.calls : Serve(c) \/ Refuse(c) \/ Answer(c) \/ AnswerFailure(c)
  \/ \E rule \in Rules : RuleDeleted(rule)

Spec == Init /\ [][Next]_vars

-----------------------------------------------------------------------------
(* Properties                                                              *)

\* "Stale answers are dropped, so a slow earlier request never overwrites a
\* newer one" (useRecipientPreview.ts:16): once nothing is awaited, the preview
\* of a card is the one of the draft the card shows.
PreviewIsOfDraft ==
  \A r \in DOMAIN ui.cards :
    LET c == ui.cards[r] IN
    /\ Previewable(c.draft) /\ ~c.timer
    /\ \A a \in net.asks : ~(a.live /\ a.r = r)
    => c.preview \in {Nothing, c.draft}

\* Once nothing is awaited, the cards are the recipients the api holds with the
\* settings it holds, except for a rule deleted since and for two lists that
\* overtook each other.
Quiet == net.reads = {} /\ net.calls = {} /\ ~ui.loading /\ ~ui.error
CardsAreCurrent ==
  Quiet /\ ~net.late =>
    /\ DOMAIN ui.cards = DOMAIN srv.people
    /\ \A r \in DOMAIN ui.cards :
         /\ [ui.list[r].settings EXCEPT !.ids = @ \cap srv.rules] = srv.people[r].settings
         /\ ui.list[r].active = srv.people[r].active
=============================================================================
