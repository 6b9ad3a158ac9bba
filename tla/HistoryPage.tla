----------------------------- MODULE HistoryPage ----------------------------
(***************************************************************************)
(* The history page (pages/HistoricoPage.tsx): filters kept in the tab's   *)
(* session storage (hooks/usePersistentFilters.ts), a debounced search,    *)
(* the list they select, and the calls of the product panel and of a row's *)
(* menu, which read the list again when they are answered.                 *)
(*                                                                         *)
(* What the api answers is kept as the filters it was asked with and the   *)
(* matches it held; which of them the filters select is the api's.         *)
(***************************************************************************)
EXTENDS Integers, FiniteSets

CONSTANTS Matches,   \* match ids, each of a product of its own
          Searches,  \* texts of the search
          Choices,   \* values of the other filters together
          NoSearch, NoChoice,  \* the empty ones
          MaxOps,    \* bound: changes of a filter and calls
          Nothing    \* null


MaxReads == 2        \* bound: readings of the list under way

VARIABLES srv, ui, net
vars == <<srv, ui, net>>

FilterForm == [search: Searches, choice: Choices]
EMPTY_FILTERS == [search |-> NoSearch, choice |-> NoChoice]
Rows == [of: FilterForm, has: SUBSET Matches]
Ops == {"snooze", "target", "delete"}

TypeOK ==
  /\ srv.matches \subseteq Matches /\ srv.elsewhere \subseteq Matches
  /\ ui.form \in FilterForm /\ ui.applied \in Searches /\ ui.stored \in FilterForm \cup {Nothing}
  /\ ui.rows \in Rows \cup {Nothing} /\ ui.loading \in BOOLEAN /\ ui.error \in BOOLEAN
  /\ ui.panel \in Matches \cup {Nothing} /\ ui.dialog \in Matches \cup {Nothing} /\ ui.busy \in BOOLEAN
  /\ \A r \in net.reads : r.of \in FilterForm /\ r.last \in BOOLEAN /\ r.here \in BOOLEAN
  /\ \A c \in net.calls : c.op \in Ops /\ c.match \in Matches /\ c.of \in FilterForm
                            /\ c.st \in {"sent", "ok", "404", "error", "reload"}
  /\ net.blocked \in BOOLEAN /\ net.late \in BOOLEAN /\ net.ops \in 0..MaxOps

\* The filters the list is asked with: the search as it was last applied.
toApiFilters(u) == [u.form EXCEPT !.search = u.applied]

\* loadMatches, as the render that is on the screen or an earlier one made it.
Loaded(u, n, of) ==
  /\ ui' = [u EXCEPT !.loading = TRUE]
  /\ net' = [n EXCEPT !.reads =
       {[r EXCEPT !.last = FALSE] : r \in @}
         \cup {[of |-> of, has |-> Nothing, last |-> TRUE, here |-> of = toApiFilters(u)]}]
CanRead == Cardinality(net.reads) < MaxReads

\* The page as it is mounted, with what the storage kept.
Mounted(stored) ==
  LET form == IF stored = Nothing THEN EMPTY_FILTERS ELSE stored IN
  [form |-> form, applied |-> form.search, stored |-> stored, rows |-> Nothing, loading |-> TRUE,
   error |-> FALSE, panel |-> Nothing, dialog |-> Nothing, busy |-> FALSE]
FirstRead(u) == {[of |-> toApiFilters(u), has |-> Nothing, last |-> TRUE, here |-> TRUE]}

\* Storage the browser blocks, or what an earlier visit left: a form, or
\* something that parseStoredHistoricoFilters does not trust.
Init ==
  /\ srv = [matches |-> Matches, elsewhere |-> {}]
  /\ \E blocked \in BOOLEAN, stored \in FilterForm \cup {Nothing} :
       /\ blocked => stored = Nothing
       /\ ui = Mounted(stored)
       /\ net = [reads |-> FirstRead(ui), calls |-> {}, blocked |-> blocked, late |-> FALSE, ops |-> 0]

CanAct == net.ops < MaxOps
Counted(n) == [n EXCEPT !.ops = @ + 1]

-----------------------------------------------------------------------------
(* The filters                                                             *)

\* setValue writes what it sets, reset removes it.
Kept(u, form) == [u EXCEPT !.form = form, !.stored = IF net.blocked THEN Nothing ELSE form]
Reset_Stored(u) == [u EXCEPT !.form = EMPTY_FILTERS]
Reset(u) == [u EXCEPT !.form = EMPTY_FILTERS, !.stored = Nothing]

\* The effects of a render: an emptied search applies at once, any other with its
\* timer, and filters that are other ones ask for the list.
Rendered(u, n) ==
  LET applied == [u EXCEPT !.applied = IF u.form.search = NoSearch THEN NoSearch ELSE @] IN
  IF toApiFilters(applied) = toApiFilters(ui)
    THEN ui' = applied /\ net' = Counted(n)
    ELSE CanRead /\ Loaded(applied, Counted(n), toApiFilters(applied))

ChangeField ==
  /\ CanAct
  /\ \E form \in FilterForm : /\ form # ui.form
                              /\ form.search = ui.form.search \/ form.choice = ui.form.choice
                              /\ Rendered(Kept(ui, form), net)
  /\ UNCHANGED srv
ClearFilters == CanAct /\ Rendered(Reset(ui), net) /\ UNCHANGED srv

SearchTimer ==
  /\ ui.applied # ui.form.search /\ CanRead
  /\ LET u == [ui EXCEPT !.applied = ui.form.search] IN Loaded(u, net, toApiFilters(u))
  /\ UNCHANGED srv

\* "Atualizar"
Refresh == CanAct /\ CanRead /\ Loaded(ui, Counted(net), toApiFilters(ui)) /\ UNCHANGED srv

\* To another page and back, or F5: what was asked finds no page any more.
ComeBack ==
  /\ CanAct
  /\ ui' = Mounted(ui.stored)
  /\ net' = [Counted(net) EXCEPT !.reads = FirstRead(ui'), !.late = FALSE,
                                 !.calls = {[c EXCEPT !.left = TRUE] : c \in {d \in @ : d.op = "delete" /\ d.st = "sent"}}]
  /\ UNCHANGED srv

-----------------------------------------------------------------------------
(* The list                                                                *)

AnswerRead(r) ==
  /\ r.has = Nothing
  /\ net' = [net EXCEPT !.reads = (@ \ {r}) \cup {[r EXCEPT !.has = srv.matches]}]
  /\ UNCHANGED <<srv, ui>>
ShowRead(r) ==
  /\ r.has # Nothing
  /\ ui' = [ui EXCEPT !.rows = [of |-> r.of, has |-> r.has], !.error = FALSE, !.loading = FALSE]
  /\ net' = [net EXCEPT !.reads = @ \ {r}, !.late = ~r.last \/ ~r.here]
  /\ UNCHANGED srv
FailRead(r) ==
  /\ r.has = Nothing
  /\ ui' = [ui EXCEPT !.error = TRUE, !.loading = FALSE]
  /\ net' = [net EXCEPT !.reads = @ \ {r}]
  /\ UNCHANGED srv

RowIsShown(m) == ~ui.loading /\ ~ui.error /\ m \in ui.rows.has
OpenProduct(m) ==
  /\ RowIsShown(m) /\ ui.panel # m
  /\ ui' = [ui EXCEPT !.panel = m]
  /\ UNCHANGED <<srv, net>>
CloseProduct ==
  /\ ui.panel # Nothing
  /\ ui' = [ui EXCEPT !.panel = Nothing]
  /\ UNCHANGED <<srv, net>>

-----------------------------------------------------------------------------
(* Calls                                                                   *)

\* A handler goes on with the render it was clicked in.
Sent(op, m) ==
  [Counted(net) EXCEPT !.calls =
     @ \cup {[n |-> net.ops, op |-> op, match |-> m, of |-> toApiFilters(ui), left |-> FALSE, st |-> "sent"]}]

\* The panel's target and silence, while its product is in the list.
PanelCall(op) ==
  /\ CanAct /\ ui.panel # Nothing /\ ui.rows # Nothing /\ ui.panel \in ui.rows.has
  /\ net' = Sent(op, ui.panel)
  /\ UNCHANGED <<srv, ui>>

\* "Excluir anúncio" of a row and "Excluir" of the panel are confirmed first.
AskDelete(m) ==
  /\ ui.dialog = Nothing /\ (RowIsShown(m) \/ ui.panel = m)
  /\ ui' = [ui EXCEPT !.dialog = m]
  /\ UNCHANGED <<srv, net>>
CancelDelete ==
  /\ ui.dialog # Nothing /\ ~ui.busy
  /\ ui' = [ui EXCEPT !.dialog = Nothing]
  /\ UNCHANGED <<srv, net>>
ConfirmDelete ==
  /\ CanAct /\ ui.dialog # Nothing /\ ~ui.busy
  /\ ui' = [ui EXCEPT !.busy = TRUE]
  /\ net' = Sent("delete", ui.dialog)
  /\ UNCHANGED srv

With(c, st) == [net EXCEPT !.calls = (@ \ {c}) \cup {[c EXCEPT !.st = st]}]
Serve(c) ==
  /\ c.st = "sent" /\ ~c.left
  /\ IF c.op = "delete"
       THEN /\ srv' = [srv EXCEPT !.matches = @ \ {c.match}]
            /\ net' = With(c, IF c.match \in srv.matches THEN "ok" ELSE "404")
       ELSE /\ net' = With(c, "ok") /\ UNCHANGED srv
  /\ UNCHANGED ui
ServeFails(c) == c.st = "sent" /\ ~c.left /\ net' = With(c, "error") /\ UNCHANGED <<srv, ui>>

Gone(c) == [net EXCEPT !.calls = @ \ {c}]
\* Of a page that was left nothing goes on but what the api does.
ServeLeft(c) ==
  /\ c.left
  /\ srv' = [matches |-> srv.matches \ {c.match}, elsewhere |-> srv.elsewhere \cup {c.match}]
  /\ net' = Gone(c)
  /\ UNCHANGED ui

\* Rules or silences are read first, whatever that answers.
AwaitLookups(c) ==
  /\ c.st = "ok" /\ c.op # "delete"
  /\ net' = With(c, "reload")
  /\ UNCHANGED <<srv, ui>>
AnswerPanelCall(c) ==
  /\ c.st = "reload" /\ CanRead
  /\ Loaded(ui, Gone(c), c.of)
  /\ UNCHANGED srv
AnswerDelete_NoReload(c) ==
  /\ c.op = "delete" /\ c.st \in {"ok", "404"} /\ CanRead
  /\ ui' = [ui EXCEPT !.dialog = Nothing, !.busy = FALSE, !.panel = IF @ = c.match THEN Nothing ELSE @]
  /\ net' = Gone(c)
  /\ UNCHANGED srv
AnswerDelete(c) ==
  /\ c.op = "delete" /\ c.st \in {"ok", "404"} /\ CanRead
  /\ Loaded([ui EXCEPT !.dialog = Nothing, !.busy = FALSE, !.panel = IF @ = c.match THEN Nothing ELSE @],
            Gone(c), c.of)
  /\ UNCHANGED srv
\* A toast tells it.
AnswerFailure(c) ==
  /\ c.st = "error"
  /\ ui' = IF c.op = "delete" THEN [ui EXCEPT !.busy = FALSE] ELSE ui
  /\ net' = Gone(c)
  /\ UNCHANGED srv

OtherDelete(m) ==
  /\ srv' = [matches |-> srv.matches \ {m}, elsewhere |-> srv.elsewhere \cup {m}]
  /\ UNCHANGED <<ui, net>>

Next ==
  \/ ChangeField \/ ClearFilters \/ SearchTimer \/ Refresh \/ ComeBack
  \/ \E r \in net.reads : AnswerRead(r) \/ ShowRead(r) \/ FailRead(r)
  \/ \E m \in Matches : OpenProduct(m) \/ AskDelete(m)
  \/ \E m \in srv.matches : OtherDelete(m)
  \/ CloseProduct \/ CancelDelete \/ ConfirmDelete
  \/ \E op \in {"snooze", "target"} : PanelCall(op)
  \/ \E c \in net.calls : \/ Serve(c) \/ ServeFails(c) \/ ServeLeft(c)
                          \/ AwaitLookups(c) \/ AnswerPanelCall(c) \/ AnswerDelete(c) \/ AnswerFailure(c)

Spec == Init /\ [][Next]_vars

-----------------------------------------------------------------------------
(* Properties                                                              *)

Quiet == net.reads = {} /\ net.calls = {} /\ ui.applied = ui.form.search /\ ~ui.error

\* Once nothing is awaited the rows are of the filters in the form and hold
\* nothing that was deleted here, unless an older answer came last or the answer
\* was asked by a handler of an earlier render.
RowsAreOfFilters ==
  Quiet /\ ~net.late => /\ ui.rows.of = ui.form
                        /\ ui.rows.has \ srv.matches \subseteq srv.elsewhere

\* "reopening the page (or coming back from the Feed) must not resurrect the
\* filters Gabriel just cleared" (HistoricoPage.tsx:650), and keeps the ones he
\* did not clear.
FiltersSurvive == ComeBack /\ ~net.blocked => ui'.form = ui.form
=============================================================================
