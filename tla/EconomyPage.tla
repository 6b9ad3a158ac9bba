----------------------------- MODULE EconomyPage ----------------------------
(***************************************************************************)
(* The savings page (pages/EconomiaPage.tsx): the purchases and the report *)
(* about them, read together by two requests, the form of a purchase, its  *)
(* confirmed deletion and the dialog of the goal.  The search in the form  *)
(* is module LinkSearch.                                                   *)
(*                                                                         *)
(* A purchase is its id and how often it was written.                      *)
(***************************************************************************)
EXTENDS Integers, FiniteSets

CONSTANTS Ids,       \* purchase ids
          MaxOps,    \* bound: clicks that open a form or call the api
          Nothing    \* null

MaxReads == 2        \* bound: readings under way

VARIABLES srv, ui, net
vars == <<srv, ui, net>>

Written == 0..MaxOps
IsPurchases(f) == DOMAIN f \subseteq Ids /\ \A i \in DOMAIN f : f[i] \in Written
Create == 0
Form == [of: Ids \cup {Create}, label: BOOLEAN, typed: BOOLEAN]

TypeOK ==
  /\ IsPurchases(srv.purchases) /\ srv.goal \in BOOLEAN
  /\ IsPurchases(ui.purchases) /\ ui.loading \in BOOLEAN /\ ui.listError \in BOOLEAN
  /\ ui.report # Nothing => IsPurchases(ui.report.items) /\ ui.report.goal \in BOOLEAN
  /\ ui.form \in Form \cup {Nothing} /\ ui.formError \in BOOLEAN /\ ui.submitting \in BOOLEAN
  /\ ui.pendingDelete \in Ids \cup {Nothing} /\ ui.deleting \in BOOLEAN
  /\ ui.goalDialog \in BOOLEAN /\ ui.goalError \in BOOLEAN /\ ui.goalSaving \in BOOLEAN
  /\ \A r \in net.reads : r.last \in BOOLEAN
  /\ \A c \in net.calls : c.op \in {"save", "delete", "goal", "noGoal"} /\ c.st \in {"sent", "ok", "error"}
  /\ net.titles \subseteq Ids /\ net.late \in BOOLEAN /\ net.lost \in BOOLEAN /\ net.ops \in 0..MaxOps

\* reload: the list and the report are two requests.
Reloaded(n) ==
  [n EXCEPT !.reads = {[r EXCEPT !.last = FALSE] : r \in @}
                        \cup {[last |-> TRUE, list |-> Nothing, report |-> Nothing]}]
CanRead == Cardinality(net.reads) < MaxReads

\* With purchases or none, with a goal or none; "Marcar como comprado" comes here
\* with the form filled in.
Init ==
  /\ \E some \in {{}} \cup {{i} : i \in Ids}, goal \in BOOLEAN :
       srv = [purchases |-> [i \in some |-> 0], goal |-> goal]
  /\ \E form \in {Nothing, [of |-> Create, label |-> TRUE, typed |-> FALSE]} :
       ui = [purchases |-> <<>>, report |-> Nothing, loading |-> TRUE, listError |-> FALSE,
             form |-> form, formError |-> FALSE, submitting |-> FALSE,
             pendingDelete |-> Nothing, deleting |-> FALSE,
             goalDialog |-> FALSE, goalError |-> FALSE, goalSaving |-> FALSE]
  /\ net = Reloaded([reads |-> {}, calls |-> {}, titles |-> {}, late |-> FALSE, lost |-> FALSE, ops |-> 0])

CanAct == net.ops < MaxOps
Counted(n) == [n EXCEPT !.ops = @ + 1]

-----------------------------------------------------------------------------
(* The list and the report                                                 *)

AnswerList(r) ==
  /\ r.list = Nothing
  /\ net' = [net EXCEPT !.reads = (@ \ {r}) \cup {[r EXCEPT !.list = [now |-> srv.purchases]]}]
  /\ UNCHANGED <<srv, ui>>
AnswerReport(r) ==
  /\ r.report = Nothing
  /\ net' = [net EXCEPT !.reads =
               (@ \ {r}) \cup {[r EXCEPT !.report = [items |-> srv.purchases, goal |-> srv.goal]]}]
  /\ UNCHANGED <<srv, ui>>
ShowRead(r) ==
  /\ r.list # Nothing /\ r.report # Nothing
  /\ ui' = [ui EXCEPT !.purchases = r.list.now, !.report = r.report, !.loading = FALSE, !.listError = FALSE]
  /\ net' = [net EXCEPT !.reads = @ \ {r}, !.late = ~r.last]
  /\ UNCHANGED srv
FailRead(r) ==
  /\ r.list = Nothing \/ r.report = Nothing
  /\ ui' = [ui EXCEPT !.loading = FALSE, !.listError = TRUE]
  /\ net' = [net EXCEPT !.reads = @ \ {r}]
  /\ UNCHANGED srv

\* A row is an item of the report; its menu needs the purchase of the list.
HasMenu(i) == ui.report # Nothing /\ i \in DOMAIN ui.report.items /\ i \in DOMAIN ui.purchases

-----------------------------------------------------------------------------
(* The form                                                                *)

\* It is another form, with what was typed gone, when its key is another one.
OpenCreate ==
  /\ CanAct
  /\ ui' = [ui EXCEPT !.formError = FALSE,
                      !.form = IF @ # Nothing /\ @.of = Create THEN [@ EXCEPT !.label = FALSE]
                               ELSE [of |-> Create, label |-> FALSE, typed |-> FALSE]]
  /\ net' = Counted(net)
  /\ UNCHANGED srv
\* The title of the product it is linked to is asked for, when it is.
OpenEdit(i) ==
  /\ CanAct /\ HasMenu(i)
  /\ ui' = [ui EXCEPT !.formError = FALSE,
                      !.form = IF @ # Nothing /\ @.of = i /\ ~@.label THEN @
                               ELSE [of |-> i, label |-> FALSE, typed |-> FALSE]]
  /\ net' = [Counted(net) EXCEPT !.titles = @ \cup {i}]
  /\ UNCHANGED srv
AnswerTitle_AnyForm(i, ok) ==
  /\ i \in net.titles
  /\ ui' = IF ok /\ ui.form # Nothing
             THEN [ui EXCEPT !.form = [of |-> i, label |-> TRUE, typed |-> FALSE]] ELSE ui
  /\ net' = [net EXCEPT !.titles = @ \ {i}]
  /\ UNCHANGED srv
AnswerTitle(i, ok) ==
  /\ i \in net.titles
  /\ ui' = IF ok /\ ui.form # Nothing /\ ui.form.of = i
             THEN [ui EXCEPT !.form = [of |-> i, label |-> TRUE, typed |-> @.typed /\ @.label]] ELSE ui
  /\ net' = [net EXCEPT !.titles = @ \ {i}]
  /\ UNCHANGED srv

Type ==
  /\ ui.form # Nothing /\ ~ui.form.typed
  /\ ui' = [ui EXCEPT !.form.typed = TRUE]
  /\ UNCHANGED <<srv, net>>
CloseForm ==
  /\ ui.form # Nothing /\ ~ui.submitting
  /\ ui' = [ui EXCEPT !.form = Nothing, !.formError = FALSE]
  /\ UNCHANGED <<srv, net>>

Sent(op, of) ==
  [Counted(net) EXCEPT !.calls = @ \cup {[n |-> net.ops, op |-> op, of |-> of, st |-> "sent"]}]
\* Fields that are right; wrong ones are told in the form and nothing is sent.
SubmitForm ==
  /\ CanAct /\ ui.form # Nothing /\ ~ui.submitting
  /\ ui' = [ui EXCEPT !.submitting = TRUE, !.formError = FALSE]
  /\ net' = Sent("save", ui.form.of)
  /\ UNCHANGED srv

-----------------------------------------------------------------------------
(* The deletion and the goal                                               *)

AskDelete(i) ==
  /\ HasMenu(i) /\ ui.pendingDelete = Nothing /\ ~ui.goalDialog
  /\ ui' = [ui EXCEPT !.pendingDelete = i]
  /\ UNCHANGED <<srv, net>>
CancelDelete ==
  /\ ui.pendingDelete # Nothing /\ ~ui.deleting
  /\ ui' = [ui EXCEPT !.pendingDelete = Nothing]
  /\ UNCHANGED <<srv, net>>
ConfirmDelete ==
  /\ CanAct /\ ui.pendingDelete # Nothing /\ ~ui.deleting
  /\ ui' = [ui EXCEPT !.deleting = TRUE]
  /\ net' = Sent("delete", ui.pendingDelete)
  /\ UNCHANGED srv

OpenGoal ==
  /\ ui.report # Nothing /\ ~ui.goalDialog /\ ui.pendingDelete = Nothing
  /\ ui' = [ui EXCEPT !.goalDialog = TRUE]
  /\ UNCHANGED <<srv, net>>
CloseGoal ==
  /\ ui.goalDialog /\ ~ui.goalSaving
  /\ ui' = [ui EXCEPT !.goalDialog = FALSE, !.goalError = FALSE]
  /\ UNCHANGED <<srv, net>>
\* "Remover meta" is there when there is one.
SubmitGoal(op) ==
  /\ CanAct /\ ui.goalDialog /\ ~ui.goalSaving
  /\ op = "noGoal" => ui.report.goal
  /\ ui' = [ui EXCEPT !.goalSaving = TRUE, !.goalError = FALSE]
  /\ net' = Sent(op, Nothing)
  /\ UNCHANGED srv

-----------------------------------------------------------------------------
(* The api, and what goes on when it answered                              *)

With(c, st) == [net EXCEPT !.calls = (@ \ {c}) \cup {[c EXCEPT !.st = st]}]
Gone(c) == [net EXCEPT !.calls = @ \ {c}]
Allowed(c) ==
  CASE c.op = "save" /\ c.of = Create -> DOMAIN srv.purchases # Ids
    [] c.op \in {"save", "delete"} /\ c.of # Create -> c.of \in DOMAIN srv.purchases
    [] OTHER -> TRUE
Served(c) ==
  LET p == srv.purchases IN
  CASE c.op = "goal" -> {[srv EXCEPT !.goal = TRUE]}
    [] c.op = "noGoal" -> {[srv EXCEPT !.goal = FALSE]}
    [] c.op = "delete" -> {[srv EXCEPT !.purchases = [i \in DOMAIN p \ {c.of} |-> p[i]]]}
    [] c.op = "save" /\ c.of = Create ->
         {[srv EXCEPT !.purchases = [i \in DOMAIN p \cup {new} |-> IF i = new THEN 0 ELSE p[i]]] :
            new \in Ids \ DOMAIN p}
    [] c.op = "save" /\ c.of # Create -> {[srv EXCEPT !.purchases[c.of] = @ + 1]}
Serve(c) ==
  /\ c.st = "sent" /\ Allowed(c)
  /\ srv' \in Served(c)
  /\ net' = With(c, "ok")
  /\ UNCHANGED ui
\* The api refuses, is not reached, or its answer is lost after it did it.
ServeFails(c) ==
  /\ c.st = "sent"
  /\ \/ UNCHANGED srv /\ net' = With(c, "error")
     \/ Allowed(c) /\ srv' \in Served(c) /\ net' = [With(c, "error") EXCEPT !.lost = TRUE]
  /\ UNCHANGED ui

\* Saved: the form that is open closes, the one that was saved or not.
Closed(u, c) ==
  CASE c.op = "save" -> [u EXCEPT !.form = Nothing, !.formError = FALSE, !.submitting = FALSE]
    [] c.op = "delete" -> [u EXCEPT !.pendingDelete = Nothing, !.deleting = FALSE]
    [] OTHER -> [u EXCEPT !.goalDialog = FALSE, !.goalError = FALSE, !.goalSaving = FALSE]
Answer_ListOnly(c) ==
  /\ c.st = "ok" /\ CanRead
  /\ ui' = Closed(ui, c)
  /\ net' = IF c.op = "goal" THEN Gone(c) ELSE Reloaded(Gone(c))
  /\ UNCHANGED srv
Answer(c) ==
  /\ c.st = "ok" /\ CanRead
  /\ ui' = Closed(ui, c)
  /\ net' = Reloaded(Gone(c))
  /\ UNCHANGED srv
AnswerFailure(c) ==
  /\ c.st = "error"
  /\ ui' = CASE c.op = "save" -> [ui EXCEPT !.formError = TRUE, !.submitting = FALSE]
             [] c.op = "delete" -> [ui EXCEPT !.pendingDelete = Nothing, !.listError = TRUE, !.deleting = FALSE]
             [] OTHER -> [ui EXCEPT !.goalError = TRUE, !.goalSaving = FALSE]
  /\ net' = Gone(c)
  /\ UNCHANGED srv

Next ==
  \/ \E r \in net.reads : AnswerList(r) \/ AnswerReport(r) \/ ShowRead(r) \/ FailRead(r)
  \/ OpenCreate \/ Type \/ CloseForm \/ SubmitForm
  \/ \E i \in Ids : OpenEdit(i) \/ AskDelete(i)
  \/ \E i \in net.titles, ok \in BOOLEAN : AnswerTitle(i, ok)
  \/ CancelDelete \/ ConfirmDelete \/ OpenGoal \/ CloseGoal
  \/ \E op \in {"goal", "noGoal"} : SubmitGoal(op)
  \/ \E c \in net.calls : Serve(c) \/ ServeFails(c) \/ Answer(c) \/ AnswerFailure(c)

Spec == Init /\ [][Next]_vars

-----------------------------------------------------------------------------
(* Properties                                                              *)

Quiet == net.reads = {} /\ net.calls = {} /\ ~ui.listError

\* The list and the report, two requests, are about the same purchases once
\* nothing is awaited, and they are the api's, unless an answer was lost or an
\* older one came last.
ReportIsCurrent ==
  Quiet /\ ~net.late /\ ~net.lost =>
    /\ ui.report.items = ui.purchases
    /\ ui.report = [items |-> srv.purchases, goal |-> srv.goal]

\* The title of a product that is answered late does not bring back a form that
\* was closed, nor turn the form into another purchase's.
TitleKeepsTheForm ==
  \A i \in Ids, ok \in BOOLEAN : AnswerTitle(i, ok) =>
    \/ ui'.form = ui.form
    \/ ui.form # Nothing /\ ui.form.of = i /\ ui'.form.of = i
=============================================================================
