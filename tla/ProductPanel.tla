---------------------------- MODULE ProductPanel ----------------------------
(***************************************************************************)
(* The side panel of one product (components/ProductPanel.tsx): the read   *)
(* of the product for the period chosen, the correction of its newest      *)
(* match, the target field and the gesture that drags the sheet away.      *)
(* Which product the panel shows is decided by its page (module PanelUrl), *)
(* here an action of the environment.                                      *)
(*                                                                         *)
(* The data of a product is one number, the correction its newest match    *)
(* carries: 0 is what was detected in the message.                         *)
(***************************************************************************)
EXTENDS Integers, FiniteSets

CONSTANTS Products,   \* product keys
          Ranges,     \* periods of the history
          FirstRange, \* the one a product opens with, 90d
          MaxSaves,   \* bound: corrections and reversals
          MaxOps,     \* bound: clicks that start a read
          Nothing     \* null

VARIABLES srv, ui, net
vars == <<srv, ui, net>>

OldCorrection == MaxSaves + 1
Versions == 0..OldCorrection
Product == [key: Products, range: Ranges, version: Versions]
EditableMatch == [key: Products, version: Versions]
Statuses == {"loading", "ready", "not-found", "error"}

TypeOK ==
  /\ srv \in [version: [Products -> Versions], present: SUBSET Products]
  /\ ui.key \in Products \cup {Nothing} /\ ui.range \in Ranges
  /\ ui.product \in Product \cup {Nothing} /\ ui.status \in Statuses
  /\ ui.rangeLoading \in BOOLEAN /\ ui.postings \in BOOLEAN
  /\ ui.editing \in BOOLEAN /\ ui.busy \in BOOLEAN
  /\ ui.edit \in EditableMatch \cup {Nothing}
  /\ ui.editLoading \in BOOLEAN /\ ui.editError \in BOOLEAN
  /\ ui.drag \in {"none", "short", "far"}
  /\ \A l \in net.loads : l.live \in BOOLEAN /\ l.data \in Product \cup {Nothing}
  /\ \A e \in net.edits : e.key \in Products /\ e.live \in BOOLEAN
  /\ \A s \in net.saves : s.mine \in BOOLEAN /\ s.alive \in BOOLEAN /\ s.match.key \in Products
  /\ \A f \in net.refreshes : f.data \in Product \cup {Nothing}
  /\ net.saved \in 0..MaxSaves /\ net.ops \in 0..MaxOps /\ net.missed \in BOOLEAN

NewPanel(key) ==
  [key |-> key, range |-> FirstRange, product |-> Nothing, status |-> "loading",
   rangeLoading |-> FALSE, postings |-> FALSE, editing |-> FALSE, busy |-> FALSE,
   edit |-> Nothing, editLoading |-> FALSE, editError |-> FALSE, drag |-> "none"]

\* The effect on [productKey, range]: its cleanup cancels the read before.
Loading(n, key, range) ==
  [n EXCEPT !.loads = {[l EXCEPT !.live = FALSE] : l \in @}
                        \cup {[n |-> n.ops, key |-> key, range |-> range, live |-> TRUE,
                               answered |-> FALSE, data |-> Nothing]},
            !.ops = @ + 1]
CanRead == net.ops < MaxOps

\* The editor is unmounted: what it still awaits is no longer its own.
EditorGone(n) == [n EXCEPT !.saves = {[s EXCEPT !.mine = FALSE] : s \in @}]

Init ==
  /\ \E version \in {0, OldCorrection} : srv = [version |-> [k \in Products |-> version], present |-> Products]
  /\ \E k \in Products :
       /\ ui = NewPanel(k)
       /\ net = Loading([loads |-> {}, edits |-> {}, saves |-> {}, refreshes |-> {},
                         saved |-> 0, ops |-> 0, missed |-> FALSE], k, FirstRange)

-----------------------------------------------------------------------------
(* The panel is given its product                                          *)

\* Another product in the same panel: the reset effect, and the read.  A read
\* in progress keeps its "loading" chart until the new one has ended.
Switch(key) ==
  /\ ui.key # Nothing /\ key # ui.key /\ CanRead
  /\ ui' = [NewPanel(key) EXCEPT !.rangeLoading = ui.rangeLoading \/ ui.product # Nothing,
                                 !.drag = ui.drag]
  /\ net' = EditorGone(Loading([net EXCEPT !.edits = {[e EXCEPT !.live = FALSE] : e \in @}],
                               key, FirstRange))
  /\ UNCHANGED srv

\* The panel is closed and unmounted.  The answers it awaits find nothing to
\* change; a correction that was sent is made.
Close ==
  /\ ui.key # Nothing
  /\ ui' = NewPanel(Nothing)
  /\ net' = [net EXCEPT !.loads = {}, !.edits = {}, !.refreshes = {},
                        !.saves = {[s EXCEPT !.mine = FALSE, !.alive = FALSE] : s \in @}]
  /\ UNCHANGED srv

\* And opened again, as new.
Open(key) ==
  /\ ui.key = Nothing /\ CanRead
  /\ ui' = NewPanel(key)
  /\ net' = Loading(net, key, FirstRange)
  /\ UNCHANGED srv

\* Every listing of the product is deleted, here or in another tab.
OtherDelete(key) ==
  /\ srv' = [srv EXCEPT !.present = @ \ {key}]
  /\ UNCHANGED <<ui, net>>

-----------------------------------------------------------------------------
(* The read of the product                                                 *)

Ready == ui.status = "ready" /\ ui.product # Nothing
Reading == Ready /\ ~ui.editing

SelectRange(range) ==
  /\ Reading /\ range # ui.range /\ CanRead
  /\ ui' = [ui EXCEPT !.range = range, !.rangeLoading = TRUE]
  /\ net' = Loading(net, ui.key, range)
  /\ UNCHANGED srv

AnswerLoad(l) ==
  /\ ~l.answered
  /\ net' = [net EXCEPT !.loads = (@ \ {l}) \cup
               {[l EXCEPT !.answered = TRUE,
                          !.data = IF l.key \in srv.present
                                     THEN [key |-> l.key, range |-> l.range, version |-> srv.version[l.key]]
                                     ELSE Nothing]}]
  /\ UNCHANGED <<srv, ui>>

\* Only the newest read is shown; a product that is gone says so.
Loaded(u, l) ==
  IF l.data = Nothing THEN [u EXCEPT !.status = "not-found", !.rangeLoading = FALSE]
                      ELSE [u EXCEPT !.status = "ready", !.rangeLoading = FALSE, !.product = l.data]
Outdated(data) == data # Nothing /\ data.version # srv.version[data.key]

ShowLoad_Unguarded(l) ==
  /\ l.answered
  /\ ui' = Loaded(ui, l)
  /\ net' = [net EXCEPT !.loads = @ \ {l}, !.missed = @ \/ Outdated(l.data)]
  /\ UNCHANGED srv
ShowLoad(l) ==
  /\ l.answered
  /\ ui' = IF l.live THEN Loaded(ui, l) ELSE ui
  /\ net' = [net EXCEPT !.loads = @ \ {l}, !.missed = @ \/ (l.live /\ Outdated(l.data))]
  /\ UNCHANGED srv

FailLoad(l) ==
  /\ ~l.answered
  /\ ui' = IF l.live THEN [ui EXCEPT !.status = "error", !.rangeLoading = FALSE] ELSE ui
  /\ net' = [net EXCEPT !.loads = @ \ {l}]
  /\ UNCHANGED srv

-----------------------------------------------------------------------------
(* The correction of the newest match                                      *)

\* "Editar dados" and "Tentar novamente": the matches that can be edited.
EditData ==
  /\ Ready /\ (~ui.editing \/ ui.editError) /\ CanRead
  /\ ui' = [ui EXCEPT !.editing = TRUE, !.editLoading = TRUE, !.editError = FALSE]
  /\ net' = [net EXCEPT !.edits = {[e EXCEPT !.live = FALSE] : e \in @}
                                    \cup {[n |-> net.ops, key |-> ui.key, live |-> TRUE]},
                        !.ops = @ + 1]
  /\ UNCHANGED srv

\* The request id: only the last question asked is answered.
AnswerEdit_Unguarded(e) ==
  /\ ui' = IF e.key \in srv.present
             THEN [ui EXCEPT !.edit = [key |-> e.key, version |-> srv.version[e.key]], !.editLoading = FALSE]
             ELSE [ui EXCEPT !.edit = Nothing, !.editError = TRUE, !.editLoading = FALSE]
  /\ net' = [net EXCEPT !.edits = @ \ {e}]
  /\ UNCHANGED srv
AnswerEdit(e) ==
  /\ ui' = IF ~e.live THEN ui
           ELSE IF e.key \in srv.present
             THEN [ui EXCEPT !.edit = [key |-> e.key, version |-> srv.version[e.key]], !.editLoading = FALSE]
             ELSE [ui EXCEPT !.edit = Nothing, !.editError = TRUE, !.editLoading = FALSE]
  /\ net' = [net EXCEPT !.edits = @ \ {e}]
  /\ UNCHANGED srv
FailEdit(e) ==
  /\ ui' = IF e.live THEN [ui EXCEPT !.editError = TRUE, !.editLoading = FALSE] ELSE ui
  /\ net' = [net EXCEPT !.edits = @ \ {e}]
  /\ UNCHANGED srv

\* The form (ProductEditor) is there, and not waiting for an answer.
Editor == Ready /\ ui.editing /\ ~ui.editLoading /\ ~ui.editError /\ ui.edit # Nothing
CancelEdit ==
  /\ Editor /\ ~ui.busy
  /\ ui' = [ui EXCEPT !.editing = FALSE]
  /\ UNCHANGED <<srv, net>>

\* "Salvar correção" with valid fields, "Reverter ao detectado" of a match that
\* carries a correction.
Submit(version) ==
  /\ Editor /\ ~ui.busy /\ net.saved < MaxSaves
  /\ version = 0 => ui.edit.version # 0
  /\ ui' = [ui EXCEPT !.busy = TRUE]
  /\ net' = [net EXCEPT !.saved = @ + 1,
                        !.saves = @ \cup {[match |-> [ui.edit EXCEPT !.version = version], range |-> ui.range,
                                           st |-> "sent", mine |-> TRUE, alive |-> TRUE]}]
  /\ UNCHANGED srv

ServeSave(s) ==
  /\ s.st = "sent" /\ s.match.key \in srv.present
  /\ srv' = [srv EXCEPT !.version[s.match.key] = s.match.version]
  /\ net' = [net EXCEPT !.saves = (@ \ {s}) \cup {[s EXCEPT !.st = "ok"]}, !.missed = @ \/ ~s.alive]
  /\ UNCHANGED ui

\* Refused, gone or unanswered: the form says so and stays.
FailSave(s) ==
  /\ ui' = [ui EXCEPT !.busy = @ /\ ~s.mine]
  /\ net' = [net EXCEPT !.saves = @ \ {s}, !.missed = @ \/ s.st = "ok"]
  /\ UNCHANGED srv

\* handleSaved, handleReverted and refreshProduct: the answer is shown at once,
\* the editor of whatever product is closed, and the product is read again with
\* the key and the period of the time the form was submitted.
Corrected_NotShown(u, m) == u
Corrected(u, m) ==
  IF u.product # Nothing /\ u.product.key = m.key THEN [u EXCEPT !.product.version = m.version] ELSE u
AnswerSave(s) ==
  /\ s.st = "ok"
  /\ ui' = IF s.alive THEN Corrected([ui EXCEPT !.edit = s.match, !.editing = FALSE, !.busy = FALSE], s.match)
                      ELSE ui
  /\ net' = LET n == [net EXCEPT !.saves = @ \ {s}] IN
            IF s.alive
              THEN EditorGone([n EXCEPT !.refreshes = @ \cup
                     {[key |-> s.match.key, range |-> s.range, answered |-> FALSE, data |-> Nothing]}])
              ELSE n
  /\ UNCHANGED srv

AnswerRefresh(f) ==
  /\ ~f.answered /\ f.key \in srv.present
  /\ net' = [net EXCEPT !.refreshes = (@ \ {f}) \cup
               {[f EXCEPT !.answered = TRUE,
                          !.data = [key |-> f.key, range |-> f.range, version |-> srv.version[f.key]]]}]
  /\ UNCHANGED <<srv, ui>>
\* Shown if the panel is on that product again or still; a failure is silent.
ShowRefresh(f) ==
  /\ f.answered
  /\ ui' = IF ui.product # Nothing /\ ui.product.key = f.key THEN [ui EXCEPT !.product = f.data] ELSE ui
  /\ net' = [net EXCEPT !.refreshes = @ \ {f}, !.missed = @ \/ Outdated(f.data)]
  /\ UNCHANGED srv
FailRefresh(f) ==
  /\ ~f.answered
  /\ net' = [net EXCEPT !.refreshes = @ \ {f}]
  /\ UNCHANGED <<srv, ui>>

-----------------------------------------------------------------------------
(* The list of postings, and the sheet's grabber                           *)

TogglePostings ==
  /\ Reading
  /\ ui' = [ui EXCEPT !.postings = ~@]
  /\ UNCHANGED <<srv, net>>

\* Pointer down and move; a gesture the browser takes over decides nothing, one
\* that ends more than 96 px down closes (Close).
Drag(to) ==
  /\ ui.key # Nothing /\ to # ui.drag
  /\ ui.drag = "none" => to = "short"
  /\ ui' = [ui EXCEPT !.drag = to]
  /\ UNCHANGED <<srv, net>>

Next ==
  \/ \E k \in Products : Switch(k) \/ Open(k) \/ OtherDelete(k)
  \/ Close \/ EditData \/ CancelEdit \/ TogglePostings
  \/ \E range \in Ranges : SelectRange(range)
  \/ \E l \in net.loads : AnswerLoad(l) \/ ShowLoad(l) \/ FailLoad(l)
  \/ \E e \in net.edits : AnswerEdit(e) \/ FailEdit(e)
  \/ \E version \in {0, net.saved + 1} : Submit(version)
  \/ \E s \in net.saves : ServeSave(s) \/ FailSave(s) \/ AnswerSave(s)
  \/ \E f \in net.refreshes : AnswerRefresh(f) \/ ShowRefresh(f) \/ FailRefresh(f)
  \/ \E to \in {"none", "short", "far"} : Drag(to)

Spec == Init /\ [][Next]_vars

-----------------------------------------------------------------------------
(* Properties                                                              *)

\* What the panel shows and what its form would correct are of the product the
\* panel is on, whatever the order in which the answers asked for one product
\* and for another come (ProductPanel.tsx, the "cancelled" flag, the request id
\* and the comparison of product keys).
PanelIsOfProduct ==
  /\ Ready => ui.product.key = ui.key
  /\ Editor => ui.edit.key = ui.key

\* Once nothing is awaited the panel shows the correction the api holds, unless
\* a read made before the correction was shown after it, or the answer to it
\* was lost, or found the panel closed.
Quiet == net.loads = {} /\ net.saves = {} /\ net.refreshes = {}
CorrectionIsShown ==
  Quiet /\ Ready /\ ~net.missed => ui.product.version = srv.version[ui.key]
=============================================================================
