------------------------------ MODULE PageProofs ------------------------------
(***************************************************************************)
(* Theorems about the pages of the web panel: what an answer may still be    *)
(* shown as, what is told, and what a step never takes away.  As in          *)
(* PanelProofs, an invariant of a part is proved from that module's actions. *)
(***************************************************************************)
EXTENDS PanelProofs, FiniteSetTheorems

-----------------------------------------------------------------------------
(* The product panel: an answer that still counts is of the product the panel  *)
(* is on.                                                                      *)

ProductFields ==
  {"key", "range", "product", "status", "rangeLoading", "postings", "editing", "busy",
   "edit", "editLoading", "editError", "drag"}
ProductNet == {"loads", "edits", "saves", "refreshes", "saved", "ops", "missed"}
KeyOf(data, key) == data # Nothing => {"key", "version"} \subseteq DOMAIN data /\ data.key = key

ShownOk(u) ==
  /\ ProductFields \subseteq DOMAIN u
  /\ u.editing \in BOOLEAN /\ u.editLoading \in BOOLEAN /\ u.editError \in BOOLEAN
  /\ KeyOf(u.product, u.key)
  /\ u.editing = TRUE /\ u.editLoading = FALSE /\ u.editError = FALSE => KeyOf(u.edit, u.key)
LoadsOk(ls, key) ==
  \A l \in ls : /\ {"n", "key", "range", "live", "answered", "data"} \subseteq DOMAIN l
                /\ l.live => l.key = key
                /\ KeyOf(l.data, l.key)
EditsOk(es, key) ==
  \A e \in es : {"n", "key", "live"} \subseteq DOMAIN e /\ (e.live => e.key = key)
RefreshesOk(fs) ==
  \A f \in fs : {"key", "range", "answered", "data"} \subseteq DOMAIN f /\ KeyOf(f.data, f.key)
AwaitedOk(n, key) ==
  /\ ProductNet \subseteq DOMAIN n
  /\ LoadsOk(n.loads, key) /\ EditsOk(n.edits, key) /\ RefreshesOk(n.refreshes)
ProductOk(u, n) ==
  /\ ShownOk(u) /\ AwaitedOk(n, u.key)
  /\ u.key = Nothing => u.product = Nothing /\ n.loads = {} /\ n.edits = {}

\* A panel that is new shows nothing yet.
LEMMA NewPanelOk ==
  ASSUME NEW key
  PROVE  /\ ShownOk(Product!NewPanel(key)) /\ Product!NewPanel(key).key = key
         /\ DOMAIN Product!NewPanel(key) = ProductFields
         /\ Product!NewPanel(key).product = Nothing /\ Product!NewPanel(key).editing = FALSE
BY DEF Product!NewPanel, ShownOk, ProductFields, KeyOf

\* What is cancelled is of the product it was of.
LEMMA CancelledLoads ==
  ASSUME NEW ls, NEW key, LoadsOk(ls, key), NEW other
  PROVE  LoadsOk({[l EXCEPT !.live = FALSE] : l \in ls}, other)
<1>1. ASSUME NEW l \in ls, NEW m, m = [l EXCEPT !.live = FALSE]
      PROVE  /\ {"n", "key", "range", "live", "answered", "data"} \subseteq DOMAIN m
             /\ m.live = FALSE /\ KeyOf(m.data, m.key)
  BY <1>1 DEF LoadsOk
<1>2. QED
  BY <1>1 DEF LoadsOk
\* The edits whose panel closed stay what they were, and are nobody's.
LEMMA CancelledEdits ==
  ASSUME NEW es, NEW key, EditsOk(es, key), NEW other
  PROVE  EditsOk({[e EXCEPT !.live = FALSE] : e \in es}, other)
BY DEF EditsOk

\* The read of a product cancels the ones before it.
LEMMA LoadingOk ==
  ASSUME NEW n, NEW key, AwaitedOk(n, key), NEW to, EditsOk(n.edits, to), NEW range
  PROVE  AwaitedOk(Product!Loading(n, to, range), to)
<1> DEFINE l == [n |-> n.ops, key |-> to, range |-> range, live |-> TRUE,
                 answered |-> FALSE, data |-> Nothing]
           loads == {[m EXCEPT !.live = FALSE] : m \in n.loads} \cup {l}
           r == Product!Loading(n, to, range)
<1>1. LoadsOk(loads, to)
  <2>1. LoadsOk({[m EXCEPT !.live = FALSE] : m \in n.loads}, to)
    BY CancelledLoads DEF AwaitedOk
  <2>2. {"n", "key", "range", "live", "answered", "data"} \subseteq DOMAIN l /\ l.key = to /\ l.data = Nothing
    OBVIOUS
  <2> HIDE DEF l
  <2>3. QED
    BY <2>1, <2>2 DEF LoadsOk, KeyOf
<1>2. r = [n EXCEPT !.loads = loads, !.ops = @ + 1]
  BY DEF Product!Loading
<1> HIDE DEF loads, r
<1>3. DOMAIN r = DOMAIN n /\ r.loads = loads /\ r.edits = n.edits /\ r.refreshes = n.refreshes
  BY <1>2 DEF AwaitedOk, ProductNet
<1>4. AwaitedOk(r, to)
  BY <1>1, <1>3 DEF AwaitedOk
<1>5. QED
  BY <1>4 DEF r

\* What the editor awaits is not what the panel reads.
LEMMA EditorGoneOk ==
  ASSUME NEW n, NEW key, AwaitedOk(n, key)
  PROVE  AwaitedOk(Product!EditorGone(n), key)
BY DEF Product!EditorGone, AwaitedOk, ProductNet

\* The feed begins with no panel open.
LEMMA ProductInit == ASSUME Product!Init PROVE ProductOk(ui, net)
<1> DEFINE n == [loads |-> {}, edits |-> {}, saves |-> {}, refreshes |-> {},
                 saved |-> 0, ops |-> 0, missed |-> FALSE]
<1>1. PICK k \in Products : ui = Product!NewPanel(k) /\ net = Product!Loading(n, k, FirstRange)
  BY DEF Product!Init
<1>2. AwaitedOk(n, k) /\ EditsOk(n.edits, k)
  BY DEF AwaitedOk, ProductNet, LoadsOk, EditsOk, RefreshesOk
<1> HIDE DEF n
<1>3. QED
  BY <1>1, <1>2, LoadingOk, NewPanelOk, PanelAssumption DEF ProductOk

\* The panel is given a product, closed or opened: nothing that was asked before counts.
LEMMA GivenOk ==
  ASSUME ProductOk(ui, net),
         Product!Close \/ \E key \in Products : Product!Switch(key) \/ Product!Open(key)
  PROVE  ProductOk(ui', net')
<1>1. AwaitedOk(net, ui.key) /\ ProductNet \subseteq DOMAIN net
  BY DEF ProductOk, AwaitedOk
<1>2. ASSUME NEW key \in Products, Product!Switch(key) PROVE ProductOk(ui', net')
  <2> DEFINE edits == {[e EXCEPT !.live = FALSE] : e \in net.edits}
             n == [net EXCEPT !.edits = edits]
             p == Product!NewPanel(key)
  <2>1. /\ ui' = [p EXCEPT !.rangeLoading = ui.rangeLoading \/ ui.product # Nothing, !.drag = ui.drag]
        /\ net' = Product!EditorGone(Product!Loading(n, key, FirstRange))
    BY <1>2 DEF Product!Switch
  <2>2. EditsOk(edits, key) /\ EditsOk(edits, ui.key)
    BY <1>1, CancelledEdits DEF AwaitedOk
  <2> HIDE DEF edits
  <2>3. DOMAIN n = DOMAIN net /\ n.loads = net.loads /\ n.edits = edits /\ n.refreshes = net.refreshes
    BY <1>1 DEF ProductNet
  <2> HIDE DEF n
  <2>4. AwaitedOk(net', key)
    BY <1>1, <2>1, <2>2, <2>3, LoadingOk, EditorGoneOk DEF AwaitedOk
  <2>5. /\ ShownOk(p) /\ p.key = key /\ DOMAIN p = ProductFields
        /\ p.product = Nothing /\ p.editing = FALSE
    BY NewPanelOk
  <2> HIDE DEF p
  <2>6. /\ DOMAIN ui' = DOMAIN p /\ ui'.key = key /\ ui'.product = Nothing /\ ui'.editing = FALSE
        /\ ui'.editLoading = p.editLoading /\ ui'.editError = p.editError
    BY <2>1, <2>5 DEF ProductFields
  <2>7. QED
    BY <2>4, <2>5, <2>6, PanelAssumption DEF ProductOk, ShownOk, KeyOf
<1>3. ASSUME NEW key \in Products, Product!Open(key) PROVE ProductOk(ui', net')
  <2>1. ui.key = Nothing /\ ui' = Product!NewPanel(key) /\ net' = Product!Loading(net, key, FirstRange)
    BY <1>3 DEF Product!Open
  <2>2. EditsOk(net.edits, key)
    BY <2>1 DEF ProductOk, EditsOk
  <2>3. AwaitedOk(net', key)
    BY <1>1, <2>1, <2>2, LoadingOk
  <2>4. QED
    BY <2>1, <2>3, NewPanelOk, PanelAssumption DEF ProductOk
<1>4. CASE Product!Close
  <2> DEFINE saves == {[s EXCEPT !.mine = FALSE, !.alive = FALSE] : s \in net.saves}
  <2>1. /\ ui' = Product!NewPanel(Nothing)
        /\ net' = [net EXCEPT !.loads = {}, !.edits = {}, !.refreshes = {}, !.saves = saves]
    BY <1>4 DEF Product!Close
  <2> HIDE DEF saves
  <2>2. DOMAIN net' = DOMAIN net /\ net'.loads = {} /\ net'.edits = {} /\ net'.refreshes = {}
    BY <1>1, <2>1 DEF ProductNet
  <2>3. AwaitedOk(net', Nothing)
    BY <1>1, <2>2 DEF AwaitedOk, LoadsOk, EditsOk, RefreshesOk
  <2>4. QED
    BY <2>1, <2>2, <2>3, NewPanelOk DEF ProductOk
<1>5. QED
  BY <1>2, <1>3, <1>4

\* A panel that is ready is on a product.
LEMMA ReadyIsOpen ==
  ASSUME ProductOk(ui, net), Product!Ready
  PROVE  ui.key # Nothing /\ ui.product # Nothing
BY DEF ProductOk, Product!Ready

\* The read of a product: only the newest counts, and shows the product it read.
LEMMA ReadingProduct ==
  ASSUME ProductOk(ui, net),
         \/ \E range \in Ranges : Product!SelectRange(range)
         \/ \E l \in net.loads : Product!AnswerLoad(l) \/ Product!ShowLoad(l) \/ Product!FailLoad(l)
  PROVE  ProductOk(ui', net')
<1>1. /\ ShownOk(ui) /\ AwaitedOk(net, ui.key) /\ ProductNet \subseteq DOMAIN net
      /\ ProductFields \subseteq DOMAIN ui
  BY DEF ProductOk, AwaitedOk, ShownOk
<1>2. ASSUME NEW range \in Ranges, Product!SelectRange(range) PROVE ProductOk(ui', net')
  <2>1. /\ ui' = [ui EXCEPT !.range = range, !.rangeLoading = TRUE]
        /\ net' = Product!Loading(net, ui.key, range) /\ Product!Ready
    BY <1>2 DEF Product!SelectRange, Product!Reading
  <2>2. /\ DOMAIN ui' = DOMAIN ui /\ ui'.key = ui.key /\ ui'.product = ui.product
        /\ ui'.editing = ui.editing /\ ui'.editLoading = ui.editLoading
        /\ ui'.editError = ui.editError /\ ui'.edit = ui.edit
    BY <1>1, <2>1 DEF ProductFields
  <2>3. AwaitedOk(net', ui.key)
    BY <1>1, <2>1, LoadingOk DEF AwaitedOk
  <2>4. QED
    BY <1>1, <2>1, <2>2, <2>3, ReadyIsOpen DEF ProductOk, ShownOk
<1>3. ASSUME NEW l \in net.loads, Product!AnswerLoad(l) PROVE ProductOk(ui', net')
  <2> DEFINE data == IF l.key \in srv.present
                       THEN [key |-> l.key, range |-> l.range, version |-> srv.version[l.key]]
                       ELSE Nothing
             m == [l EXCEPT !.answered = TRUE, !.data = data]
  <2>1. ui' = ui /\ net' = [net EXCEPT !.loads = (@ \ {l}) \cup {m}]
    BY <1>3 DEF Product!AnswerLoad
  <2>2. KeyOf(data, l.key)
    BY DEF KeyOf
  <2> HIDE DEF data
  <2>3. /\ {"n", "key", "range", "live", "answered", "data"} \subseteq DOMAIN l
        /\ l.live => l.key = ui.key
    BY <1>1 DEF AwaitedOk, LoadsOk
  <2>4. DOMAIN m = DOMAIN l /\ m.key = l.key /\ m.live = l.live /\ m.data = data
    BY <2>3
  <2> HIDE DEF m
  <2>5. /\ DOMAIN net' = DOMAIN net /\ net'.loads = (net.loads \ {l}) \cup {m}
        /\ net'.edits = net.edits /\ net'.refreshes = net.refreshes
    BY <1>1, <2>1 DEF ProductNet
  <2>6. LoadsOk(net'.loads, ui.key)
    BY <1>1, <2>2, <2>3, <2>4, <2>5 DEF AwaitedOk, LoadsOk
  <2>7. QED
    BY <1>1, <2>1, <2>5, <2>6 DEF ProductOk, AwaitedOk
<1>4. ASSUME NEW l \in net.loads, NEW missed,
             net' = [net EXCEPT !.loads = @ \ {l}, !.missed = missed]
      PROVE  AwaitedOk(net', ui.key) /\ net'.edits = net.edits /\ net'.loads \subseteq net.loads
  <2>1. /\ DOMAIN net' = DOMAIN net /\ net'.loads = net.loads \ {l}
        /\ net'.edits = net.edits /\ net'.refreshes = net.refreshes
    BY <1>1, <1>4 DEF ProductNet
  <2>2. QED
    BY <1>1, <2>1 DEF AwaitedOk, LoadsOk
<1>5. ASSUME NEW l \in net.loads, Product!ShowLoad(l) PROVE ProductOk(ui', net')
  <2>1. AwaitedOk(net', ui.key) /\ net'.edits = net.edits /\ net'.loads \subseteq net.loads
    BY <1>4, <1>5 DEF Product!ShowLoad
  <2>2. CASE ~l.live
    <3>1. ui' = ui
      BY <1>5, <2>2 DEF Product!ShowLoad
    <3>2. QED
      BY <1>1, <2>1, <3>1 DEF ProductOk
  <2>3. CASE l.live
    <3>1. ui' = Product!Loaded(ui, l)
      BY <1>5, <2>3 DEF Product!ShowLoad
    <3>2. KeyOf(l.data, ui.key) /\ ui.key # Nothing
      BY <1>1, <2>3 DEF ProductOk, AwaitedOk, LoadsOk
    <3>3. CASE l.data = Nothing
      <4>1. ui' = [ui EXCEPT !.status = "not-found", !.rangeLoading = FALSE]
        BY <3>1, <3>3 DEF Product!Loaded
      <4>2. /\ DOMAIN ui' = DOMAIN ui /\ ui'.key = ui.key /\ ui'.product = ui.product
            /\ ui'.editing = ui.editing /\ ui'.editLoading = ui.editLoading
            /\ ui'.editError = ui.editError /\ ui'.edit = ui.edit
        BY <1>1, <4>1 DEF ProductFields
      <4>3. QED
        BY <1>1, <2>1, <3>2, <4>2 DEF ProductOk, ShownOk
    <3>4. CASE l.data # Nothing
      <4>1. ui' = [ui EXCEPT !.status = "ready", !.rangeLoading = FALSE, !.product = l.data]
        BY <3>1, <3>4 DEF Product!Loaded
      <4>2. /\ DOMAIN ui' = DOMAIN ui /\ ui'.key = ui.key /\ ui'.product = l.data
            /\ ui'.editing = ui.editing /\ ui'.editLoading = ui.editLoading
            /\ ui'.editError = ui.editError /\ ui'.edit = ui.edit
        BY <1>1, <4>1 DEF ProductFields
      <4>3. QED
        BY <1>1, <2>1, <3>2, <4>2 DEF ProductOk, ShownOk
    <3>5. QED
      BY <3>3, <3>4
  <2>4. QED
    BY <2>2, <2>3
<1>6. ASSUME NEW l \in net.loads, Product!FailLoad(l) PROVE ProductOk(ui', net')
  <2>1. net' = [net EXCEPT !.loads = @ \ {l}]
    BY <1>6 DEF Product!FailLoad
  <2>2. /\ DOMAIN net' = DOMAIN net /\ net'.loads = net.loads \ {l}
        /\ net'.edits = net.edits /\ net'.refreshes = net.refreshes
    BY <1>1, <2>1 DEF ProductNet
  <2>3. AwaitedOk(net', ui.key)
    BY <1>1, <2>2 DEF AwaitedOk, LoadsOk
  <2>4. /\ DOMAIN ui' = DOMAIN ui /\ ui'.key = ui.key /\ ui'.product = ui.product
        /\ ui'.editing = ui.editing /\ ui'.editLoading = ui.editLoading
        /\ ui'.editError = ui.editError /\ ui'.edit = ui.edit
    BY <1>1, <1>6 DEF Product!FailLoad, ProductFields
  <2>5. QED
    BY <1>1, <2>2, <2>3, <2>4 DEF ProductOk, ShownOk
<1>7. QED
  BY <1>2, <1>3, <1>5, <1>6

\* The editor: what may be corrected is of the product, or is asked again.
LEMMA EditingProduct ==
  ASSUME ProductOk(ui, net),
         \/ Product!EditData \/ Product!CancelEdit
         \/ \E e \in net.edits : Product!AnswerEdit(e) \/ Product!FailEdit(e)
  PROVE  ProductOk(ui', net')
<1>1. /\ ShownOk(ui) /\ AwaitedOk(net, ui.key) /\ ProductNet \subseteq DOMAIN net
      /\ ProductFields \subseteq DOMAIN ui
  BY DEF ProductOk, AwaitedOk, ShownOk
<1>2. CASE Product!EditData
  <2> DEFINE e == [n |-> net.ops, key |-> ui.key, live |-> TRUE]
             edits == {[d EXCEPT !.live = FALSE] : d \in net.edits} \cup {e}
  <2>1. /\ ui' = [ui EXCEPT !.editing = TRUE, !.editLoading = TRUE, !.editError = FALSE]
        /\ net' = [net EXCEPT !.edits = edits, !.ops = @ + 1]
        /\ ui.key # Nothing
    BY <1>2, ReadyIsOpen DEF Product!EditData
  <2>2. EditsOk(edits, ui.key)
    <3>1. EditsOk({[d EXCEPT !.live = FALSE] : d \in net.edits}, ui.key)
      BY <1>1, CancelledEdits DEF AwaitedOk
    <3>2. {"n", "key", "live"} \subseteq DOMAIN e /\ e.key = ui.key
      OBVIOUS
    <3> HIDE DEF e
    <3>3. QED
      BY <3>1, <3>2 DEF EditsOk
  <2> HIDE DEF edits
  <2>3. /\ DOMAIN net' = DOMAIN net /\ net'.edits = edits
        /\ net'.loads = net.loads /\ net'.refreshes = net.refreshes
    BY <1>1, <2>1 DEF ProductNet
  <2>4. /\ DOMAIN ui' = DOMAIN ui /\ ui'.key = ui.key /\ ui'.product = ui.product
        /\ ui'.editing = TRUE /\ ui'.editLoading = TRUE /\ ui'.editError = FALSE
    BY <1>1, <2>1 DEF ProductFields
  <2>5. QED
    BY <1>1, <2>1, <2>2, <2>3, <2>4 DEF ProductOk, ShownOk, AwaitedOk
<1>3. CASE Product!CancelEdit
  <2>1. net' = net /\ ui' = [ui EXCEPT !.editing = FALSE]
    BY <1>3 DEF Product!CancelEdit
  <2>2. /\ DOMAIN ui' = DOMAIN ui /\ ui'.key = ui.key /\ ui'.product = ui.product
        /\ ui'.editing = FALSE /\ ui'.editLoading = ui.editLoading /\ ui'.editError = ui.editError
    BY <1>1, <2>1 DEF ProductFields
  <2>3. QED
    BY <1>1, <2>1, <2>2 DEF ProductOk, ShownOk
<1>4. ASSUME NEW e \in net.edits, Product!AnswerEdit(e) \/ Product!FailEdit(e)
      PROVE  ProductOk(ui', net')
  <2>1. net' = [net EXCEPT !.edits = @ \ {e}]
    BY <1>4 DEF Product!AnswerEdit, Product!FailEdit
  <2>2. /\ DOMAIN net' = DOMAIN net /\ net'.edits = net.edits \ {e}
        /\ net'.loads = net.loads /\ net'.refreshes = net.refreshes
    BY <1>1, <2>1 DEF ProductNet
  <2>3. AwaitedOk(net', ui.key) /\ net.edits # {}
    BY <1>1, <2>2 DEF AwaitedOk, EditsOk
  <2>4. ASSUME DOMAIN ui' = DOMAIN ui, ui'.key = ui.key, ui'.product = ui.product,
               ui'.editing = ui.editing, ui'.editLoading \in BOOLEAN, ui'.editError \in BOOLEAN,
               ui'.editError = FALSE /\ ui'.editLoading = FALSE => KeyOf(ui'.edit, ui.key)
        PROVE  ProductOk(ui', net')
    BY <1>1, <2>2, <2>3, <2>4 DEF ProductOk, ShownOk
  <2>5. CASE ui' = ui
    BY <1>1, <2>2, <2>3, <2>5 DEF ProductOk
  <2>6. CASE e.live /\ Product!AnswerEdit(e) /\ e.key \in srv.present
    <3> DEFINE m == [key |-> e.key, version |-> srv.version[e.key]]
    <3>1. ui' = [ui EXCEPT !.edit = m, !.editLoading = FALSE]
      BY <2>6 DEF Product!AnswerEdit
    <3>2. e.key = ui.key /\ m.key = e.key /\ {"key", "version"} \subseteq DOMAIN m
      BY <1>1, <2>6 DEF AwaitedOk, EditsOk
    <3> HIDE DEF m
    <3>3. /\ DOMAIN ui' = DOMAIN ui /\ ui'.key = ui.key /\ ui'.product = ui.product
          /\ ui'.editing = ui.editing /\ ui'.editLoading = FALSE /\ ui'.editError = ui.editError
          /\ ui'.edit = m
      BY <1>1, <3>1 DEF ProductFields
    <3>4. QED
      BY <1>1, <2>4, <3>2, <3>3 DEF ShownOk, KeyOf
  <2>7. CASE \/ ui' = [ui EXCEPT !.edit = Nothing, !.editError = TRUE, !.editLoading = FALSE]
             \/ ui' = [ui EXCEPT !.editError = TRUE, !.editLoading = FALSE]
    <3>1. /\ DOMAIN ui' = DOMAIN ui /\ ui'.key = ui.key /\ ui'.product = ui.product
          /\ ui'.editing = ui.editing /\ ui'.editLoading = FALSE /\ ui'.editError = TRUE
      BY <1>1, <2>7 DEF ProductFields
    <3>2. QED
      BY <2>4, <3>1
  <2>8. QED
    BY <1>4, <2>5, <2>6, <2>7 DEF Product!AnswerEdit, Product!FailEdit
<1>5. QED
  BY <1>2, <1>3, <1>4

\* A correction that is saved closes the editor, of whatever product it is.
LEMMA SavingProduct ==
  ASSUME ProductOk(ui, net),
         \/ \E version \in {0, net.saved + 1} : Product!Submit(version)
         \/ \E s \in net.saves : Product!ServeSave(s) \/ Product!FailSave(s) \/ Product!AnswerSave(s)
  PROVE  ProductOk(ui', net')
<1>1. /\ ShownOk(ui) /\ AwaitedOk(net, ui.key) /\ ProductNet \subseteq DOMAIN net
      /\ ProductFields \subseteq DOMAIN ui
  BY DEF ProductOk, AwaitedOk, ShownOk
<1>2. CASE \/ \E version \in {0, net.saved + 1} : Product!Submit(version)
           \/ \E s \in net.saves : Product!ServeSave(s) \/ Product!FailSave(s)
  <2>1. /\ DOMAIN net' = DOMAIN net /\ net'.edits = net.edits
        /\ net'.loads = net.loads /\ net'.refreshes = net.refreshes
    BY <1>1, <1>2 DEF ProductNet, Product!Submit, Product!ServeSave, Product!FailSave
  <2>2. /\ DOMAIN ui' = DOMAIN ui /\ ui'.key = ui.key /\ ui'.product = ui.product
        /\ ui'.editing = ui.editing /\ ui'.editLoading = ui.editLoading
        /\ ui'.editError = ui.editError /\ ui'.edit = ui.edit
    BY <1>1, <1>2 DEF ProductFields, Product!Submit, Product!ServeSave, Product!FailSave
  <2>3. QED
    BY <1>1, <2>1, <2>2 DEF ProductOk, ShownOk, AwaitedOk
<1>3. ASSUME NEW s \in net.saves, Product!AnswerSave(s) PROVE ProductOk(ui', net')
  <2> DEFINE n == [net EXCEPT !.saves = @ \ {s}]
             f == [key |-> s.match.key, range |-> s.range, answered |-> FALSE, data |-> Nothing]
             m == [n EXCEPT !.refreshes = @ \cup {f}]
             u == [ui EXCEPT !.edit = s.match, !.editing = FALSE, !.busy = FALSE]
  <2>1. AwaitedOk(n, ui.key) /\ n.loads = net.loads /\ n.edits = net.edits
    <3>1. /\ DOMAIN n = DOMAIN net /\ n.edits = net.edits
          /\ n.loads = net.loads /\ n.refreshes = net.refreshes
      BY <1>1 DEF ProductNet
    <3>2. QED
      BY <1>1, <3>1 DEF AwaitedOk
  <2>2. CASE ~s.alive
    <3>1. ui' = ui /\ net' = n
      BY <1>3, <2>2 DEF Product!AnswerSave
    <3>2. QED
      BY <1>1, <2>1, <3>1 DEF ProductOk
  <2>3. CASE s.alive
    <3>1. ui' = Product!Corrected(u, s.match) /\ net' = Product!EditorGone(m)
      BY <1>3, <2>3 DEF Product!AnswerSave
    <3>2. {"key", "range", "answered", "data"} \subseteq DOMAIN f /\ f.data = Nothing
      OBVIOUS
    <3> HIDE DEF n, f
    <3>3. /\ DOMAIN m = DOMAIN n /\ m.edits = n.edits
          /\ m.loads = n.loads /\ m.refreshes = n.refreshes \cup {f}
      BY <2>1 DEF AwaitedOk, ProductNet
    <3>4. AwaitedOk(m, ui.key)
      BY <2>1, <3>2, <3>3 DEF AwaitedOk, RefreshesOk, KeyOf
    <3> HIDE DEF m
    <3>5. AwaitedOk(net', ui.key) /\ net'.loads = net.loads /\ net'.edits = net.edits
      <4>1. AwaitedOk(net', ui.key)
        BY <3>1, <3>4, EditorGoneOk
      <4>2. net'.loads = m.loads /\ net'.edits = m.edits
        BY <3>1, <3>4 DEF Product!EditorGone, AwaitedOk, ProductNet
      <4>3. QED
        BY <2>1, <3>3, <4>1, <4>2
    <3>6. /\ DOMAIN u = DOMAIN ui /\ u.key = ui.key /\ u.product = ui.product
          /\ u.editing = FALSE /\ u.editLoading = ui.editLoading /\ u.editError = ui.editError
      BY <1>1 DEF ProductFields
    <3> HIDE DEF u
    <3>7. CASE ui' = u
      BY <1>1, <3>5, <3>6, <3>7 DEF ProductOk, ShownOk
    <3>8. CASE u.product # Nothing /\ ui' = [u EXCEPT !.product.version = s.match.version]
      <4> DEFINE p == [u.product EXCEPT !.version = s.match.version]
      <4>1. ui' = [u EXCEPT !.product = p]
        BY <1>1, <3>6, <3>8 DEF ProductFields
      <4>2. KeyOf(p, ui.key)
        BY <1>1, <3>6, <3>8 DEF ShownOk, KeyOf
      <4> HIDE DEF p
      <4>3. /\ DOMAIN ui' = DOMAIN ui /\ ui'.key = ui.key /\ ui'.product = p
            /\ ui'.editing = FALSE /\ ui'.editLoading = ui.editLoading /\ ui'.editError = ui.editError
        BY <1>1, <3>6, <4>1 DEF ProductFields
      <4>4. ui.key # Nothing
        BY <3>6, <3>8 DEF ProductOk
      <4>5. QED
        BY <1>1, <3>5, <4>2, <4>3, <4>4 DEF ProductOk, ShownOk
    <3>9. QED
      BY <3>1, <3>7, <3>8 DEF Product!Corrected
  <2>4. QED
    BY <2>2, <2>3
<1>4. QED
  BY <1>2, <1>3

\* The corrected product is read again, and shown where that product is.
LEMMA RefreshingProduct ==
  ASSUME ProductOk(ui, net), NEW f \in net.refreshes,
         Product!AnswerRefresh(f) \/ Product!ShowRefresh(f) \/ Product!FailRefresh(f)
  PROVE  ProductOk(ui', net')
<1>1. /\ ShownOk(ui) /\ AwaitedOk(net, ui.key) /\ ProductNet \subseteq DOMAIN net
      /\ ProductFields \subseteq DOMAIN ui
  BY DEF ProductOk, AwaitedOk, ShownOk
<1>2. {"key", "range", "answered", "data"} \subseteq DOMAIN f /\ KeyOf(f.data, f.key)
  BY <1>1 DEF AwaitedOk, RefreshesOk
<1>3. CASE Product!AnswerRefresh(f)
  <2> DEFINE data == [key |-> f.key, range |-> f.range, version |-> srv.version[f.key]]
             g == [f EXCEPT !.answered = TRUE, !.data = data]
  <2>1. ui' = ui /\ net' = [net EXCEPT !.refreshes = (@ \ {f}) \cup {g}]
    BY <1>3 DEF Product!AnswerRefresh
  <2>2. KeyOf(data, f.key)
    BY DEF KeyOf
  <2> HIDE DEF data
  <2>3. DOMAIN g = DOMAIN f /\ g.key = f.key /\ g.data = data
    BY <1>2
  <2> HIDE DEF g
  <2>4. /\ DOMAIN net' = DOMAIN net /\ net'.edits = net.edits /\ net'.loads = net.loads
        /\ net'.refreshes = (net.refreshes \ {f}) \cup {g}
    BY <1>1, <2>1 DEF ProductNet
  <2>5. RefreshesOk(net'.refreshes)
    BY <1>1, <1>2, <2>2, <2>3, <2>4 DEF AwaitedOk, RefreshesOk
  <2>6. QED
    BY <1>1, <2>1, <2>4, <2>5 DEF ProductOk, AwaitedOk
<1>4. CASE Product!ShowRefresh(f) \/ Product!FailRefresh(f)
  <2>1. /\ DOMAIN net' = DOMAIN net /\ net'.edits = net.edits /\ net'.loads = net.loads
        /\ net'.refreshes = net.refreshes \ {f}
    BY <1>1, <1>4 DEF ProductNet, Product!ShowRefresh, Product!FailRefresh
  <2>2. AwaitedOk(net', ui.key)
    BY <1>1, <2>1 DEF AwaitedOk, RefreshesOk
  <2>3. CASE ui' = ui
    BY <1>1, <2>1, <2>2, <2>3 DEF ProductOk
  <2>4. CASE /\ ui.product # Nothing /\ ui.product.key = f.key
             /\ ui' = [ui EXCEPT !.product = f.data]
    <3>1. /\ DOMAIN ui' = DOMAIN ui /\ ui'.key = ui.key /\ ui'.product = f.data
          /\ ui'.editing = ui.editing /\ ui'.editLoading = ui.editLoading
          /\ ui'.editError = ui.editError /\ ui'.edit = ui.edit
      BY <1>1, <2>4 DEF ProductFields
    <3>2. ui.product.key = ui.key /\ ui.key # Nothing
      BY <1>1, <2>4 DEF ProductOk, ShownOk, KeyOf
    <3>3. KeyOf(f.data, ui.key)
      BY <1>2, <2>4, <3>2
    <3>4. QED
      BY <1>1, <2>1, <2>2, <3>1, <3>2, <3>3 DEF ProductOk, ShownOk
  <2>5. QED
    BY <1>4, <2>3, <2>4 DEF Product!ShowRefresh, Product!FailRefresh
<1>5. QED
  BY <1>3, <1>4

\* Every step of the panel keeps what it awaits of the product it shows.
LEMMA NextProduct ==
  ASSUME ProductOk(ui, net), [Product!Next]_<<srv, ui, net>>
  PROVE  ProductOk(ui', net')
<1>1. ShownOk(ui) /\ ProductFields \subseteq DOMAIN ui
  BY DEF ProductOk, ShownOk
<1>2. CASE UNCHANGED <<srv, ui, net>>
  BY <1>2
<1>3. CASE \/ Product!TogglePostings \/ (\E to \in {"none", "short", "far"} : Product!Drag(to))
           \/ \E k \in Products : Product!OtherDelete(k)
  <2>1. net' = net
    BY <1>3 DEF Product!TogglePostings, Product!Drag, Product!OtherDelete
  <2>2. /\ DOMAIN ui' = DOMAIN ui /\ ui'.key = ui.key /\ ui'.product = ui.product
        /\ ui'.editing = ui.editing /\ ui'.editLoading = ui.editLoading
        /\ ui'.editError = ui.editError /\ ui'.edit = ui.edit
    BY <1>1, <1>3 DEF ProductFields, Product!TogglePostings, Product!Drag, Product!OtherDelete
  <2>3. QED
    BY <1>1, <2>1, <2>2 DEF ProductOk, ShownOk
<1>4. QED
  BY <1>2, <1>3, GivenOk, ReadingProduct, EditingProduct, SavingProduct, RefreshingProduct
     DEF Product!Next

\* Hence the panel shows the product that is open (PanelIsOfProduct).
LEMMA ProductShows == ASSUME ProductOk(ui, net) PROVE Product!PanelIsOfProduct
BY DEF ProductOk, ShownOk, KeyOf, Product!PanelIsOfProduct, Product!Ready, Product!Editor

-----------------------------------------------------------------------------
(* The open row of the rules page: it is a row of the table that is shown.    *)

TableOk(u) ==
  /\ {"table", "loading", "error", "snoozes", "busy", "clear", "expanded", "recent"} \subseteq DOMAIN u
  /\ u.loading \in BOOLEAN /\ u.error \in BOOLEAN
  /\ u.loading = FALSE /\ u.error = FALSE /\ u.expanded # Nothing => u.expanded \in DOMAIN u.table
  /\ u.recent # Nothing => {"rule", "st"} \subseteq DOMAIN u.recent /\ u.recent.rule = u.expanded

\* The rules page begins with no row open.
LEMMA TableInit == ASSUME Table!Init PROVE TableOk(ui)
BY DEF Table!Init, TableOk

\* The row's own marks are not what is open.
LEMMA RowsKept ==
  ASSUME TableOk(ui), DOMAIN ui' = DOMAIN ui, ui'.table = ui.table, ui'.loading = ui.loading,
         ui'.error \in BOOLEAN, ui'.error = FALSE => ui.error = FALSE,
         ui'.expanded = ui.expanded, ui'.recent = ui.recent
  PROVE  TableOk(ui')
BY DEF TableOk

\* A reading closes a row that is no longer there; a failed one takes the table's place.
LEMMA ReadingOk ==
  ASSUME TableOk(ui),
         \/ \E r \in net.reads : Table!AnswerRead(r) \/ Table!ShowRead(r) \/ Table!FailRead(r)
         \/ \E ok \in BOOLEAN : Table!ReadSnoozes(ok)
  PROVE  TableOk(ui')
<1>1. ASSUME NEW r \in net.reads, Table!ShowRead(r) PROVE TableOk(ui')
  <2> DEFINE u == [ui EXCEPT !.table = r.table, !.loading = FALSE, !.error = FALSE]
  <2>1. ui' = Table!Settled(u)
    BY <1>1 DEF Table!ShowRead
  <2>2. /\ DOMAIN u = DOMAIN ui /\ u.table = r.table /\ u.loading = FALSE /\ u.error = FALSE
        /\ u.expanded = ui.expanded /\ u.recent = ui.recent
    BY DEF TableOk
  <2> HIDE DEF u
  <2>3. CASE u.expanded \in DOMAIN u.table \cup {Nothing}
    <3>1. ui' = u
      BY <2>1, <2>3 DEF Table!Settled, Table!InTable
    <3>2. QED
      BY <2>2, <2>3, <3>1 DEF TableOk
  <2>4. CASE u.expanded \notin DOMAIN u.table \cup {Nothing}
    <3>1. ui' = [u EXCEPT !.expanded = Nothing, !.recent = Nothing]
      BY <2>1, <2>2, <2>4 DEF Table!Settled, Table!InTable
    <3>2. /\ DOMAIN ui' = DOMAIN ui /\ ui'.expanded = Nothing /\ ui'.recent = Nothing
          /\ ui'.loading = FALSE /\ ui'.error = FALSE
      BY <2>2, <3>1 DEF TableOk
    <3>3. QED
      BY <3>2 DEF TableOk
  <2>5. QED
    BY <2>3, <2>4
<1>2. ASSUME NEW r \in net.reads, Table!FailRead(r) PROVE TableOk(ui')
  <2>1. ui' = [ui EXCEPT !.loading = FALSE, !.error = TRUE]
    BY <1>2 DEF Table!FailRead
  <2>2. /\ DOMAIN ui' = DOMAIN ui /\ ui'.loading = FALSE /\ ui'.error = TRUE
        /\ ui'.expanded = ui.expanded /\ ui'.recent = ui.recent
    BY <2>1 DEF TableOk
  <2>3. QED
    BY <2>2 DEF TableOk
<1>3. ASSUME NEW ok \in BOOLEAN, Table!ReadSnoozes(ok) PROVE TableOk(ui')
  <2>1. /\ DOMAIN ui' = DOMAIN ui /\ ui'.table = ui.table /\ ui'.loading = ui.loading
        /\ ui'.expanded = ui.expanded /\ ui'.recent = ui.recent
    BY <1>3 DEF Table!ReadSnoozes, TableOk
  <2>2. ui'.error = ui.error \/ ui'.error = TRUE
    BY <1>3 DEF Table!ReadSnoozes, TableOk
  <2>3. QED
    BY <2>1, <2>2, RowsKept DEF TableOk
<1>4. ASSUME NEW r \in net.reads, Table!AnswerRead(r) PROVE TableOk(ui')
  BY <1>4 DEF Table!AnswerRead
<1>5. QED
  BY <1>1, <1>2, <1>3, <1>4

\* A call of a row marks the row busy until it ends.
LEMMA CallsOk ==
  ASSUME TableOk(ui),
         \/ \E op, r : Table!Started(op, r)
         \/ Table!CancelClear
         \/ \E c \in net.calls : \/ Table!Serve(c) \/ Table!ServeFails(c) \/ Table!AnswerChange(c)
                                 \/ Table!AnswerCheck(c) \/ Table!AnswerClear(c)
                                 \/ Table!AnswerFailure(c)
  PROVE  TableOk(ui')
<1>1. ASSUME NEW u, NEW b, NEW x, u = [ui EXCEPT !.busy[b] = x]
      PROVE  /\ DOMAIN u = DOMAIN ui /\ u.table = ui.table /\ u.loading = ui.loading
             /\ u.error = ui.error /\ u.expanded = ui.expanded /\ u.recent = ui.recent
  BY <1>1 DEF TableOk
<1>2. ASSUME ui' = ui PROVE TableOk(ui')
  BY <1>2
<1>3. ASSUME NEW op, NEW r, Table!Started(op, r) PROVE TableOk(ui')
  BY <1>1, <1>3, RowsKept DEF Table!Started, TableOk
<1>4. CASE Table!CancelClear
  <2>1. ui' = [ui EXCEPT !.clear = Nothing]
    BY <1>4 DEF Table!CancelClear
  <2>2. /\ DOMAIN ui' = DOMAIN ui /\ ui'.table = ui.table /\ ui'.loading = ui.loading
        /\ ui'.error = ui.error /\ ui'.expanded = ui.expanded /\ ui'.recent = ui.recent
    BY <2>1 DEF TableOk
  <2>3. QED
    BY <2>2, RowsKept DEF TableOk
<1>5. ASSUME NEW c \in net.calls, \/ Table!AnswerChange(c) \/ Table!AnswerCheck(c)
                                  \/ Table!AnswerClear(c) \/ Table!AnswerFailure(c)
      PROVE  TableOk(ui')
  <2> DEFINE u == Table!Done(ui, c)
  <2>1. /\ DOMAIN u = DOMAIN ui /\ u.table = ui.table /\ u.loading = ui.loading
        /\ u.error = ui.error /\ u.expanded = ui.expanded /\ u.recent = ui.recent
    BY <1>1 DEF Table!Done
  <2>2. CASE Table!AnswerChange(c)
    BY <2>1, <2>2, RowsKept DEF Table!AnswerChange, TableOk
  <2>3. CASE Table!AnswerCheck(c)
    <3>1. ui' = u \/ ui' = [u EXCEPT !.clear = c.rule]
      BY <2>3 DEF Table!AnswerCheck
    <3> HIDE DEF u
    <3>2. /\ DOMAIN ui' = DOMAIN ui /\ ui'.table = ui.table /\ ui'.loading = ui.loading
          /\ ui'.error = ui.error /\ ui'.expanded = ui.expanded /\ ui'.recent = ui.recent
      BY <2>1, <3>1 DEF TableOk
    <3>3. QED
      BY <3>2, RowsKept DEF TableOk
  <2>4. CASE Table!AnswerClear(c)
    <3> DEFINE recent == IF u.recent = Nothing THEN u.recent ELSE [u.recent EXCEPT !.st = "loading"]
    <3>1. ui' = [u EXCEPT !.clear = Nothing, !.recent = recent]
      BY <2>1, <2>4 DEF Table!AnswerClear, TableOk
    <3>2. recent # Nothing => {"rule", "st"} \subseteq DOMAIN recent /\ recent.rule = ui.expanded
      BY <2>1 DEF TableOk
    <3> HIDE DEF u, recent
    <3>3. /\ DOMAIN ui' = DOMAIN ui /\ ui'.table = ui.table /\ ui'.loading = ui.loading
          /\ ui'.error = ui.error /\ ui'.expanded = ui.expanded /\ ui'.recent = recent
      BY <2>1, <3>1 DEF TableOk
    <3>4. QED
      BY <3>2, <3>3 DEF TableOk
  <2>5. CASE Table!AnswerFailure(c)
    <3> DEFINE error == u.error \/ c.op # "clear"
    <3>1. ui' = [u EXCEPT !.error = error]
      BY <2>1, <2>5 DEF Table!AnswerFailure, TableOk
    <3>2. error \in BOOLEAN /\ (error = FALSE => ui.error = FALSE)
      BY <2>1 DEF TableOk
    <3> HIDE DEF u, error
    <3>3. /\ DOMAIN ui' = DOMAIN ui /\ ui'.table = ui.table /\ ui'.loading = ui.loading
          /\ ui'.error = error /\ ui'.expanded = ui.expanded /\ ui'.recent = ui.recent
      BY <2>1, <3>1 DEF TableOk
    <3>4. QED
      BY <3>2, <3>3, RowsKept
  <2>6. QED
    BY <1>5, <2>2, <2>3, <2>4, <2>5
<1>6. ASSUME NEW c \in net.calls, Table!Serve(c) \/ Table!ServeFails(c) PROVE TableOk(ui')
  BY <1>6 DEF Table!Serve, Table!ServeFails
<1>7. QED
  BY <1>3, <1>4, <1>5, <1>6

\* A row is opened where the table is shown, and its matches are read.
LEMMA OpenRowOk ==
  ASSUME TableOk(ui),
         \/ \E r \in Rules \cup {Nothing} : Table!Expand(r)
         \/ \E st \in Table!Recent \ {"loading"} : Table!ShowRecent(st)
  PROVE  TableOk(ui')
<1>1. ASSUME NEW r \in Rules \cup {Nothing}, Table!Expand(r) PROVE TableOk(ui')
  <2> DEFINE recent == IF r = Nothing THEN Nothing ELSE [rule |-> r, st |-> "loading"]
  <2>1. ui' = [ui EXCEPT !.expanded = r, !.recent = recent] /\ r \in DOMAIN ui.table \cup {Nothing}
    BY <1>1 DEF Table!Expand, Table!InTable
  <2>2. recent # Nothing => {"rule", "st"} \subseteq DOMAIN recent /\ recent.rule = r
    OBVIOUS
  <2> HIDE DEF recent
  <2>3. /\ DOMAIN ui' = DOMAIN ui /\ ui'.table = ui.table /\ ui'.loading = ui.loading
        /\ ui'.error = ui.error /\ ui'.expanded = r /\ ui'.recent = recent
    BY <2>1 DEF TableOk
  <2>4. QED
    BY <2>1, <2>2, <2>3 DEF TableOk
<1>2. ASSUME NEW st, Table!ShowRecent(st) PROVE TableOk(ui')
  <2> DEFINE recent == [ui.recent EXCEPT !.st = st]
  <2>1. ui.recent # Nothing /\ ui' = [ui EXCEPT !.recent = recent]
    BY <1>2 DEF Table!ShowRecent, TableOk
  <2>2. {"rule", "st"} \subseteq DOMAIN recent /\ recent.rule = ui.expanded
    BY <2>1 DEF TableOk
  <2> HIDE DEF recent
  <2>3. /\ DOMAIN ui' = DOMAIN ui /\ ui'.table = ui.table /\ ui'.loading = ui.loading
        /\ ui'.error = ui.error /\ ui'.expanded = ui.expanded /\ ui'.recent = recent
    BY <2>1 DEF TableOk
  <2>4. QED
    BY <2>2, <2>3 DEF TableOk
<1>3. QED
  BY <1>1, <1>2

\* Every step of the rules page keeps the open row one of the table.
LEMMA NextTable ==
  ASSUME TableOk(ui), [Table!Next]_<<srv, ui, net>>
  PROVE  TableOk(ui')
<1>1. CASE UNCHANGED <<srv, ui, net>>
  BY <1>1
<1>2. ASSUME NEW r \in Rules, \/ Table!Toggle(r) \/ Table!ToggleSnooze(r) \/ Table!Delete(r)
                              \/ Table!CheckClear(r)
      PROVE  \E op, x : Table!Started(op, x)
  BY <1>2 DEF Table!Toggle, Table!ToggleSnooze, Table!Delete, Table!CheckClear
<1>3. CASE Table!ConfirmClear
  BY <1>3, CallsOk DEF Table!ConfirmClear
<1>4. CASE \E r \in srv.snoozed : Table!SnoozeLapses(r)
  BY <1>4 DEF Table!SnoozeLapses
<1>5. QED
  BY <1>1, <1>2, <1>3, <1>4, ReadingOk, CallsOk, OpenRowOk DEF Table!Next

\* Hence an open row is in the table that is shown (OpenRowIsInTable).
LEMMA TableShows == ASSUME TableOk(ui) PROVE Table!OpenRowIsInTable
BY DEF TableOk, Table!OpenRowIsInTable, Table!Shown, Table!InTable

-----------------------------------------------------------------------------
(* The tester of the rules page: a request that is not invalidated is of the  *)
(* panel's target.                                                            *)

FormFields(u) == {"rules", "target", "form", "rail", "formError", "submitting", "tester",
                  "testing", "testError", "result"} \subseteq DOMAIN u
FormNet(n) ==
  /\ {"suggestion", "saves", "tests", "ops"} \subseteq DOMAIN n
  /\ \A t \in n.tests : {"of", "terms", "live"} \subseteq DOMAIN t
Unanswered(n) == \A t \in n.tests : t.live = FALSE
FormOk(u, n) ==
  /\ FormFields(u) /\ FormNet(n)
  /\ u.testing \in BOOLEAN /\ (u.testing => u.result = Nothing)
  /\ u.result # Nothing => u.result.of = u.tester
  /\ \A t \in n.tests : t.live => t.of = u.tester

\* The form begins with no result and nothing asked.
LEMMA FormInit == ASSUME Form!Init PROVE FormOk(ui, net)
BY DEF Form!Init, FormOk, FormFields, FormNet

\* Counting a call changes nothing else that is on its way.
LEMMA CountedForm ==
  ASSUME NEW n, FormNet(n)
  PROVE  FormNet(Form!Counted(n)) /\ Form!Counted(n).tests = n.tests
BY DEF Form!Counted, FormNet

\* What is invalidated is answered to nobody.
LEMMA InvalidatedForm ==
  ASSUME NEW n, FormNet(n)
  PROVE  FormNet(Form!Invalidated(n)) /\ Unanswered(Form!Invalidated(n))
<1> DEFINE m == Form!Invalidated(n)
<1>1. m = [n EXCEPT !.tests = {[t EXCEPT !.live = FALSE] : t \in n.tests}]
  BY DEF Form!Invalidated
<1>2. DOMAIN m = DOMAIN n /\ m.tests = {[t EXCEPT !.live = FALSE] : t \in n.tests}
  BY <1>1 DEF FormNet
<1> HIDE DEF m
<1>3. \A t \in m.tests : {"of", "terms", "live"} \subseteq DOMAIN t /\ t.live = FALSE
  BY <1>2 DEF FormNet
<1>4. FormNet(m) /\ Unanswered(m)
  BY <1>2, <1>3 DEF FormNet, Unanswered
<1>5. QED
  BY <1>4 DEF m

\* A panel that asks again forgets what it asked before and what it showed.
LEMMA AskedOk ==
  ASSUME NEW u, NEW n, FormFields(u), FormNet(n), Form!Asked(u, n)
  PROVE  FormOk(ui', net')
<1> DEFINE m == Form!Counted(Form!Invalidated(n))
<1>1. FormNet(m) /\ Unanswered(m)
  BY InvalidatedForm, CountedForm DEF Unanswered
<1>2. CASE Form!TestedTerms(u) = Form!NoTerms
  <2>1. /\ ui' = [u EXCEPT !.testing = FALSE, !.testError = TRUE, !.result = Nothing]
        /\ net' = m
    BY <1>2 DEF Form!Asked
  <2> HIDE DEF m
  <2>2. FormFields(ui') /\ ui'.testing = FALSE /\ ui'.result = Nothing
    BY <2>1 DEF FormFields
  <2>3. QED
    BY <1>1, <2>1, <2>2 DEF FormOk, Unanswered
<1>3. CASE Form!TestedTerms(u) # Form!NoTerms
  <2> DEFINE t == [n |-> n.ops, of |-> u.tester, terms |-> Form!TestedTerms(u), live |-> TRUE]
  <2>1. /\ ui' = [u EXCEPT !.testing = TRUE, !.testError = FALSE, !.result = Nothing]
        /\ net' = [m EXCEPT !.tests = @ \cup {t}]
    BY <1>3 DEF Form!Asked
  <2>2. t.of = u.tester /\ {"of", "terms", "live"} \subseteq DOMAIN t
    OBVIOUS
  <2> HIDE DEF m, t
  <2>3. /\ FormFields(ui') /\ ui'.testing = TRUE /\ ui'.result = Nothing /\ ui'.tester = u.tester
    BY <2>1 DEF FormFields
  <2>4. DOMAIN net' = DOMAIN m /\ net'.tests = m.tests \cup {t}
    BY <1>1, <2>1 DEF FormNet
  <2>5. FormNet(net')
    BY <1>1, <2>2, <2>4 DEF FormNet
  <2>6. QED
    BY <1>1, <2>2, <2>3, <2>4, <2>5 DEF FormOk, Unanswered
<1>4. QED
  BY <1>2, <1>3

\* The effect on the panel's target asks for another one, or keeps what there is.
LEMMA RetargetedOk ==
  ASSUME NEW u, NEW n, FormFields(u), FormNet(n), Form!Retargeted(u, n),
         u.tester = ui.tester => FormOk(u, n),
         u.tester # ui.tester => Unanswered(n) /\ (u.tester = Nothing => u.testing = FALSE)
  PROVE  FormOk(ui', net')
<1>1. FormNet(Form!Counted(n)) /\ Form!Counted(n).tests = n.tests
  BY CountedForm
<1>2. CASE u.tester = ui.tester
  BY <1>1, <1>2 DEF Form!Retargeted, FormOk
<1>3. CASE u.tester # ui.tester /\ u.tester = Nothing
  <2>1. /\ ui' = [u EXCEPT !.result = Nothing, !.testError = FALSE] /\ net' = Form!Counted(n)
    BY <1>3 DEF Form!Retargeted
  <2>2. FormFields(ui') /\ ui'.testing = FALSE /\ ui'.result = Nothing
    BY <1>3, <2>1 DEF FormFields
  <2>3. QED
    BY <1>1, <1>3, <2>1, <2>2 DEF FormOk, Unanswered
<1>4. CASE u.tester # ui.tester /\ u.tester # Nothing
  BY <1>4, AskedOk DEF Form!Retargeted
<1>5. QED
  BY <1>2, <1>3, <1>4

\* A form that is loaded keeps the tester of its own rule, and no other.
LEMMA LoadedOk ==
  ASSUME FormOk(ui, net), NEW target, NEW form, NEW n, FormNet(n), n.tests = net.tests,
         Form!Loaded(target, form, n)
  PROVE  FormOk(ui', net')
<1> DEFINE kept == target # Form!Create /\ ui.tester = target
           tester == IF kept THEN ui.tester ELSE Nothing
           testing == ui.testing /\ kept
           u == [ui EXCEPT !.target = target, !.form = form, !.formError = FALSE,
                           !.tester = tester, !.testing = testing]
           m == IF kept THEN n ELSE Form!Invalidated(n)
<1>1. FormFields(ui) /\ ui.testing \in BOOLEAN
  BY DEF FormOk
<1>2. Form!Retargeted(u, m)
  BY DEF Form!Loaded
<1>3. testing \in BOOLEAN /\ (testing => ui.testing) /\ (~kept => testing = FALSE)
  BY <1>1
<1>4. kept => tester = ui.tester
  OBVIOUS
<1>5. ~kept => tester = Nothing
  OBVIOUS
<1>6. FormNet(m) /\ (kept => m.tests = net.tests) /\ (~kept => Unanswered(m))
  BY InvalidatedForm
<1> HIDE DEF testing, tester, m, kept
<1>7. /\ FormFields(u) /\ u.tester = tester /\ u.testing = testing /\ u.result = ui.result
  BY <1>1 DEF FormFields
<1> HIDE DEF u
<1>8. u.tester = ui.tester => FormOk(u, m)
  BY <1>3, <1>4, <1>5, <1>6, <1>7 DEF FormOk, Unanswered
<1>9. u.tester # ui.tester => Unanswered(m) /\ (u.tester = Nothing => u.testing = FALSE)
  BY <1>3, <1>4, <1>6, <1>7
<1>10. QED
  BY <1>2, <1>6, <1>7, <1>8, <1>9, RetargetedOk

\* The tester is opened and closed with what it asked before invalidated.
LEMMA TesterOk ==
  ASSUME FormOk(ui, net), NEW of,
         Form!Retargeted([ui EXCEPT !.tester = of, !.testing = FALSE], Form!Invalidated(net))
  PROVE  FormOk(ui', net')
<1> DEFINE u == [ui EXCEPT !.tester = of, !.testing = FALSE]
           m == Form!Invalidated(net)
<1>1. FormFields(ui) /\ FormNet(net)
  BY DEF FormOk
<1>2. FormNet(m) /\ Unanswered(m)
  BY <1>1, InvalidatedForm
<1>3. FormFields(u) /\ u.tester = of /\ u.testing = FALSE /\ u.result = ui.result
  BY <1>1 DEF FormFields
<1>4. Form!Retargeted(u, m)
  OBVIOUS
<1> HIDE DEF u, m
<1>5. u.tester = ui.tester => FormOk(u, m)
  BY <1>2, <1>3 DEF FormOk, Unanswered
<1>6. QED
  BY <1>2, <1>3, <1>4, <1>5, RetargetedOk

\* Every step of the form keeps the tester's answers of its target.
LEMMA NextForm ==
  ASSUME FormOk(ui, net), [Form!Next]_<<srv, ui, net>>
  PROVE  FormOk(ui', net')
<1>0. FormFields(ui) /\ FormNet(net)
  BY DEF FormOk
<1>1. CASE UNCHANGED <<srv, ui, net>>
  BY <1>1
<1>2. CASE (\E of \in Form!FormTargets : Form!OpenTester(of)) \/ Form!CloseTester
  BY <1>2, TesterOk DEF Form!OpenTester, Form!CloseTester
<1>3. CASE Form!AskAgain
  BY <1>0, <1>3, AskedOk DEF Form!AskAgain
<1>4. ASSUME NEW t \in net.tests, NEW ok \in BOOLEAN, Form!AnswerTest(t, ok)
      PROVE  FormOk(ui', net')
  <2>1. net' = [net EXCEPT !.tests = @ \ {t}]
    BY <1>4 DEF Form!AnswerTest
  <2>2. DOMAIN net' = DOMAIN net /\ net'.tests = net.tests \ {t}
    BY <1>0, <2>1 DEF FormNet
  <2>3. FormNet(net')
    BY <1>0, <2>2 DEF FormNet
  <2>4. CASE ~t.live
    BY <1>4, <2>2, <2>3, <2>4 DEF Form!AnswerTest, FormOk
  <2>5. CASE t.live /\ ok
    <3>1. ui' = [ui EXCEPT !.testing = FALSE, !.result = [of |-> t.of, terms |-> t.terms]]
      BY <1>4, <2>5 DEF Form!AnswerTest
    <3>2. /\ FormFields(ui') /\ ui'.testing = FALSE /\ ui'.tester = ui.tester
          /\ ui'.result.of = t.of
      BY <1>0, <3>1 DEF FormFields
    <3>3. QED
      BY <2>2, <2>3, <2>5, <3>2 DEF FormOk
  <2>6. CASE t.live /\ ~ok
    <3>1. ui' = [ui EXCEPT !.testing = FALSE, !.testError = TRUE, !.result = Nothing]
      BY <1>4, <2>6 DEF Form!AnswerTest
    <3>2. /\ FormFields(ui') /\ ui'.testing = FALSE /\ ui'.tester = ui.tester
          /\ ui'.result = Nothing
      BY <1>0, <3>1 DEF FormFields
    <3>3. QED
      BY <2>2, <2>3, <3>2 DEF FormOk
  <2>7. QED
    BY <2>4, <2>5, <2>6
<1>5. CASE Form!OpenCreate \/ \E r \in Rules : Form!OpenEdit(r) \/ Form!OpenDuplicate(r)
  BY <1>0, <1>5, LoadedOk DEF Form!OpenCreate, Form!OpenEdit, Form!OpenDuplicate
<1>6. ASSUME NEW ok \in BOOLEAN, Form!AnswerSuggestion(ok) PROVE FormOk(ui', net')
  <2> DEFINE n == [net EXCEPT !.suggestion = FALSE]
  <2>1. FormNet(n) /\ n.tests = net.tests
    BY <1>0 DEF FormNet
  <2>2. CASE ok
    <3>1. Form!Loaded(Form!Create, Form!Suggested, n)
      BY <1>6, <2>2 DEF Form!AnswerSuggestion
    <3> HIDE DEF n
    <3>2. QED
      BY <2>1, <3>1, LoadedOk
  <2>3. CASE ~ok
    BY <1>6, <2>1, <2>3 DEF Form!AnswerSuggestion, FormOk
  <2>4. QED
    BY <2>2, <2>3
<1>7. ASSUME ui'.tester = ui.tester, ui'.testing = ui.testing, ui'.result = ui.result,
             DOMAIN ui' = DOMAIN ui, DOMAIN net' = DOMAIN net, net'.tests = net.tests
      PROVE  FormOk(ui', net')
  BY <1>7 DEF FormOk, FormFields, FormNet
<1>8. CASE \/ Form!Submit \/ (\E form \in Form!Terms : Form!Type(form))
           \/ (\E rail \in {"rule", "recipient"} : Form!TurnRail(rail))
           \/ (\E s \in net.saves : Form!ServeSave(s) \/ Form!FailSave(s))
           \/ \E r \in Rules : Form!RuleGone(r)
  <2>1. /\ ui'.tester = ui.tester /\ ui'.testing = ui.testing /\ ui'.result = ui.result
        /\ DOMAIN ui' = DOMAIN ui
    BY <1>0, <1>8 DEF FormFields, Form!Submit, Form!Type, Form!TurnRail, Form!ServeSave,
         Form!FailSave, Form!RuleGone
  <2>2. DOMAIN net' = DOMAIN net /\ net'.tests = net.tests
    BY <1>0, <1>8 DEF FormNet, Form!Submit, Form!Type, Form!TurnRail, Form!ServeSave,
         Form!FailSave, Form!RuleGone, Form!Counted
  <2>3. QED
    BY <1>7, <2>1, <2>2
<1>9. ASSUME NEW s \in net.saves, Form!AnswerSave(s) PROVE FormOk(ui', net')
  <2> DEFINE kept == [net EXCEPT !.saves = @ \ {s}]
             m == Form!Invalidated(kept)
             u == [ui EXCEPT !.target = Form!Create, !.form = Form!NoTerms, !.formError = FALSE,
                             !.submitting = FALSE, !.tester = Nothing, !.testing = FALSE]
  <2>1. Form!Retargeted(u, m)
    BY <1>9 DEF Form!AnswerSave
  <2>2. FormNet(kept)
    BY <1>0 DEF FormNet
  <2> HIDE DEF kept
  <2>3. FormNet(m) /\ Unanswered(m)
    BY <2>2, InvalidatedForm
  <2>4. FormFields(u) /\ u.tester = Nothing /\ u.testing = FALSE /\ u.result = ui.result
    BY <1>0 DEF FormFields
  <2> HIDE DEF u, m
  <2>5. u.tester = ui.tester => FormOk(u, m)
    BY <2>3, <2>4 DEF FormOk, Unanswered
  <2>6. QED
    BY <2>1, <2>3, <2>4, <2>5, RetargetedOk
<1>10. QED
  BY <1>1, <1>2, <1>3, <1>4, <1>5, <1>6, <1>8, <1>9 DEF Form!Next

\* Hence the result shown is of the rule in the tester (ResultIsOfPanel).
LEMMA FormShows == ASSUME FormOk(ui, net) PROVE Form!ResultIsOfPanel
BY DEF FormOk, Form!ResultIsOfPanel

-----------------------------------------------------------------------------
(* The cards of the recipients: a preview that is not stale is of the draft shown. *)

Chosen(d) == {"mode", "ids", "types"} \subseteq DOMAIN d
Listed(list) ==
  \A r \in DOMAIN list : {"settings", "active"} \subseteq DOMAIN list[r] /\ Chosen(list[r].settings)
PeopleFields(u) ==
  /\ {"list", "cards", "loading", "error", "pausing", "deleting", "rail"} \subseteq DOMAIN u
  /\ Listed(u.list) /\ DOMAIN u.cards \subseteq DOMAIN u.list
PeopleNet(n) ==
  /\ {"reads", "calls", "asks", "late", "ops"} \subseteq DOMAIN n
  /\ \A r \in n.reads : {"last", "answered", "list"} \subseteq DOMAIN r /\ Listed(r.list)
  /\ \A c \in n.calls : /\ {"op", "r", "draft", "mine", "st"} \subseteq DOMAIN c
                        /\ c.op \in {"pause", "delete", "save", "add", "rename"}
                        /\ c.op = "save" => Chosen(c.draft)
Awaiting(n, r) == \E a \in n.asks : a.live /\ a.r = r
CardOk(c, awaiting) ==
  /\ {"draft", "saving", "timer", "preview"} \subseteq DOMAIN c /\ Chosen(c.draft)
  /\ People!Previewable(c.draft) /\ ~c.timer /\ ~awaiting => c.preview \in {Nothing, c.draft}
AsksOk(u, n) ==
  \A a \in n.asks : /\ {"r", "of", "live"} \subseteq DOMAIN a /\ a.r \in Recipients
                    /\ a.live => a.r \in DOMAIN u.cards /\ a.of = u.cards[a.r].draft
CardsOk(u, n) == \A r \in DOMAIN u.cards : CardOk(u.cards[r], Awaiting(n, r))
PeopleOk(s, u, n) ==
  /\ {"rules", "people"} \subseteq DOMAIN s /\ Listed(s.people)
  /\ PeopleFields(u) /\ PeopleNet(n) /\ AsksOk(u, n) /\ CardsOk(u, n)

\* The recipients begin unread.
LEMMA PeopleInit == ASSUME People!Init PROVE PeopleOk(srv, ui, net)
<1>1. PICK d \in {People!NewSettings, [People!NewSettings EXCEPT !.mode = "selected", !.ids = SomeRules]} :
        srv = [rules |-> SomeRules,
               people |-> [r \in {People!First} |-> [settings |-> d, active |-> TRUE]]]
  BY DEF People!Init
<1>2. Chosen(d)
  BY <1>1 DEF People!NewSettings, Chosen
<1>3. {"rules", "people"} \subseteq DOMAIN srv /\ Listed(srv.people)
  BY <1>1, <1>2 DEF Listed
<1>4. /\ {"list", "cards", "loading", "error", "pausing", "deleting", "rail"} \subseteq DOMAIN ui
      /\ ui.list = <<>> /\ ui.cards = <<>>
  BY DEF People!Init
<1>5. PeopleFields(ui)
  BY <1>4 DEF PeopleFields, Listed
<1>6. /\ {"reads", "calls", "asks", "late", "ops"} \subseteq DOMAIN net
      /\ net.reads = {[last |-> TRUE, answered |-> FALSE, list |-> <<>>]}
      /\ net.calls = {} /\ net.asks = {}
  BY DEF People!Init, People!Reloaded
<1>7. PeopleNet(net)
  BY <1>6 DEF PeopleNet, Listed
<1>8. AsksOk(ui, net) /\ CardsOk(ui, net)
  BY <1>4, <1>6 DEF AsksOk, CardsOk
<1>9. QED
  BY <1>3, <1>5, <1>7, <1>8 DEF PeopleOk

\* The asks of m are those of n, and the ones about these cards are stale.
Staled(n, m, rs) ==
  /\ \A b \in m.asks : \E a \in n.asks : /\ DOMAIN b = DOMAIN a /\ b.r = a.r /\ b.of = a.of
                                         /\ b.live => a.live /\ a.r \notin rs
  /\ \A a \in n.asks : \E b \in m.asks : b.r = a.r /\ (a.live /\ a.r \notin rs => b.live)

\* Making asks stale changes nothing but which of them are.
LEMMA StaleAsks ==
  ASSUME NEW n, NEW rs, PeopleNet(n), \A a \in n.asks : {"r", "of", "live"} \subseteq DOMAIN a
  PROVE  /\ PeopleNet(People!Stale(n, rs)) /\ Staled(n, People!Stale(n, rs), rs)
         /\ \A a \in People!Stale(n, rs).asks : {"r", "of", "live"} \subseteq DOMAIN a
         /\ People!Stale(n, rs).reads = n.reads /\ People!Stale(n, rs).calls = n.calls
<1> DEFINE stale(a) == [a EXCEPT !.live = a.live /\ a.r \notin rs]
           m == People!Stale(n, rs)
<1>1. m = [n EXCEPT !.asks = {stale(a) : a \in n.asks}]
  BY DEF People!Stale
<1>2. /\ DOMAIN m = DOMAIN n /\ m.reads = n.reads /\ m.calls = n.calls
      /\ m.asks = {stale(a) : a \in n.asks}
  BY <1>1 DEF PeopleNet
<1>3. ASSUME NEW a \in n.asks
      PROVE  /\ DOMAIN stale(a) = DOMAIN a /\ stale(a).r = a.r /\ stale(a).of = a.of
             /\ stale(a).live = (a.live /\ a.r \notin rs)
  <2>1. {"r", "of", "live"} \subseteq DOMAIN a
    OBVIOUS
  <2>2. QED
    BY <2>1
<1> HIDE DEF stale, m
<1>4. Staled(n, m, rs)
  <2>1. \A b \in m.asks : \E a \in n.asks : b = stale(a)
    BY <1>2
  <2>2. \A a \in n.asks : stale(a) \in m.asks
    BY <1>2
  <2>3. QED
    BY <1>3, <2>1, <2>2 DEF Staled
<1>5. \A a \in m.asks : {"r", "of", "live"} \subseteq DOMAIN a
  BY <1>4 DEF Staled
<1>6. PeopleNet(m)
  BY <1>2 DEF PeopleNet
<1>7. QED
  BY <1>2, <1>4, <1>5, <1>6 DEF m

\* Calls that become nobody's are the same calls.
LEMMA OrphanedCalls ==
  ASSUME NEW n, NEW ops, NEW rs, PeopleNet(n)
  PROVE  /\ PeopleNet(People!Orphaned(n, ops, rs))
         /\ People!Orphaned(n, ops, rs).asks = n.asks /\ People!Orphaned(n, ops, rs).reads = n.reads
<1> DEFINE orphan(c) == [c EXCEPT !.mine = c.mine /\ ~(c.op \in ops /\ c.r \in rs)]
           m == People!Orphaned(n, ops, rs)
<1>1. m = [n EXCEPT !.calls = {orphan(c) : c \in n.calls}]
  BY DEF People!Orphaned
<1>2. /\ DOMAIN m = DOMAIN n /\ m.reads = n.reads /\ m.asks = n.asks
      /\ m.calls = {orphan(c) : c \in n.calls}
  BY <1>1 DEF PeopleNet
<1>3. ASSUME NEW c \in n.calls
      PROVE  DOMAIN orphan(c) = DOMAIN c /\ orphan(c).op = c.op /\ orphan(c).draft = c.draft
  <2>1. {"op", "r", "draft", "mine", "st"} \subseteq DOMAIN c
    BY DEF PeopleNet
  <2>2. QED
    BY <2>1
<1> HIDE DEF orphan, m
<1>4. \A c \in m.calls : \E b \in n.calls : c = orphan(b)
  BY <1>2
<1>5. PeopleNet(m)
  BY <1>2, <1>3, <1>4 DEF PeopleNet
<1>6. QED
  BY <1>2, <1>5 DEF m

\* A new reading makes the older ones not the last.
LEMMA ReloadedReads ==
  ASSUME NEW n, PeopleNet(n)
  PROVE  PeopleNet(People!Reloaded(n)) /\ People!Reloaded(n).asks = n.asks
<1> DEFINE older(r) == [r EXCEPT !.last = FALSE]
           m == People!Reloaded(n)
<1>1. m = [n EXCEPT !.reads = {older(r) : r \in n.reads}
                                \cup {[last |-> TRUE, answered |-> FALSE, list |-> <<>>]}]
  BY DEF People!Reloaded
<1>2. /\ DOMAIN m = DOMAIN n /\ m.calls = n.calls /\ m.asks = n.asks
      /\ m.reads = {older(r) : r \in n.reads} \cup {[last |-> TRUE, answered |-> FALSE, list |-> <<>>]}
  BY <1>1 DEF PeopleNet
<1>3. ASSUME NEW r \in n.reads PROVE DOMAIN older(r) = DOMAIN r /\ older(r).list = r.list
  <2>1. {"last", "answered", "list"} \subseteq DOMAIN r
    BY DEF PeopleNet
  <2>2. QED
    BY <2>1
<1>4. \A r \in n.reads : {"last", "answered", "list"} \subseteq DOMAIN older(r) /\ Listed(older(r).list)
  BY <1>3 DEF PeopleNet
<1> HIDE DEF older, m
<1>5. Listed(<<>>)
  BY DEF Listed
<1>6. \A r \in m.reads : {"last", "answered", "list"} \subseteq DOMAIN r /\ Listed(r.list)
  BY <1>2, <1>4, <1>5
<1>7. QED
  BY <1>2, <1>6 DEF PeopleNet, m

\* A card whose draft changed has nothing pending but its timer, a new one as well.
LEMMA RedrawnOk ==
  ASSUME NEW u, NEW n, NEW rs, AsksOk(ui, net), CardsOk(ui, net), Staled(net, n, rs),
         DOMAIN ui.cards \ DOMAIN u.cards \subseteq rs,
         \A r \in DOMAIN u.cards :
           \/ r \in DOMAIN ui.cards /\ u.cards[r] = ui.cards[r]
           \/ /\ r \in DOMAIN ui.cards => r \in rs
              /\ {"draft", "saving", "timer", "preview"} \subseteq DOMAIN u.cards[r]
              /\ Chosen(u.cards[r].draft)
              /\ u.cards[r].timer = People!Previewable(u.cards[r].draft),
         \A r \in rs \cap DOMAIN u.cards : u.cards[r].timer = People!Previewable(u.cards[r].draft)
  PROVE  AsksOk(u, n) /\ CardsOk(u, n)
<1>1. AsksOk(u, n)
  BY DEF AsksOk, Staled
<1>2. ASSUME NEW r \in DOMAIN u.cards PROVE CardOk(u.cards[r], Awaiting(n, r))
  <2>1. CASE u.cards[r].timer = People!Previewable(u.cards[r].draft)
    BY <2>1 DEF CardsOk, CardOk
  <2>2. CASE r \notin rs /\ r \in DOMAIN ui.cards /\ u.cards[r] = ui.cards[r]
    <3>1. Awaiting(net, r) => Awaiting(n, r)
      BY <2>2 DEF Awaiting, Staled
    <3>2. QED
      BY <2>2, <3>1 DEF CardsOk, CardOk
  <2>3. QED
    BY <2>1, <2>2
<1>3. QED
  BY <1>1, <1>2 DEF CardsOk

\* A card keeps its draft and its preview, and so do the answers it waits for.
LEMMA CardsKept ==
  ASSUME NEW u, NEW n, PeopleFields(ui), AsksOk(ui, net), CardsOk(ui, net),
         DOMAIN u = DOMAIN ui, u.list = ui.list, DOMAIN u.cards = DOMAIN ui.cards,
         \A r \in DOMAIN ui.cards :
           /\ DOMAIN u.cards[r] = DOMAIN ui.cards[r] /\ u.cards[r].draft = ui.cards[r].draft
           /\ u.cards[r].timer = ui.cards[r].timer /\ u.cards[r].preview = ui.cards[r].preview,
         n.asks = net.asks
  PROVE  PeopleFields(u) /\ AsksOk(u, n) /\ CardsOk(u, n)
<1>1. \A r : Awaiting(n, r) = Awaiting(net, r)
  BY DEF Awaiting
<1>2. QED
  BY <1>1 DEF PeopleFields, AsksOk, CardsOk, CardOk

\* A draft that becomes another one is given by the settings of someone, or edited.
LEMMA DraftOk ==
  ASSUME PeopleOk(srv, ui, net), NEW r \in DOMAIN ui.cards, NEW d, Chosen(d), d # ui.cards[r].draft,
         ui' = [ui EXCEPT !.cards[r] = People!WithDraft(@, d)], NEW n,
         n = People!Stale(net, {r})
  PROVE  PeopleFields(ui') /\ PeopleNet(n) /\ AsksOk(ui', n) /\ CardsOk(ui', n)
<1> DEFINE card == [ui.cards[r] EXCEPT !.draft = d, !.timer = People!Previewable(d)]
<1>1. ui' = [ui EXCEPT !.cards = [ui.cards EXCEPT ![r] = card]]
  BY DEF People!WithDraft
<1>2. {"draft", "saving", "timer", "preview"} \subseteq DOMAIN ui.cards[r]
  BY DEF PeopleOk, CardsOk, CardOk
<1>3. /\ {"draft", "saving", "timer", "preview"} \subseteq DOMAIN card /\ card.draft = d
      /\ card.timer = People!Previewable(d)
  BY <1>2
<1> HIDE DEF card
<1>4. /\ DOMAIN ui' = DOMAIN ui /\ ui'.list = ui.list /\ DOMAIN ui'.cards = DOMAIN ui.cards
      /\ ui'.cards[r] = card /\ \A x \in DOMAIN ui.cards \ {r} : ui'.cards[x] = ui.cards[x]
  <2>1. DOMAIN ui' = DOMAIN ui /\ ui'.list = ui.list /\ ui'.cards = [ui.cards EXCEPT ![r] = card]
    BY <1>1 DEF PeopleOk, PeopleFields
  <2>2. QED
    BY <2>1
<1>5. \A a \in net.asks : {"r", "of", "live"} \subseteq DOMAIN a
  BY DEF PeopleOk, AsksOk
<1>6. PeopleNet(n) /\ Staled(net, n, {r})
  BY <1>5, StaleAsks DEF PeopleOk
<1>7. AsksOk(ui', n) /\ CardsOk(ui', n)
  <2>1. AsksOk(ui, net) /\ CardsOk(ui, net) /\ Staled(net, n, {r})
    BY <1>6 DEF PeopleOk
  <2>2. DOMAIN ui.cards \ DOMAIN ui'.cards \subseteq {r}
    BY <1>4
  <2>3. \A x \in DOMAIN ui'.cards :
          \/ x \in DOMAIN ui.cards /\ ui'.cards[x] = ui.cards[x]
          \/ /\ x \in DOMAIN ui.cards => x \in {r}
             /\ {"draft", "saving", "timer", "preview"} \subseteq DOMAIN ui'.cards[x]
             /\ Chosen(ui'.cards[x].draft)
             /\ ui'.cards[x].timer = People!Previewable(ui'.cards[x].draft)
    BY <1>3, <1>4
  <2>4. \A x \in {r} \cap DOMAIN ui'.cards : ui'.cards[x].timer = People!Previewable(ui'.cards[x].draft)
    BY <1>3, <1>4
  <2>5. QED
    BY ONLY <2>1, <2>2, <2>3, <2>4, RedrawnOk
<1>8. PeopleFields(ui')
  BY <1>4 DEF PeopleOk, PeopleFields
<1>9. QED
  BY <1>6, <1>7, <1>8

\* Every edit of a draft is another draft.
LEMMA EditsDiffer ==
  ASSUME NEW d, Chosen(d), NEW e \in People!Edits(d)
  PROVE  Chosen(e) /\ e # d
<1>1. CASE \E m \in {"all", "selected"} \ {d.mode} : e = [d EXCEPT !.mode = m]
  BY <1>1 DEF Chosen
<1>2. ASSUME NEW set, NEW x PROVE People!Toggled(set, x) # set
  BY DEF People!Toggled
<1>3. CASE \E rule : e = [d EXCEPT !.ids = People!Toggled(@, rule)]
  BY <1>2, <1>3 DEF Chosen
<1>4. CASE e = [d EXCEPT !.types = People!Toggled(@, "common")]
  BY <1>2, <1>4 DEF Chosen
<1>5. QED
  BY <1>1, <1>3, <1>4 DEF People!Edits

\* An edit and a discard give the card another draft, and drop what was asked of the old one.
LEMMA DraftsOk ==
  ASSUME PeopleOk(srv, ui, net), NEW r, People!EditCard(r) \/ People!Discard(r)
  PROVE  PeopleOk(srv', ui', net')
<1>1. srv' = srv /\ r \in DOMAIN ui.cards
  BY DEF People!EditCard, People!Discard
<1>2. CASE People!EditCard(r)
  <2>1. PICK d \in People!Edits(ui.cards[r].draft) :
          ui' = [ui EXCEPT !.cards[r] = People!WithDraft(@, d)]
    BY <1>2 DEF People!EditCard
  <2>2. Chosen(d) /\ d # ui.cards[r].draft
    BY <1>1, EditsDiffer DEF PeopleOk, CardsOk, CardOk
  <2>3. PICK n : n = People!Stale(net, {r}) /\ net' = [n EXCEPT !.ops = @ + 1]
    BY <1>2 DEF People!EditCard, People!Counted
  <2>4. PeopleFields(ui') /\ PeopleNet(n) /\ AsksOk(ui', n) /\ CardsOk(ui', n)
    BY <1>1, <2>1, <2>2, <2>3, DraftOk
  <2>5. /\ DOMAIN net' = DOMAIN n /\ net'.asks = n.asks /\ net'.calls = n.calls
        /\ net'.reads = n.reads
    BY <2>3, <2>4 DEF PeopleNet
  <2>6. \A x : Awaiting(net', x) = Awaiting(n, x)
    BY <2>5 DEF Awaiting
  <2>7. PeopleNet(net') /\ AsksOk(ui', net') /\ CardsOk(ui', net')
    BY <2>4, <2>5, <2>6 DEF PeopleNet, AsksOk, CardsOk
  <2>8. QED
    BY <1>1, <2>4, <2>7 DEF PeopleOk
<1>3. CASE People!Discard(r)
  <2>1. /\ ui' = [ui EXCEPT !.cards[r] = People!WithDraft(@, ui.list[r].settings)]
        /\ ui.list[r].settings # ui.cards[r].draft /\ net' = People!Stale(net, {r})
    BY <1>3 DEF People!Discard, People!Dirty
  <2>2. Chosen(ui.list[r].settings)
    BY <1>1 DEF PeopleOk, PeopleFields, Listed
  <2>3. QED
    BY <1>1, <2>1, <2>2, DraftOk DEF PeopleOk
<1>4. QED
  BY <1>2, <1>3

\* A preview is asked of the draft, and its answer is dropped once it is stale.
LEMMA PreviewsOk ==
  ASSUME PeopleOk(srv, ui, net),
         \/ \E r \in Recipients : People!AskPreview(r)
         \/ \E a \in net.asks, ok \in BOOLEAN : People!AnswerPreview(a, ok)
  PROVE  PeopleOk(srv', ui', net')
<1>1. ASSUME NEW r \in Recipients, People!AskPreview(r) PROVE PeopleOk(srv', ui', net')
  <2> DEFINE card == [ui.cards[r] EXCEPT !.timer = FALSE]
             ask == [r |-> r, of |-> ui.cards[r].draft, live |-> TRUE]
  <2>1. /\ r \in DOMAIN ui.cards /\ srv' = srv
        /\ ui' = [ui EXCEPT !.cards = [ui.cards EXCEPT ![r] = card]]
        /\ net' = [net EXCEPT !.asks = net.asks \cup {ask}]
    BY <1>1 DEF People!AskPreview
  <2>2. /\ {"draft", "saving", "timer", "preview"} \subseteq DOMAIN ui.cards[r]
        /\ Chosen(ui.cards[r].draft)
    BY <2>1 DEF PeopleOk, CardsOk, CardOk
  <2>3. DOMAIN card = DOMAIN ui.cards[r] /\ card.draft = ui.cards[r].draft
    BY <2>2
  <2>4. ask.r = r /\ ask.of = ui.cards[r].draft /\ ask.live /\ {"r", "of", "live"} \subseteq DOMAIN ask
    OBVIOUS
  <2> HIDE DEF card, ask
  <2>5. /\ DOMAIN ui' = DOMAIN ui /\ ui'.list = ui.list /\ DOMAIN ui'.cards = DOMAIN ui.cards
        /\ ui'.cards[r] = card /\ \A x \in DOMAIN ui.cards \ {r} : ui'.cards[x] = ui.cards[x]
    <3>1. DOMAIN ui' = DOMAIN ui /\ ui'.list = ui.list /\ ui'.cards = [ui.cards EXCEPT ![r] = card]
      BY <2>1 DEF PeopleOk, PeopleFields
    <3>2. QED
      BY <2>1, <3>1
  <2>6. /\ DOMAIN net' = DOMAIN net /\ net'.asks = net.asks \cup {ask} /\ net'.calls = net.calls
        /\ net'.reads = net.reads
    BY <2>1 DEF PeopleOk, PeopleNet
  <2>7. PeopleFields(ui') /\ PeopleNet(net')
    BY <2>5, <2>6 DEF PeopleOk, PeopleFields, PeopleNet
  <2>8. AsksOk(ui', net')
    BY <2>1, <2>3, <2>4, <2>5, <2>6 DEF PeopleOk, AsksOk
  <2>9. ASSUME NEW x \in DOMAIN ui'.cards PROVE CardOk(ui'.cards[x], Awaiting(net', x))
    <3>1. CASE x = r
      <4>1. Awaiting(net', r)
        BY <2>4, <2>6 DEF Awaiting
      <4>2. QED
        BY <2>2, <2>3, <2>5, <3>1, <4>1 DEF CardOk
    <3>2. CASE x # r
      <4>1. Awaiting(net, x) => Awaiting(net', x)
        BY <2>6 DEF Awaiting
      <4>2. CardOk(ui.cards[x], Awaiting(net, x)) /\ ui'.cards[x] = ui.cards[x]
        BY <2>5, <2>9, <3>2 DEF PeopleOk, CardsOk
      <4>3. QED
        BY <4>1, <4>2 DEF CardOk
    <3>3. QED
      BY <3>1, <3>2
  <2>10. QED
    BY <2>1, <2>7, <2>8, <2>9 DEF PeopleOk, CardsOk
<1>2. ASSUME NEW a \in net.asks, NEW ok \in BOOLEAN, People!AnswerPreview(a, ok)
      PROVE  PeopleOk(srv', ui', net')
  <2>1. srv' = srv /\ net' = [net EXCEPT !.asks = net.asks \ {a}]
    BY <1>2 DEF People!AnswerPreview
  <2>2. /\ DOMAIN net' = DOMAIN net /\ net'.asks = net.asks \ {a} /\ net'.calls = net.calls
        /\ net'.reads = net.reads
    BY <2>1 DEF PeopleOk, PeopleNet
  <2>3. PeopleNet(net')
    BY <2>2 DEF PeopleOk, PeopleNet
  <2>4. \A r : Awaiting(net, r) /\ ~(a.live /\ a.r = r) => Awaiting(net', r)
    BY <2>2 DEF Awaiting
  <2>5. CASE ~a.live
    <3>1. ui' = ui
      BY <1>2, <2>5 DEF People!AnswerPreview
    <3>2. CardsOk(ui', net') /\ AsksOk(ui', net')
      BY <2>2, <2>4, <2>5, <3>1 DEF PeopleOk, CardsOk, CardOk, AsksOk
    <3>3. QED
      BY <2>1, <2>3, <3>1, <3>2 DEF PeopleOk
  <2>6. CASE a.live
    <3> DEFINE p == IF ok THEN a.of ELSE Nothing
               r == a.r
               card == [ui.cards[r] EXCEPT !.preview = p]
    <3>1. ui' = [ui EXCEPT !.cards = [ui.cards EXCEPT ![r] = card]]
      BY <1>2, <2>6 DEF People!AnswerPreview
    <3>2. r \in DOMAIN ui.cards /\ p \in {Nothing, ui.cards[r].draft}
      BY <2>6 DEF PeopleOk, AsksOk
    <3>3. /\ {"draft", "saving", "timer", "preview"} \subseteq DOMAIN ui.cards[r]
          /\ Chosen(ui.cards[r].draft)
      BY <3>2 DEF PeopleOk, CardsOk, CardOk
    <3>4. /\ DOMAIN card = DOMAIN ui.cards[r] /\ card.draft = ui.cards[r].draft /\ card.preview = p
      BY <3>3
    <3> HIDE DEF card, p
    <3>5. /\ DOMAIN ui' = DOMAIN ui /\ ui'.list = ui.list /\ DOMAIN ui'.cards = DOMAIN ui.cards
          /\ ui'.cards[r] = card /\ \A x \in DOMAIN ui.cards \ {r} : ui'.cards[x] = ui.cards[x]
      <4>1. DOMAIN ui' = DOMAIN ui /\ ui'.list = ui.list /\ ui'.cards = [ui.cards EXCEPT ![r] = card]
        BY <3>1 DEF PeopleOk, PeopleFields
      <4>2. QED
        BY <3>2, <4>1
    <3>6. PeopleFields(ui')
      BY <3>5 DEF PeopleOk, PeopleFields
    <3>7. AsksOk(ui', net')
      BY <2>2, <3>4, <3>5 DEF PeopleOk, AsksOk
    <3>8. ASSUME NEW x \in DOMAIN ui'.cards PROVE CardOk(ui'.cards[x], Awaiting(net', x))
      <4>1. CASE x = r
        BY <3>2, <3>3, <3>4, <3>5, <4>1 DEF CardOk
      <4>2. CASE x # r
        BY <2>4, <3>5, <3>8, <4>2 DEF PeopleOk, CardsOk, CardOk
      <4>3. QED
        BY <4>1, <4>2
    <3>9. QED
      BY <2>1, <2>3, <3>6, <3>7, <3>8 DEF PeopleOk, CardsOk
  <2>7. QED
    BY <2>5, <2>6
<1>3. QED
  BY <1>1, <1>2

\* What a click sends is not an answer: the asks and the readings are as they were.
LEMMA SentOk ==
  ASSUME PeopleNet(net), NEW op \in {"pause", "delete", "save", "add", "rename"}, NEW r, NEW draft,
         op = "save" => Chosen(draft), net' = People!Sent(op, r, draft)
  PROVE  PeopleNet(net') /\ net'.asks = net.asks
<1> DEFINE call == [n |-> net.ops, op |-> op, r |-> r, draft |-> draft, mine |-> TRUE, st |-> "sent"]
<1>1. PICK n : n = [net EXCEPT !.ops = @ + 1] /\ net' = [n EXCEPT !.calls = n.calls \cup {call}]
  BY DEF People!Sent, People!Counted
<1>2. {"op", "r", "draft", "mine", "st"} \subseteq DOMAIN call /\ call.op = op /\ call.draft = draft
  OBVIOUS
<1> HIDE DEF call
<1>3. /\ DOMAIN n = DOMAIN net /\ n.calls = net.calls /\ n.asks = net.asks /\ n.reads = net.reads
  BY <1>1 DEF PeopleNet
<1>4. /\ DOMAIN net' = DOMAIN net /\ net'.calls = net.calls \cup {call} /\ net'.asks = net.asks
      /\ net'.reads = net.reads
  BY <1>1, <1>3 DEF PeopleNet
<1>5. QED
  BY <1>2, <1>4 DEF PeopleNet

\* Counting a click changes nothing that is on its way.
LEMMA CountedOk ==
  ASSUME NEW n, NEW m, PeopleNet(n), m = People!Counted(n)
  PROVE  PeopleNet(m) /\ m.asks = n.asks
<1>1. /\ DOMAIN m = DOMAIN n /\ m.calls = n.calls /\ m.asks = n.asks /\ m.reads = n.reads
  BY DEF People!Counted, PeopleNet
<1>2. QED
  BY <1>1 DEF PeopleNet

\* One field of the page changes, and none of a card's but its saving mark.
LEMMA CallsSentOk ==
  ASSUME PeopleOk(srv, ui, net),
         \/ \E r \in Recipients : People!SaveCard(r) \/ People!Pause(r) \/ People!Delete(r)
         \/ People!SubmitRail
  PROVE  PeopleOk(srv', ui', net')
<1>1. ASSUME NEW r, People!SaveCard(r) PROVE PeopleOk(srv', ui', net')
  <2> DEFINE card == [ui.cards[r] EXCEPT !.saving = TRUE]
  <2>1. /\ r \in DOMAIN ui.cards /\ srv' = srv
        /\ ui' = [ui EXCEPT !.cards = [ui.cards EXCEPT ![r] = card]]
        /\ net' = People!Sent("save", r, ui.cards[r].draft)
    BY <1>1 DEF People!SaveCard
  <2>2. /\ {"draft", "saving", "timer", "preview"} \subseteq DOMAIN ui.cards[r]
        /\ Chosen(ui.cards[r].draft)
    BY <2>1 DEF PeopleOk, CardsOk, CardOk
  <2>3. /\ DOMAIN card = DOMAIN ui.cards[r] /\ card.draft = ui.cards[r].draft
        /\ card.timer = ui.cards[r].timer /\ card.preview = ui.cards[r].preview
    BY <2>2
  <2> HIDE DEF card
  <2>4. /\ DOMAIN ui' = DOMAIN ui /\ ui'.list = ui.list /\ DOMAIN ui'.cards = DOMAIN ui.cards
        /\ ui'.cards[r] = card /\ \A x \in DOMAIN ui.cards \ {r} : ui'.cards[x] = ui.cards[x]
    <3>1. DOMAIN ui' = DOMAIN ui /\ ui'.list = ui.list /\ ui'.cards = [ui.cards EXCEPT ![r] = card]
      BY <2>1 DEF PeopleOk, PeopleFields
    <3>2. QED
      BY <2>1, <3>1
  <2>5. PeopleNet(net') /\ net'.asks = net.asks
    BY <2>1, <2>2, SentOk DEF PeopleOk
  <2>6. \A x \in DOMAIN ui.cards :
           /\ DOMAIN ui'.cards[x] = DOMAIN ui.cards[x] /\ ui'.cards[x].draft = ui.cards[x].draft
           /\ ui'.cards[x].timer = ui.cards[x].timer /\ ui'.cards[x].preview = ui.cards[x].preview
    BY <2>3, <2>4
  <2>7. PeopleFields(ui') /\ AsksOk(ui', net') /\ CardsOk(ui', net')
    BY <2>4, <2>5, <2>6, CardsKept DEF PeopleOk
  <2>8. QED
    BY <2>1, <2>5, <2>7 DEF PeopleOk
<1>2. ASSUME srv' = srv, NEW op \in {"pause", "delete", "add", "rename"}, NEW x,
             net' = People!Sent(op, x, Nothing), DOMAIN ui' = DOMAIN ui, ui'.list = ui.list, ui'.cards = ui.cards
      PROVE  PeopleOk(srv', ui', net')
  <2>1. PeopleNet(net') /\ net'.asks = net.asks
    BY <1>2, SentOk DEF PeopleOk
  <2>2. PeopleFields(ui') /\ AsksOk(ui', net') /\ CardsOk(ui', net')
    BY <1>2, <2>1, CardsKept DEF PeopleOk
  <2>3. QED
    BY <1>2, <2>1, <2>2 DEF PeopleOk
<1>3. ASSUME NEW r, People!Pause(r) PROVE PeopleOk(srv', ui', net')
  <2>1. DOMAIN ui' = DOMAIN ui /\ ui'.list = ui.list /\ ui'.cards = ui.cards
    BY <1>3 DEF People!Pause, PeopleOk, PeopleFields
  <2>2. QED
    BY <1>2, <1>3, <2>1 DEF People!Pause
<1>4. ASSUME NEW r, People!Delete(r) PROVE PeopleOk(srv', ui', net')
  <2>1. DOMAIN ui' = DOMAIN ui /\ ui'.list = ui.list /\ ui'.cards = ui.cards
    BY <1>4 DEF People!Delete, PeopleOk, PeopleFields
  <2>2. QED
    BY <1>2, <1>4, <2>1 DEF People!Delete
<1>5. CASE People!SubmitRail
  <2>1. DOMAIN ui' = DOMAIN ui /\ ui'.list = ui.list /\ ui'.cards = ui.cards
    BY <1>5 DEF People!SubmitRail, PeopleOk, PeopleFields
  <2>2. srv' = srv /\ \E op \in {"rename", "add"} : \E x : net' = People!Sent(op, x, Nothing)
    BY <1>5 DEF People!SubmitRail
  <2>3. QED
    BY <1>2, <2>1, <2>2
<1>6. QED
  BY <1>1, <1>3, <1>4, <1>5

\* The form in the rail is beside the cards.
LEMMA RailOk ==
  ASSUME PeopleOk(srv, ui, net),
         \/ \E of \in Recipients \cup {Nothing} : People!OpenRail(of)
         \/ People!CancelRail \/ People!ChooseInRail
  PROVE  PeopleOk(srv', ui', net')
<1>1. PeopleNet(People!RailGone(net)) /\ People!RailGone(net).asks = net.asks
  BY OrphanedCalls DEF People!RailGone, PeopleOk
<1>2. PeopleNet(net') /\ net'.asks = net.asks
  <2>1. CASE net' = People!Counted(People!RailGone(net))
    BY <1>1, <2>1, CountedOk
  <2>2. CASE net' = People!RailGone(net)
    BY <1>1, <2>2
  <2>3. CASE net' = People!Counted(net)
    BY <2>3, CountedOk DEF PeopleOk
  <2>4. QED
    BY <2>1, <2>2, <2>3 DEF People!OpenRail, People!CancelRail, People!ChooseInRail
<1>3. \E rail : ui' = [ui EXCEPT !.rail = rail]
  BY DEF People!OpenRail, People!CancelRail, People!ChooseInRail
<1>4. DOMAIN ui' = DOMAIN ui /\ ui'.list = ui.list /\ ui'.cards = ui.cards
  BY <1>3 DEF PeopleOk, PeopleFields
<1>5. PeopleFields(ui') /\ AsksOk(ui', net') /\ CardsOk(ui', net')
  BY <1>2, <1>4, CardsKept DEF PeopleOk
<1>6. srv' = srv
  BY DEF People!OpenRail, People!CancelRail, People!ChooseInRail
<1>7. QED
  BY <1>2, <1>5, <1>6 DEF PeopleOk

\* A list that arrives keeps the drafts whose settings did not change, with their previews.
LEMMA ShowReadOk ==
  ASSUME PeopleOk(srv, ui, net), NEW r \in net.reads, People!ShowRead(r)
  PROVE  PeopleOk(srv', ui', net')
<1> DEFINE cards == [p \in DOMAIN r.list |-> People!Followed(r.list, p)]
           gone == DOMAIN ui.cards \ DOMAIN cards
           moved == {p \in DOMAIN cards \cap DOMAIN ui.cards : cards[p].draft # ui.cards[p].draft}
           m1 == People!Stale(net, gone)
           m2 == People!Orphaned(m1, {"save"}, gone)
           m3 == People!Stale(m2, moved)
<1>1. /\ srv' = srv
      /\ ui' = [ui EXCEPT !.list = r.list, !.cards = cards, !.loading = FALSE, !.error = FALSE]
      /\ net' = [m3 EXCEPT !.reads = m3.reads \ {r}, !.late = ~r.last]
  BY DEF People!ShowRead, People!Unmounted
<1>2. Listed(r.list)
  BY DEF PeopleOk, PeopleNet
<1>3. ASSUME NEW p \in DOMAIN r.list
      PROVE  \/ /\ p \in DOMAIN ui.cards /\ cards[p] = ui.cards[p]
                /\ cards[p].draft = ui.cards[p].draft
             \/ /\ {"draft", "saving", "timer", "preview"} \subseteq DOMAIN cards[p]
                /\ Chosen(cards[p].draft)
                /\ cards[p].timer = People!Previewable(cards[p].draft)
                /\ p \in DOMAIN ui.cards => cards[p].draft # ui.cards[p].draft
  <2> DEFINE d == r.list[p].settings
  <2>1. cards[p] = People!Followed(r.list, p) /\ Chosen(d)
    BY <1>2 DEF Listed
  <2> HIDE DEF cards
  <2>2. CASE p \notin DOMAIN ui.cards
    <3>1. cards[p] = [draft |-> d, saving |-> FALSE, timer |-> People!Previewable(d),
                      preview |-> Nothing]
      BY <2>1, <2>2 DEF People!Followed, People!FreshCard
    <3>2. QED
      BY <2>1, <2>2, <3>1
  <2>3. CASE p \in DOMAIN ui.cards /\ (ui.list[p].settings = d \/ ui.cards[p].draft = d)
    BY <2>1, <2>3 DEF People!Followed, People!WithDraft
  <2>4. CASE p \in DOMAIN ui.cards /\ ui.list[p].settings # d /\ ui.cards[p].draft # d
    <3>1. cards[p] = [ui.cards[p] EXCEPT !.draft = d, !.timer = People!Previewable(d)]
      BY <2>1, <2>4 DEF People!Followed, People!WithDraft
    <3>2. {"draft", "saving", "timer", "preview"} \subseteq DOMAIN ui.cards[p]
      BY <2>4 DEF PeopleOk, CardsOk, CardOk
    <3>3. DOMAIN cards[p] = DOMAIN ui.cards[p] /\ cards[p].draft = d
          /\ cards[p].timer = People!Previewable(d)
      BY <3>1, <3>2
    <3>4. QED
      BY <2>1, <2>4, <3>2, <3>3
  <2>5. QED
    BY <2>2, <2>3, <2>4
<1>4. DOMAIN cards = DOMAIN r.list
  OBVIOUS
<1>5. moved = {p \in DOMAIN r.list \cap DOMAIN ui.cards : cards[p].draft # ui.cards[p].draft}
  BY <1>4
<1> HIDE DEF cards, gone, moved, m1, m2, m3
<1>6. /\ PeopleNet(m1) /\ Staled(net, m1, gone)
      /\ \A a \in m1.asks : {"r", "of", "live"} \subseteq DOMAIN a
  BY StaleAsks DEF m1, PeopleOk, AsksOk
<1>7. PeopleNet(m2) /\ m2.asks = m1.asks
  BY <1>6, OrphanedCalls DEF m2
<1>8. PeopleNet(m3) /\ Staled(m2, m3, moved)
  BY <1>6, <1>7, StaleAsks DEF m3
<1>9. Staled(net, m3, gone \cup moved)
  BY <1>6, <1>7, <1>8 DEF Staled
<1>10. DOMAIN net' = DOMAIN m3 /\ net'.asks = m3.asks /\ net'.calls = m3.calls
       /\ net'.reads = m3.reads \ {r}
  BY <1>1, <1>8 DEF PeopleNet
<1>11. PeopleNet(net') /\ Staled(net, net', gone \cup moved)
  BY <1>8, <1>9, <1>10 DEF PeopleNet, Staled
<1>12. DOMAIN ui' = DOMAIN ui /\ ui'.list = r.list /\ ui'.cards = cards
  BY <1>1 DEF PeopleOk, PeopleFields
<1>13. PeopleFields(ui')
  BY <1>2, <1>4, <1>12 DEF PeopleOk, PeopleFields
<1>14. \A p \in DOMAIN ui'.cards :
           \/ p \in DOMAIN ui.cards /\ ui'.cards[p] = ui.cards[p]
           \/ /\ p \in DOMAIN ui.cards => p \in gone \cup moved
              /\ {"draft", "saving", "timer", "preview"} \subseteq DOMAIN ui'.cards[p]
              /\ Chosen(ui'.cards[p].draft)
              /\ ui'.cards[p].timer = People!Previewable(ui'.cards[p].draft)
  BY <1>3, <1>4, <1>5, <1>12
<1>15. \A p \in (gone \cup moved) \cap DOMAIN ui'.cards :
           ui'.cards[p].timer = People!Previewable(ui'.cards[p].draft)
  BY <1>3, <1>4, <1>5, <1>12 DEF gone
<1>16. DOMAIN ui.cards \ DOMAIN ui'.cards \subseteq gone \cup moved
  BY <1>12 DEF gone
<1>17. AsksOk(ui', net') /\ CardsOk(ui', net')
  BY <1>11, <1>14, <1>15, <1>16, RedrawnOk DEF PeopleOk
<1>18. QED
  BY <1>1, <1>11, <1>13, <1>17 DEF PeopleOk

\* An error takes the place of the cards, and drops what they asked.
LEMMA FailedOk ==
  ASSUME PeopleOk(srv, ui, net), NEW u, NEW n, NEW m, srv' = srv,
         DOMAIN u = DOMAIN ui, u.list = ui.list, PeopleNet(n), n.asks = net.asks,
         m = People!Unmounted(n, Recipients), DOMAIN net' = DOMAIN m, net'.asks = m.asks,
         net'.calls = m.calls, net'.reads \subseteq m.reads,
         \/ ui' = People!Failed(u) \/ ui' = [People!Failed(u) EXCEPT !.loading = FALSE]
  PROVE  PeopleOk(srv', ui', net')
<1>1. DOMAIN People!Failed(u) = DOMAIN ui /\ People!Failed(u).list = ui.list
      /\ People!Failed(u).cards = <<>>
  BY DEF PeopleOk, PeopleFields, People!Failed
<1>2. DOMAIN ui' = DOMAIN ui /\ ui'.list = ui.list /\ ui'.cards = <<>>
  BY <1>1 DEF PeopleOk, PeopleFields
<1>3. PeopleFields(ui') /\ CardsOk(ui', net')
  BY <1>2 DEF PeopleOk, PeopleFields, CardsOk
<1> DEFINE k == People!Stale(n, Recipients)
<1>4. \A a \in n.asks : {"r", "of", "live"} \subseteq DOMAIN a /\ a.r \in Recipients
  BY DEF PeopleOk, AsksOk
<1>5. /\ PeopleNet(k) /\ Staled(n, k, Recipients)
      /\ \A a \in k.asks : {"r", "of", "live"} \subseteq DOMAIN a
  BY <1>4, StaleAsks
<1> HIDE DEF k
<1>6. PeopleNet(m) /\ m.asks = k.asks
  BY <1>5, OrphanedCalls DEF k, People!Unmounted
<1>7. \A a \in m.asks : {"r", "of", "live"} \subseteq DOMAIN a /\ a.r \in Recipients /\ ~a.live
  BY <1>4, <1>5, <1>6 DEF Staled
<1>8. AsksOk(ui', net')
  BY <1>7 DEF AsksOk
<1>9. PeopleNet(net')
  BY <1>6 DEF PeopleNet
<1>10. QED
  BY <1>3, <1>8, <1>9 DEF PeopleOk

\* A reading is answered with what the api holds, or fails and empties the cards.
LEMMA ReadsOk ==
  ASSUME PeopleOk(srv, ui, net), NEW r \in net.reads, People!AnswerRead(r) \/ People!FailRead(r)
  PROVE  PeopleOk(srv', ui', net')
<1>1. CASE People!AnswerRead(r)
  <2> DEFINE read == [r EXCEPT !.answered = TRUE, !.list = srv.people]
  <2>1. /\ srv' = srv /\ ui' = ui /\ net' = [net EXCEPT !.reads = (net.reads \ {r}) \cup {read}]
    BY <1>1 DEF People!AnswerRead
  <2>2. {"last", "answered", "list"} \subseteq DOMAIN read /\ read.list = srv.people
    BY DEF PeopleOk, PeopleNet
  <2> HIDE DEF read
  <2>3. /\ DOMAIN net' = DOMAIN net /\ net'.asks = net.asks /\ net'.calls = net.calls
        /\ net'.reads = (net.reads \ {r}) \cup {read}
    BY <2>1 DEF PeopleOk, PeopleNet
  <2>4. PeopleNet(net')
    BY <2>2, <2>3 DEF PeopleOk, PeopleNet
  <2>5. QED
    BY <2>1, <2>3, <2>4, CardsKept DEF PeopleOk
<1>2. CASE People!FailRead(r)
  <2>1. PICK m : m = People!Unmounted(net, Recipients) /\ net' = [m EXCEPT !.reads = @ \ {r}]
    BY <1>2 DEF People!FailRead
  <2>2. PeopleNet(m)
    BY <2>1, StaleAsks, OrphanedCalls DEF People!Unmounted, PeopleOk, AsksOk
  <2>3. /\ DOMAIN net' = DOMAIN m /\ net'.asks = m.asks /\ net'.calls = m.calls
        /\ net'.reads \subseteq m.reads
    BY <2>1, <2>2 DEF PeopleNet
  <2>4. srv' = srv /\ ui' = [People!Failed(ui) EXCEPT !.loading = FALSE]
    BY <1>2 DEF People!FailRead
  <2>5. QED
    BY <2>1, <2>3, <2>4, FailedOk DEF PeopleOk
<1>3. QED
  BY <1>1, <1>2

\* The call of an answer is gone, and its mark with it.
LEMMA GoneOk ==
  ASSUME PeopleNet(net), NEW c, NEW n, n = People!Gone(c)
  PROVE  PeopleNet(n) /\ n.asks = net.asks
<1>1. n = [net EXCEPT !.calls = net.calls \ {c}]
  BY DEF People!Gone
<1>2. DOMAIN n = DOMAIN net /\ n.calls = net.calls \ {c} /\ n.asks = net.asks /\ n.reads = net.reads
  BY <1>1 DEF PeopleNet
<1>3. QED
  BY <1>2 DEF PeopleNet

\* A call that ends clears its mark, and no draft or preview.
LEMMA EndedOk ==
  ASSUME PeopleOk(srv, ui, net), NEW c, NEW u, u = People!Ended(ui, c)
  PROVE  /\ DOMAIN u = DOMAIN ui /\ u.list = ui.list /\ DOMAIN u.cards = DOMAIN ui.cards
         /\ \A r \in DOMAIN ui.cards :
              /\ DOMAIN u.cards[r] = DOMAIN ui.cards[r] /\ u.cards[r].draft = ui.cards[r].draft
              /\ u.cards[r].timer = ui.cards[r].timer /\ u.cards[r].preview = ui.cards[r].preview
<1>1. CASE u = ui
  BY <1>1
<1>2. CASE \/ u = [ui EXCEPT !.pausing = Nothing] \/ u = [ui EXCEPT !.deleting = Nothing]
           \/ u = [ui EXCEPT !.rail.submitting = FALSE]
  <2>1. DOMAIN u = DOMAIN ui /\ u.list = ui.list /\ u.cards = ui.cards
    BY <1>2 DEF PeopleOk, PeopleFields
  <2>2. QED
    BY <2>1
<1>3. CASE u = [ui EXCEPT !.cards[c.r].saving = FALSE]
  <2> DEFINE card == [ui.cards[c.r] EXCEPT !.saving = FALSE]
  <2>1. u = [ui EXCEPT !.cards = [ui.cards EXCEPT ![c.r] = card]]
    BY <1>3
  <2>2. c.r \in DOMAIN ui.cards =>
          /\ DOMAIN card = DOMAIN ui.cards[c.r] /\ card.draft = ui.cards[c.r].draft
          /\ card.timer = ui.cards[c.r].timer /\ card.preview = ui.cards[c.r].preview
    <3>1. SUFFICES ASSUME c.r \in DOMAIN ui.cards
                   PROVE  /\ DOMAIN card = DOMAIN ui.cards[c.r] /\ card.draft = ui.cards[c.r].draft
                          /\ card.timer = ui.cards[c.r].timer
                          /\ card.preview = ui.cards[c.r].preview
      OBVIOUS
    <3>2. {"draft", "saving", "timer", "preview"} \subseteq DOMAIN ui.cards[c.r]
      BY <3>1 DEF PeopleOk, CardsOk, CardOk
    <3>3. QED
      BY <3>2
  <2> HIDE DEF card
  <2>3. /\ DOMAIN u = DOMAIN ui /\ u.list = ui.list /\ DOMAIN u.cards = DOMAIN ui.cards
        /\ c.r \in DOMAIN ui.cards => u.cards[c.r] = card
        /\ \A x \in DOMAIN ui.cards \ {c.r} : u.cards[x] = ui.cards[x]
    BY <2>1 DEF PeopleOk, PeopleFields
  <2>4. QED
    BY <2>2, <2>3
<1>4. QED
  BY <1>1, <1>2, <1>3 DEF People!Ended

\* An answer keeps every draft and preview, a failure of the list drops them all.
LEMMA PeopleAnswered ==
  ASSUME PeopleOk(srv, ui, net), NEW c \in net.calls, People!Answer(c) \/ People!AnswerFailure(c)
  PROVE  PeopleOk(srv', ui', net')
<1>1. srv' = srv
  BY DEF People!Answer, People!AnswerFailure
<1> DEFINE n == People!Gone(c)
           u == People!Ended(ui, c)
<1>2. PeopleNet(n) /\ n.asks = net.asks
  BY GoneOk DEF PeopleOk
<1>3. /\ DOMAIN u = DOMAIN ui /\ u.list = ui.list /\ DOMAIN u.cards = DOMAIN ui.cards
      /\ \A r \in DOMAIN ui.cards :
           /\ DOMAIN u.cards[r] = DOMAIN ui.cards[r] /\ u.cards[r].draft = ui.cards[r].draft
           /\ u.cards[r].timer = ui.cards[r].timer /\ u.cards[r].preview = ui.cards[r].preview
  BY EndedOk
<1>4. CASE People!AnswerFailure(c) /\ c.op \in {"pause", "delete"}
  <2>1. ui' = People!Failed(u) /\ net' = People!Unmounted(n, Recipients)
    BY <1>4 DEF People!AnswerFailure
  <2> HIDE DEF n, u
  <2>2. QED
    BY <1>1, <1>2, <1>3, <2>1, FailedOk
<1>5. CASE People!AnswerFailure(c) /\ c.op \notin {"pause", "delete"}
  <2>1. ui' = u /\ net' = n
    BY <1>5 DEF People!AnswerFailure
  <2> HIDE DEF n, u
  <2>2. PeopleFields(ui') /\ AsksOk(ui', net') /\ CardsOk(ui', net')
    BY <1>2, <1>3, <2>1, CardsKept DEF PeopleOk
  <2>3. QED
    BY <1>1, <1>2, <2>1, <2>2 DEF PeopleOk
<1>6. CASE People!Answer(c)
  <2>1. PeopleNet(net') /\ net'.asks = net.asks
    <3>1. net' = People!Reloaded(n) \/ net' = People!Reloaded(People!RailGone(n))
      BY <1>6 DEF People!Answer
    <3> HIDE DEF n
    <3>2. PeopleNet(People!RailGone(n)) /\ People!RailGone(n).asks = n.asks
      BY <1>2, OrphanedCalls DEF People!RailGone
    <3>3. CASE net' = People!Reloaded(n)
      BY <1>2, <3>3, ReloadedReads
    <3>4. CASE net' = People!Reloaded(People!RailGone(n))
      BY <1>2, <3>2, <3>4, ReloadedReads
    <3>5. QED
      BY <3>1, <3>3, <3>4
  <2>2. ui' = u \/ ui' = [ui EXCEPT !.rail = People!NoRail]
    BY <1>6 DEF People!Answer
  <2> HIDE DEF u
  <2>3. CASE ui' = u
    BY <1>3, <2>1, <2>3, <1>1, CardsKept DEF PeopleOk
  <2>4. CASE ui' = [ui EXCEPT !.rail = People!NoRail]
    <3>1. DOMAIN ui' = DOMAIN ui /\ ui'.list = ui.list /\ ui'.cards = ui.cards
      BY <2>4 DEF PeopleOk, PeopleFields
    <3>2. PeopleFields(ui') /\ AsksOk(ui', net') /\ CardsOk(ui', net')
      BY <2>1, <3>1, CardsKept DEF PeopleOk
    <3>3. QED
      BY <1>1, <2>1, <3>2 DEF PeopleOk
  <2>5. QED
    BY <2>2, <2>3, <2>4
<1>7. QED
  BY <1>4, <1>5, <1>6 DEF People!AnswerFailure

\* What the api writes are settings of someone again.
LEMMA ServedOk ==
  ASSUME PeopleOk(srv, ui, net), NEW c \in net.calls, People!Serve(c) \/ People!Refuse(c)
  PROVE  PeopleOk(srv', ui', net')
<1>1. ui' = ui /\ (net' = People!With(c, "ok") \/ net' = People!With(c, "error"))
  BY DEF People!Serve, People!Refuse
<1>2. PeopleNet(net') /\ net'.asks = net.asks
  <2>1. PICK st : net' = People!With(c, st)
    BY <1>1
  <2> DEFINE call == [c EXCEPT !.st = st]
  <2>2. net' = [net EXCEPT !.calls = (net.calls \ {c}) \cup {call}]
    BY <2>1 DEF People!With
  <2>3. {"op", "r", "draft", "mine", "st"} \subseteq DOMAIN c
    BY DEF PeopleOk, PeopleNet
  <2>4. DOMAIN call = DOMAIN c /\ call.op = c.op /\ call.draft = c.draft
    BY <2>3
  <2> HIDE DEF call
  <2>5. /\ DOMAIN net' = DOMAIN net /\ net'.calls = (net.calls \ {c}) \cup {call}
        /\ net'.asks = net.asks /\ net'.reads = net.reads
    BY <2>2 DEF PeopleOk, PeopleNet
  <2>6. QED
    BY <2>4, <2>5 DEF PeopleOk, PeopleNet
<1>3. /\ PeopleFields(ui') /\ AsksOk(ui', net') /\ CardsOk(ui', net')
  BY <1>1, <1>2, CardsKept DEF PeopleOk
<1>4. {"rules", "people"} \subseteq DOMAIN srv' /\ Listed(srv'.people)
  <2>1. CASE srv' = srv
    BY <2>1 DEF PeopleOk
  <2>2. CASE People!Serve(c)
    <3>1. PICK people \in People!Served(c) : srv' = [srv EXCEPT !.people = people]
      BY <2>2 DEF People!Serve
    <3>2. Listed(people)
      <4>1. CASE c.op = "pause"
        <5> DEFINE p == [srv.people[c.r] EXCEPT !.active = FALSE]
        <5>1. people = [srv.people EXCEPT ![c.r] = p]
          BY <3>1, <4>1 DEF People!Served
        <5>2. c.r \in DOMAIN srv.people => {"settings", "active"} \subseteq DOMAIN srv.people[c.r]
          BY DEF PeopleOk, Listed
        <5>3. c.r \in DOMAIN srv.people =>
                DOMAIN p = DOMAIN srv.people[c.r] /\ p.settings = srv.people[c.r].settings
          BY <5>2
        <5> HIDE DEF p
        <5>4. /\ DOMAIN people = DOMAIN srv.people
              /\ c.r \in DOMAIN srv.people => people[c.r] = p
              /\ \A x \in DOMAIN srv.people \ {c.r} : people[x] = srv.people[x]
          BY <5>1
        <5>5. QED
          BY <5>3, <5>4 DEF PeopleOk, Listed
      <4>2. CASE c.op = "save"
        <5> DEFINE p == [srv.people[c.r] EXCEPT !.settings = c.draft]
        <5>1. people = [srv.people EXCEPT ![c.r] = p]
          BY <3>1, <4>2 DEF People!Served
        <5>2. c.r \in DOMAIN srv.people => {"settings", "active"} \subseteq DOMAIN srv.people[c.r]
          BY DEF PeopleOk, Listed
        <5>3. c.r \in DOMAIN srv.people => DOMAIN p = DOMAIN srv.people[c.r] /\ p.settings = c.draft
          BY <5>2
        <5>4. Chosen(c.draft)
          BY <4>2 DEF PeopleOk, PeopleNet
        <5> HIDE DEF p
        <5>5. /\ DOMAIN people = DOMAIN srv.people
              /\ c.r \in DOMAIN srv.people => people[c.r] = p
              /\ \A x \in DOMAIN srv.people \ {c.r} : people[x] = srv.people[x]
          BY <5>1
        <5>6. QED
          BY <5>3, <5>4, <5>5 DEF PeopleOk, Listed
      <4>3. CASE c.op = "delete"
        <5>1. people = [y \in DOMAIN srv.people \ {c.r} |-> srv.people[y]]
          BY <3>1, <4>3 DEF People!Served, People!Without
        <5>2. QED
          BY <5>1 DEF PeopleOk, Listed
      <4>4. CASE c.op = "rename"
        BY <3>1, <4>4 DEF People!Served, PeopleOk
      <4>5. CASE c.op = "add"
        <5> DEFINE p == [settings |-> People!NewSettings, active |-> TRUE]
        <5>1. PICK new : people = [r \in DOMAIN srv.people \cup {new} |->
                                     IF r = new THEN p ELSE srv.people[r]]
          BY <3>1, <4>5 DEF People!Served
        <5>2. {"settings", "active"} \subseteq DOMAIN p /\ Chosen(p.settings)
          BY DEF People!NewSettings, Chosen
        <5> HIDE DEF p
        <5>3. QED
          BY <5>1, <5>2 DEF PeopleOk, Listed
      <4>6. QED
        BY <4>1, <4>2, <4>3, <4>4, <4>5 DEF PeopleOk, PeopleNet
    <3>3. DOMAIN srv' = DOMAIN srv /\ srv'.people = people
      BY <3>1 DEF PeopleOk
    <3>4. QED
      BY <3>2, <3>3 DEF PeopleOk
  <2>3. QED
    BY <2>1, <2>2 DEF People!Serve, People!Refuse
<1>5. QED
  BY <1>2, <1>3, <1>4 DEF PeopleOk

\* Every step of the recipients keeps what is awaited of the draft shown.
LEMMA NextPeople ==
  ASSUME PeopleOk(srv, ui, net), [People!Next]_<<srv, ui, net>>
  PROVE  PeopleOk(srv', ui', net')
<1>1. CASE UNCHANGED <<srv, ui, net>>
  BY <1>1
<1>2. ASSUME NEW rule \in SomeRules, People!RuleDeleted(rule) PROVE PeopleOk(srv', ui', net')
  <2> DEFINE p(r) == [srv.people[r] EXCEPT !.settings.ids = @ \ {rule}]
             d(r) == [srv.people[r].settings EXCEPT !.ids = @ \ {rule}]
  <2>1. ui' = ui /\ net' = People!Counted(net)
    BY <1>2 DEF People!RuleDeleted
  <2>2. PeopleNet(net') /\ net'.asks = net.asks
    BY <2>1, CountedOk DEF PeopleOk
  <2>3. PeopleFields(ui') /\ AsksOk(ui', net') /\ CardsOk(ui', net')
    BY <2>1, <2>2, CardsKept DEF PeopleOk
  <2>4. srv' = [rules |-> srv.rules \ {rule}, people |-> [r \in DOMAIN srv.people |-> p(r)]]
    BY <1>2 DEF People!RuleDeleted
  <2>5. ASSUME NEW r \in DOMAIN srv.people
        PROVE  {"settings", "active"} \subseteq DOMAIN p(r) /\ Chosen(p(r).settings)
    <3>1. {"settings", "active"} \subseteq DOMAIN srv.people[r] /\ Chosen(srv.people[r].settings)
      BY DEF PeopleOk, Listed
    <3>2. DOMAIN p(r) = DOMAIN srv.people[r] /\ p(r).settings = d(r)
      BY <3>1
    <3>3. Chosen(d(r))
      BY <3>1 DEF Chosen
    <3>4. QED
      BY <3>1, <3>2, <3>3
  <2> HIDE DEF p
  <2>6. {"rules", "people"} \subseteq DOMAIN srv' /\ Listed(srv'.people)
    BY <2>4, <2>5 DEF Listed
  <2>7. QED
    BY <2>2, <2>3, <2>6 DEF PeopleOk
<1>3. CASE \E r \in Recipients : People!EditCard(r) \/ People!Discard(r)
  BY <1>3, DraftsOk
<1>4. CASE \/ \E r \in Recipients : People!AskPreview(r)
           \/ \E a \in net.asks, ok \in BOOLEAN : People!AnswerPreview(a, ok)
  BY <1>4, PreviewsOk
<1>5. CASE \/ \E r \in Recipients : People!SaveCard(r) \/ People!Pause(r) \/ People!Delete(r)
           \/ People!SubmitRail
  BY <1>5, CallsSentOk
<1>6. CASE \E r \in net.reads : People!AnswerRead(r) \/ People!ShowRead(r) \/ People!FailRead(r)
  BY <1>6, ReadsOk, ShowReadOk
<1>7. CASE \/ \E of \in Recipients \cup {Nothing} : People!OpenRail(of)
           \/ People!CancelRail \/ People!ChooseInRail
  BY <1>7, RailOk
<1>8. CASE \E c \in net.calls : \/ People!Serve(c) \/ People!Refuse(c)
                                \/ People!Answer(c) \/ People!AnswerFailure(c)
  BY <1>8, ServedOk, PeopleAnswered
<1>9. QED
  BY <1>1, <1>2, <1>3, <1>4, <1>5, <1>6, <1>7, <1>8 DEF People!Next

\* Hence a preview is of the draft its card shows (PreviewIsOfDraft).
LEMMA PeopleShow == ASSUME PeopleOk(srv, ui, net) PROVE People!PreviewIsOfDraft
BY DEF PeopleOk, CardsOk, CardOk, Awaiting, People!PreviewIsOfDraft

-----------------------------------------------------------------------------
(* The search of a purchase's link: a search that is not cancelled is of the text. *)

Searching(n) == {s \in n.searches : s.live}
LinksOk(u, n) ==
  /\ {"query", "options", "searching", "timer", "linked"} \subseteq DOMAIN u
  /\ {"searches", "ops"} \subseteq DOMAIN n
  /\ \A s \in n.searches : {"of", "live"} \subseteq DOMAIN s
  /\ \A s \in n.searches : s.live => s.of = u.query /\ u.query # Short
  /\ u.timer => u.query # Short
  /\ ~u.timer /\ Searching(n) = {} => u.options \in {Nothing, u.query}
  /\ u.query = Short => u.options = Nothing

\* The search begins with nothing typed.
LEMMA LinksInit == ASSUME Links!Init PROVE LinksOk(ui, net)
BY DEF Links!Init, LinksOk

\* What is cancelled stays the search it was, and is answered to nobody.
LEMMA CancelledLinks ==
  ASSUME LinksOk(ui, net), NEW n, n = Links!Cancelled(net)
  PROVE  /\ {"searches", "ops"} \subseteq DOMAIN n
         /\ \A s \in n.searches : {"of", "live"} \subseteq DOMAIN s /\ s.live = FALSE
<1>1. n = [net EXCEPT !.searches = {[s EXCEPT !.live = FALSE] : s \in net.searches}]
  BY DEF Links!Cancelled
<1>2. DOMAIN n = DOMAIN net /\ n.searches = {[s EXCEPT !.live = FALSE] : s \in net.searches}
  BY <1>1 DEF LinksOk
<1>3. \A s \in net.searches : "live" \in DOMAIN s /\ "of" \in DOMAIN s
  BY DEF LinksOk
<1>4. \A s \in n.searches : {"of", "live"} \subseteq DOMAIN s /\ s.live = FALSE
  BY <1>2, <1>3
<1>5. QED
  BY <1>2, <1>4 DEF LinksOk

\* A text that changes, or the rules that arrive, begin the search over.
LEMMA SearchedOk ==
  ASSUME NEW u, NEW n,
         {"query", "options", "searching", "timer", "linked"} \subseteq DOMAIN u,
         {"searches", "ops"} \subseteq DOMAIN n,
         \A s \in n.searches : {"of", "live"} \subseteq DOMAIN s /\ s.live = FALSE
  PROVE  LinksOk(Links!Searched(u), n)
<1>1. CASE u.query = Short
  BY <1>1 DEF Links!Searched, LinksOk
<1>2. CASE u.query # Short
  BY <1>2 DEF Links!Searched, LinksOk
<1>3. QED
  BY <1>1, <1>2

\* Every step of the search keeps what is awaited the search of the text.
LEMMA NextLinks ==
  ASSUME LinksOk(ui, net), [Links!Next]_<<srv, ui, net>>
  PROVE  LinksOk(ui', net')
<1>1. CASE UNCHANGED <<srv, ui, net>>
  BY <1>1
<1>2. CASE Links!Type
  <2>1. PICK q : ui' = Links!Searched([ui EXCEPT !.query = q])
    BY <1>2 DEF Links!Type
  <2>2. PICK m : m = Links!Cancelled(net) /\ net' = [m EXCEPT !.ops = @ + 1]
    BY <1>2 DEF Links!Type
  <2>3. /\ {"searches", "ops"} \subseteq DOMAIN m
        /\ \A s \in m.searches : {"of", "live"} \subseteq DOMAIN s /\ s.live = FALSE
    BY <2>2, CancelledLinks
  <2>4. net'.searches = m.searches /\ DOMAIN net' = DOMAIN m
    BY <2>2, <2>3
  <2>5. {"query", "options", "searching", "timer", "linked"} \subseteq DOMAIN [ui EXCEPT !.query = q]
    BY DEF LinksOk
  <2>6. QED
    BY <2>1, <2>3, <2>4, <2>5, SearchedOk
<1>3. CASE Links!RulesListed
  <2>1. ui' = Links!Searched(ui) /\ net' = Links!Cancelled(net)
    BY <1>3 DEF Links!RulesListed
  <2>2. QED
    BY <2>1, CancelledLinks, SearchedOk DEF LinksOk
<1>4. CASE Links!Timer
  <2>1. /\ ui' = [ui EXCEPT !.timer = FALSE, !.searching = TRUE] /\ ui.timer
        /\ net' = [net EXCEPT !.searches = @ \cup {[of |-> ui.query, live |-> TRUE]}]
    BY <1>4 DEF Links!Timer
  <2>2. /\ ui'.query = ui.query /\ ui'.options = ui.options /\ ui'.timer = FALSE
        /\ DOMAIN ui' = DOMAIN ui /\ DOMAIN net' = DOMAIN net
        /\ net'.searches = net.searches \cup {[of |-> ui.query, live |-> TRUE]}
    BY <2>1 DEF LinksOk
  <2>3. [of |-> ui.query, live |-> TRUE] \in Searching(net')
    BY <2>2 DEF Searching
  <2>4. QED
    BY <2>1, <2>2, <2>3 DEF LinksOk
<1>5. CASE Links!Pick
  <2>1. /\ ui' = [ui EXCEPT !.linked = TRUE, !.query = Short, !.options = Nothing, !.timer = FALSE]
        /\ net' = IF ui.query = Short THEN net ELSE Links!Cancelled(net)
    BY <1>5 DEF Links!Pick
  <2>2. /\ ui'.query = Short /\ ui'.options = Nothing /\ ui'.timer = FALSE
        /\ DOMAIN ui' = DOMAIN ui
    BY <2>1 DEF LinksOk
  <2>3. /\ {"searches", "ops"} \subseteq DOMAIN net'
        /\ \A s \in net'.searches : {"of", "live"} \subseteq DOMAIN s /\ ~s.live
    BY <2>1, CancelledLinks DEF LinksOk
  <2>4. QED
    BY <2>2, <2>3 DEF LinksOk
<1>6. CASE Links!Unlink
  BY <1>6 DEF Links!Unlink, LinksOk, Searching
<1>7. ASSUME NEW s \in net.searches, NEW ok \in BOOLEAN, Links!AnswerSearch(s, ok)
      PROVE  LinksOk(ui', net')
  <2>1. net' = [net EXCEPT !.searches = @ \ {s}]
    BY <1>7 DEF Links!AnswerSearch
  <2>2. net'.searches = net.searches \ {s} /\ DOMAIN net' = DOMAIN net
    BY <2>1 DEF LinksOk
  <2>3. CASE ~s.live
    <3>1. ui' = ui
      BY <1>7, <2>3 DEF Links!AnswerSearch
    <3>2. Searching(net') = Searching(net)
      BY <2>2, <2>3 DEF Searching
    <3>3. QED
      BY <2>2, <3>1, <3>2 DEF LinksOk
  <2>4. CASE s.live
    <3> DEFINE o == IF ok THEN s.of ELSE Nothing
    <3>1. ui' = [ui EXCEPT !.options = o, !.searching = FALSE]
      BY <1>7, <2>4 DEF Links!AnswerSearch
    <3>2. o \in {Nothing, ui.query} /\ ui.query # Short
      BY <1>7, <2>4 DEF LinksOk
    <3> HIDE DEF o
    <3>3. /\ ui'.query = ui.query /\ ui'.options = o /\ ui'.timer = ui.timer
          /\ DOMAIN ui' = DOMAIN ui
      BY <3>1 DEF LinksOk
    <3>4. QED
      BY <2>2, <3>2, <3>3 DEF LinksOk
  <2>5. QED
    BY <2>3, <2>4
<1>8. QED
  BY <1>1, <1>2, <1>3, <1>4, <1>5, <1>6, <1>7 DEF Links!Next

\* Hence the matches offered are of the text typed (OptionsAreOfQuery).
LEMMA LinksShow == ASSUME LinksOk(ui, net) PROVE Links!OptionsAreOfQuery
BY DEF LinksOk, Links!OptionsAreOfQuery, Links!Live, Searching

-----------------------------------------------------------------------------
(* The notices of the listener: a request that ended is told once, or once more *)
(* when a reading of its end outran the answer to its POST.                     *)

\* Nothing was told of this request or of a later one.
Untold(toasts, q) == \A r \in DOMAIN toasts : r >= q => toasts[r] = 0
\* This request may still be told of: nothing was told of it, or it was outrun and
\* told once.
Room(toasts, outrun, r) == toasts[r] <= IF r \in outrun THEN 1 ELSE 0
IsStatus(d) ==
  {"state", "request", "unapplied"} \subseteq DOMAIN d /\ d.state \in Listener!States /\ d.request \in Nat
Receives(n) == n.poll = "answered"
ListenerOk(s, u, n) ==
  /\ IsStatus(s)
  /\ {"state", "error", "requesting", "unapplied", "toasts"} \subseteq DOMAIN u
  /\ DOMAIN u.toasts = 1..MaxApplies /\ \A r \in DOMAIN u.toasts : u.toasts[r] \in Nat
  /\ {"poll", "pollData", "post", "postData", "polls", "outrun"} \subseteq DOMAIN n
  /\ Receives(n) => IsStatus(n.pollData)
  /\ n.post = "answered" => IsStatus(n.postData) /\ n.postData.state \in Listener!Under
  /\ n.post # "none" => u.requesting = TRUE
\* What was told was over.
ToldIsOver(s, u, n) ==
  \A r \in DOMAIN u.toasts :
    /\ u.toasts[r] <= IF r \in n.outrun THEN 2 ELSE 1
    /\ u.toasts[r] # 0 => r < s.request \/ (r = s.request /\ s.state \in Listener!Over)
\* A reading on its way is of the mailbox as it was: nothing was told of what it
\* shows under way.
PollOk(s, u, n) ==
  Receives(n) =>
    /\ n.pollData.request <= s.request
    /\ n.pollData.request = s.request /\ n.pollData.state \in Listener!Over
         => s.state \in Listener!Over
    /\ n.pollData.state \in Listener!Under => Untold(u.toasts, n.pollData.request)
\* An answer on its way is of the last request: when that was told already, it was
\* outrun, and the page knows of nothing under way until the answer comes.
PostOk(s, u, n) ==
  n.post = "answered" =>
    /\ n.postData.request = s.request
    /\ s.request \in DOMAIN u.toasts => Room(u.toasts, n.outrun, s.request)
    /\ u.state \in Listener!Under => Untold(u.toasts, s.request)
\* What is under way for the page may still be told of, and so may all that came after.
UnderOk(s, u, n) ==
  u.state \in Listener!Under =>
    \E q \in Nat : /\ q <= s.request
                   /\ \A r \in DOMAIN u.toasts : r >= q => Room(u.toasts, n.outrun, r)
                   /\ Receives(n) => q <= n.pollData.request
ListenerInv(s, u, n) ==
  /\ ListenerOk(s, u, n)
  /\ ToldIsOver(s, u, n) /\ PollOk(s, u, n) /\ PostOk(s, u, n) /\ UnderOk(s, u, n)

\* The page begins with nothing told.
LEMMA ListenerInit == ASSUME Listener!Init PROVE ListenerInv(srv, ui, net)
<1>1. ListenerOk(srv, ui, net)
  BY DEF Listener!Init, ListenerOk, IsStatus, Receives, Listener!Over, Listener!States
<1>2. /\ srv.request = 0 /\ ui.toasts = [r \in 1..MaxApplies |-> 0] /\ ui.state = Nothing
      /\ net.poll = "asked" /\ net.post = "none" /\ net.outrun = {}
  BY DEF Listener!Init
<1>3. ToldIsOver(srv, ui, net)
  BY <1>2 DEF ToldIsOver
<1>4. PollOk(srv, ui, net) /\ PostOk(srv, ui, net)
  BY <1>2 DEF PollOk, PostOk, Receives
<1>5. UnderOk(srv, ui, net)
  <2>1. \A r \in DOMAIN ui.toasts : Room(ui.toasts, net.outrun, r)
    BY <1>2 DEF Room
  <2>2. 0 \in Nat /\ 0 <= srv.request /\ ~Receives(net)
    BY <1>2 DEF Receives
  <2>3. QED
    BY <2>1, <2>2 DEF UnderOk
<1>6. QED
  BY <1>1, <1>3, <1>4, <1>5 DEF ListenerInv

\* No state of the mailbox is both under way and over.
LEMMA UnderOrOver ==
  ASSUME NEW d, IsStatus(d)
  PROVE  d.state \in Listener!Under <=> d.state \notin Listener!Over
BY DEF IsStatus, Listener!States, Listener!Under, Listener!Over

\* What accept() leaves: the state of the status, and one more toast at most.
LEMMA Accepted ==
  ASSUME NEW u, NEW d, NEW v, v = Listener!Accept(u, d),
         {"state", "error", "requesting", "unapplied", "toasts"} \subseteq DOMAIN u
  PROVE  /\ DOMAIN v = DOMAIN u /\ v.state = d.state /\ v.requesting = u.requesting
         /\ v.toasts = IF Listener!Settled(u.state, d) /\ d.request # 0
                         THEN [u.toasts EXCEPT ![d.request] = @ + 1] ELSE u.toasts
<1> DEFINE w == [u EXCEPT !.state = d.state, !.unapplied = d.unapplied, !.error = FALSE]
           more(toasts) == IF Listener!Settled(u.state, d) /\ d.request # 0
                             THEN [toasts EXCEPT ![d.request] = @ + 1] ELSE toasts
<1>1. v = [w EXCEPT !.toasts = more(w.toasts)]
  BY DEF Listener!Accept
<1>2. DOMAIN w = DOMAIN u /\ w.state = d.state /\ w.requesting = u.requesting /\ w.toasts = u.toasts
  OBVIOUS
<1> HIDE DEF w, more
<1>3. /\ DOMAIN v = DOMAIN u /\ v.state = d.state /\ v.requesting = u.requesting
      /\ v.toasts = more(u.toasts)
  BY <1>1, <1>2
<1>4. QED
  BY <1>3 DEF more

\* A reading that is shown tells of a request that had room for it, and outruns the
\* answer it tells of before.
LEMMA ShowPollOk ==
  ASSUME ListenerInv(srv, ui, net), Listener!ShowPoll
  PROVE  ListenerInv(srv', ui', net')
<1> DEFINE d == net.pollData
           more == Listener!OutrunBy(d)
<1>1. srv' = srv /\ Receives(net) /\ ui' = Listener!Accept(ui, d)
  BY DEF Listener!ShowPoll, Receives
<1>2. /\ net'.poll = "timer" /\ net'.post = net.post /\ net'.postData = net.postData
      /\ net'.outrun = net.outrun \cup more /\ DOMAIN net' = DOMAIN net
  <2>1. net' = [net EXCEPT !.poll = "timer", !.pollData = Nothing, !.outrun = net.outrun \cup more]
    BY DEF Listener!ShowPoll
  <2> HIDE DEF more
  <2>2. QED
    BY <2>1 DEF ListenerInv, ListenerOk
<1>3. IsStatus(srv) /\ IsStatus(d)
  BY <1>1 DEF ListenerInv, ListenerOk
<1>4. /\ DOMAIN ui' = DOMAIN ui /\ ui'.state = d.state /\ ui'.requesting = ui.requesting
      /\ ui'.toasts = IF Listener!Settled(ui.state, d) /\ d.request # 0
                        THEN [ui.toasts EXCEPT ![d.request] = @ + 1] ELSE ui.toasts
  BY <1>1, Accepted DEF ListenerInv, ListenerOk
<1>5. d.request \in Nat /\ srv.request \in Nat
  BY <1>3 DEF IsStatus
<1>6. /\ DOMAIN ui'.toasts = DOMAIN ui.toasts
      /\ \A r \in DOMAIN ui.toasts :
           ui'.toasts[r] = IF Listener!Settled(ui.state, d) /\ r = d.request
                             THEN ui.toasts[r] + 1 ELSE ui.toasts[r]
  <2> HIDE DEF d
  <2>1. CASE Listener!Settled(ui.state, d) /\ d.request # 0
    BY <1>4, <2>1 DEF ListenerInv, ListenerOk
  <2>2. CASE ~(Listener!Settled(ui.state, d) /\ d.request # 0)
    BY <1>4, <2>2 DEF ListenerInv, ListenerOk
  <2>3. QED
    BY <2>1, <2>2
<1>7. /\ d.request <= srv.request
      /\ d.request = srv.request /\ d.state \in Listener!Over => srv.state \in Listener!Over
      /\ d.state \in Listener!Under => Untold(ui.toasts, d.request)
  BY <1>1 DEF ListenerInv, PollOk
<1>8. \A r \in DOMAIN ui.toasts :
        r \in more <=> /\ r = d.request /\ d.state \in Listener!Over
                       /\ net.post = "answered" /\ r = srv.request
  <2>1. net.post = "answered" => net.postData.request = srv.request
    BY DEF ListenerInv, PostOk
  <2>2. DOMAIN ui.toasts = 1..MaxApplies
    BY DEF ListenerInv, ListenerOk
  <2>3. QED
    BY <2>1, <2>2 DEF Listener!OutrunBy
<1>9. d.state \in Listener!Under <=> d.state \notin Listener!Over
  BY <1>3, UnderOrOver
<1>10. ListenerOk(srv', ui', net')
  <2>1. \A r \in DOMAIN ui'.toasts : ui'.toasts[r] \in Nat
    BY <1>6 DEF ListenerInv, ListenerOk
  <2>2. ~Receives(net')
    BY <1>2 DEF Receives
  <2> HIDE DEF d, more
  <2>3. QED
    BY <1>1, <1>2, <1>4, <1>6, <2>1, <2>2 DEF ListenerInv, ListenerOk
<1> HIDE DEF d, more
<1>11. Listener!Settled(ui.state, d) =>
         /\ d.state \in Listener!Over /\ ui.state \in Listener!Under
         /\ \A r \in DOMAIN ui.toasts : r = d.request => Room(ui.toasts, net.outrun, r)
  <2>1. ASSUME Listener!Settled(ui.state, d)
        PROVE  \A r \in DOMAIN ui.toasts : r = d.request => Room(ui.toasts, net.outrun, r)
    <3>1. PICK q \in Nat : /\ q <= d.request
                           /\ \A r \in DOMAIN ui.toasts : r >= q => Room(ui.toasts, net.outrun, r)
      BY <1>1, <2>1 DEF ListenerInv, UnderOk, Listener!Settled, d
    <3>2. QED
      BY <1>5, <3>1
  <2>2. QED
    BY <2>1 DEF Listener!Settled
<1>12. \A r \in DOMAIN ui.toasts : ui.toasts[r] \in Nat
  BY DEF ListenerInv, ListenerOk
<1>13. ToldIsOver(srv', ui', net')
  <2>1. ASSUME NEW r \in DOMAIN ui.toasts
        PROVE  /\ ui'.toasts[r] <= IF r \in net'.outrun THEN 2 ELSE 1
               /\ ui'.toasts[r] # 0 => r < srv.request \/ (r = srv.request /\ srv.state \in Listener!Over)
    <3>1. /\ ui.toasts[r] <= IF r \in net.outrun THEN 2 ELSE 1
          /\ ui.toasts[r] # 0 => r < srv.request \/ (r = srv.request /\ srv.state \in Listener!Over)
      BY DEF ListenerInv, ToldIsOver
    <3>2. r \in net.outrun => r \in net'.outrun
      BY <1>2
    <3>3. CASE Listener!Settled(ui.state, d) /\ r = d.request
      <4>1. ui.toasts[r] <= IF r \in net.outrun THEN 1 ELSE 0
        BY <1>11, <3>3 DEF Room
      <4>2. ui'.toasts[r] = ui.toasts[r] + 1
        BY <1>6, <3>3
      <4>3. ui'.toasts[r] <= IF r \in net'.outrun THEN 2 ELSE 1
        BY <1>12, <3>2, <4>1, <4>2
      <4>4. r < srv.request \/ (r = srv.request /\ srv.state \in Listener!Over)
        BY <1>5, <1>7, <1>11, <3>3
      <4>5. QED
        BY <4>3, <4>4
    <3>4. CASE ~(Listener!Settled(ui.state, d) /\ r = d.request)
      <4>1. ui'.toasts[r] = ui.toasts[r]
        BY <1>6, <3>4
      <4>2. QED
        BY <1>12, <3>1, <3>2, <4>1
    <3>5. QED
      BY <3>3, <3>4
  <2>2. QED
    BY <1>1, <1>6, <2>1 DEF ToldIsOver
<1>14. PollOk(srv', ui', net')
  BY <1>2 DEF PollOk, Receives
<1>15. ASSUME net.post = "answered"
       PROVE  /\ net.postData.request = srv.request
              /\ srv.request \in DOMAIN ui.toasts => Room(ui'.toasts, net'.outrun, srv.request)
              /\ d.state \in Listener!Under => Untold(ui'.toasts, srv.request)
  <2>1. /\ net.postData.request = srv.request
        /\ srv.request \in DOMAIN ui.toasts => Room(ui.toasts, net.outrun, srv.request)
        /\ ui.state \in Listener!Under => Untold(ui.toasts, srv.request)
    BY <1>15 DEF ListenerInv, PostOk
  <2>2. ASSUME srv.request \in DOMAIN ui.toasts PROVE Room(ui'.toasts, net'.outrun, srv.request)
    <3>1. CASE Listener!Settled(ui.state, d) /\ srv.request = d.request
      <4>1. ui.toasts[srv.request] = 0
        BY <1>5, <1>11, <2>1, <2>2, <3>1 DEF Untold
      <4>2. srv.request \in net'.outrun
        BY <1>2, <1>8, <1>11, <1>15, <2>2, <3>1
      <4>3. ui'.toasts[srv.request] = 1
        BY <1>6, <2>2, <3>1, <4>1
      <4>4. QED
        BY <4>2, <4>3 DEF Room
    <3>2. CASE ~(Listener!Settled(ui.state, d) /\ srv.request = d.request)
      <4>1. ui'.toasts[srv.request] = ui.toasts[srv.request]
        BY <1>6, <2>2, <3>2
      <4>2. srv.request \in net.outrun => srv.request \in net'.outrun
        BY <1>2
      <4>3. QED
        BY <1>12, <2>1, <2>2, <4>1, <4>2 DEF Room
    <3>3. QED
      BY <3>1, <3>2
  <2>3. ASSUME d.state \in Listener!Under PROVE Untold(ui'.toasts, srv.request)
    <3>1. ~Listener!Settled(ui.state, d)
      BY <1>9, <2>3 DEF Listener!Settled
    <3>2. \A r \in DOMAIN ui.toasts : r >= srv.request => ui.toasts[r] = 0
      BY <1>5, <1>7, <2>3 DEF Untold, ListenerInv, ListenerOk
    <3>3. QED
      BY <1>6, <3>1, <3>2 DEF Untold
  <2>4. QED
    BY <2>1, <2>2, <2>3
<1>16. PostOk(srv', ui', net')
  BY <1>1, <1>2, <1>4, <1>6, <1>15 DEF PostOk
<1>17. UnderOk(srv', ui', net')
  <2>1. ASSUME d.state \in Listener!Under
        PROVE  \A r \in DOMAIN ui'.toasts : r >= d.request => Room(ui'.toasts, net'.outrun, r)
    <3>1. ~Listener!Settled(ui.state, d)
      BY <1>9, <2>1 DEF Listener!Settled
    <3>2. \A r \in DOMAIN ui.toasts : r >= d.request => ui'.toasts[r] = 0
      BY <1>6, <1>7, <2>1, <3>1 DEF Untold
    <3>3. QED
      BY <1>6, <3>2 DEF Room
  <2>2. ~Receives(net')
    BY <1>2 DEF Receives
  <2>3. QED
    BY <1>1, <1>4, <1>5, <1>7, <2>1, <2>2 DEF UnderOk
<1>18. QED
  BY <1>10, <1>13, <1>14, <1>16, <1>17 DEF ListenerInv

\* A reading is of the request the mailbox is about.
LEMMA AnswerPollOk ==
  ASSUME ListenerInv(srv, ui, net), Listener!AnswerPoll
  PROVE  ListenerInv(srv', ui', net')
<1>1. /\ srv' = srv /\ ui' = ui
      /\ net' = [net EXCEPT !.poll = "answered", !.pollData = srv]
  BY DEF Listener!AnswerPoll
<1>2. /\ net'.poll = "answered" /\ net'.pollData = srv /\ net'.outrun = net.outrun
      /\ net'.post = net.post /\ net'.postData = net.postData /\ DOMAIN net' = DOMAIN net
  BY <1>1 DEF ListenerInv, ListenerOk
<1>3. ListenerOk(srv', ui', net')
  BY <1>1, <1>2 DEF ListenerInv, ListenerOk
<1>4. srv.request \in Nat /\ (srv.state \in Listener!Under <=> srv.state \notin Listener!Over)
  BY UnderOrOver DEF ListenerInv, ListenerOk, IsStatus
<1>5. srv.state \in Listener!Under => Untold(ui.toasts, srv.request)
  BY <1>4 DEF ListenerInv, ListenerOk, ToldIsOver, Untold
<1>6. ToldIsOver(srv', ui', net')
  BY <1>1, <1>2 DEF ListenerInv, ToldIsOver
<1>7. PollOk(srv', ui', net')
  BY <1>1, <1>2, <1>4, <1>5 DEF PollOk
<1>8. PostOk(srv', ui', net')
  BY <1>1, <1>2 DEF ListenerInv, PostOk
<1>9. UnderOk(srv', ui', net')
  BY <1>1, <1>2 DEF ListenerInv, UnderOk
<1>10. QED
  BY <1>3, <1>6, <1>7, <1>8, <1>9 DEF ListenerInv

\* A reading that is dropped or asked again leaves nothing to show.
LEMMA PollGoneOk ==
  ASSUME ListenerInv(srv, ui, net), Listener!FailPoll \/ Listener!Tick
  PROVE  ListenerInv(srv', ui', net')
<1>1. /\ srv' = srv /\ DOMAIN ui' = DOMAIN ui /\ ui'.state = ui.state /\ ui'.toasts = ui.toasts
      /\ ui'.requesting = ui.requesting
  BY DEF Listener!FailPoll, Listener!Tick, ListenerInv, ListenerOk
<1>2. /\ net'.poll # "answered" /\ net'.post = net.post /\ net'.postData = net.postData
      /\ net'.outrun = net.outrun /\ DOMAIN net' = DOMAIN net
  <2>1. CASE Listener!FailPoll
    BY <2>1 DEF Listener!FailPoll, ListenerInv, ListenerOk
  <2>2. CASE Listener!Tick
    <3>1. net' = [net EXCEPT !.poll = "asked", !.pollData = Nothing, !.polls = @ + 1]
      BY <2>2 DEF Listener!Tick, Listener!Asked
    <3>2. QED
      BY <3>1 DEF ListenerInv, ListenerOk
  <2>3. QED
    BY <2>1, <2>2
<1>3. ~Receives(net')
  BY <1>2 DEF Receives
<1>4. ListenerOk(srv', ui', net')
  BY <1>1, <1>2, <1>3 DEF ListenerInv, ListenerOk
<1>5. ToldIsOver(srv', ui', net') /\ PollOk(srv', ui', net')
  BY <1>1, <1>2, <1>3 DEF ListenerInv, ToldIsOver, PollOk
<1>6. PostOk(srv', ui', net') /\ UnderOk(srv', ui', net')
  BY <1>1, <1>2, <1>3 DEF ListenerInv, PostOk, UnderOk
<1>7. QED
  BY <1>4, <1>5, <1>6 DEF ListenerInv

\* The mailbox moves on: a request under way stays one of which nothing was told.
LEMMA MailboxOk ==
  ASSUME ListenerInv(srv, ui, net), Listener!ListenerStep \/ Listener!ConfigurationChanges
  PROVE  ListenerInv(srv', ui', net')
<1>1. ui' = ui /\ net' = net
  BY DEF Listener!ListenerStep, Listener!ConfigurationChanges
<1>2. /\ DOMAIN srv' = DOMAIN srv /\ srv'.request = srv.request /\ srv'.state \in Listener!States
      /\ srv.state \in Listener!Over => srv'.state \in Listener!Over
  BY DEF Listener!ListenerStep, Listener!ConfigurationChanges, Listener!States, Listener!Over,
         ListenerInv, ListenerOk, IsStatus
<1>3. ListenerOk(srv', ui', net')
  BY <1>1, <1>2 DEF ListenerInv, ListenerOk, IsStatus
<1>4. ToldIsOver(srv', ui', net') /\ PollOk(srv', ui', net')
  BY <1>1, <1>2 DEF ListenerInv, ToldIsOver, PollOk
<1>5. PostOk(srv', ui', net') /\ UnderOk(srv', ui', net')
  BY <1>1, <1>2 DEF ListenerInv, PostOk, UnderOk
<1>6. QED
  BY <1>3, <1>4, <1>5 DEF ListenerInv

\* A request that is taken in is under way, and nothing was told of it.
LEMMA ServeApplyOk ==
  ASSUME ListenerInv(srv, ui, net), Listener!ServeApply
  PROVE  ListenerInv(srv', ui', net')
<1>1. /\ ui' = ui /\ net.post = "asked"
      /\ net' = [net EXCEPT !.post = "answered", !.postData = srv']
  BY DEF Listener!ServeApply
<1>2. /\ net'.post = "answered" /\ net'.postData = srv' /\ net'.poll = net.poll
      /\ net'.pollData = net.pollData /\ net'.outrun = net.outrun /\ DOMAIN net' = DOMAIN net
  BY <1>1 DEF ListenerInv, ListenerOk
<1>3. IsStatus(srv) /\ srv.request \in Nat
  BY DEF ListenerInv, ListenerOk, IsStatus
<1>4. /\ DOMAIN srv' = DOMAIN srv /\ srv'.state \in Listener!Under
      /\ \/ srv'.request = srv.request /\ srv' = srv /\ srv.state \notin Listener!Over
         \/ srv'.request = srv.request + 1
  <2>1. CASE srv.state \in Listener!Under
    BY <1>3, <2>1, UnderOrOver DEF Listener!ServeApply
  <2>2. CASE srv.state \notin Listener!Under
    BY <1>3, <2>2 DEF Listener!ServeApply, IsStatus, Listener!Under
  <2>3. QED
    BY <2>1, <2>2
<1>5. IsStatus(srv')
  BY <1>3, <1>4 DEF IsStatus, Listener!Under, Listener!States
<1>6. ListenerOk(srv', ui', net')
  BY <1>1, <1>2, <1>4, <1>5 DEF ListenerInv, ListenerOk, Receives
<1>7. srv'.request \in Nat /\ srv'.request >= srv.request
  BY <1>3, <1>4
<1>8. \A r \in DOMAIN ui.toasts : ui.toasts[r] # 0 => r < srv'.request
  BY <1>3, <1>4 DEF ListenerInv, ListenerOk, ToldIsOver
<1>9. Untold(ui.toasts, srv'.request)
  BY <1>7, <1>8 DEF Untold, ListenerInv, ListenerOk
<1>10. ToldIsOver(srv', ui', net')
  BY <1>1, <1>2, <1>8 DEF ListenerInv, ToldIsOver
<1>11. PollOk(srv', ui', net')
  <2>1. Receives(net) =>
          /\ net.pollData.request \in Nat /\ net.pollData.request <= srv'.request
          /\ net.pollData.state \in Listener!Over /\ net.pollData.request = srv'.request
               => srv'.state \in Listener!Over
          /\ net.pollData.state \in Listener!Under => Untold(ui.toasts, net.pollData.request)
    BY <1>3, <1>4, <1>7 DEF ListenerInv, ListenerOk, PollOk, IsStatus
  <2>2. QED
    BY <1>1, <1>2, <2>1 DEF PollOk, Receives
<1>12. PostOk(srv', ui', net')
  BY <1>1, <1>2, <1>7, <1>9 DEF PostOk, Untold, Room
<1>13. UnderOk(srv', ui', net')
  <2>1. ASSUME ui.state \in Listener!Under
        PROVE  \E q \in Nat : /\ q <= srv'.request
                              /\ \A r \in DOMAIN ui.toasts : r >= q => Room(ui.toasts, net.outrun, r)
                              /\ Receives(net) => q <= net.pollData.request
    BY <1>3, <1>7, <2>1 DEF ListenerInv, UnderOk
  <2>2. QED
    BY <1>1, <1>2, <2>1 DEF UnderOk, Receives
<1>14. QED
  BY <1>6, <1>10, <1>11, <1>12, <1>13 DEF ListenerInv

\* The answer to the request is that it is under way: nothing is told.
LEMMA RequestSent ==
  ASSUME ListenerInv(srv, ui, net), Listener!Apply \/ Listener!AnswerApply \/ Listener!FailApply
  PROVE  ListenerInv(srv', ui', net')
<1>1. ASSUME srv' = srv, ui'.state = ui.state, ui'.toasts = ui.toasts, net'.poll = net.poll,
             net'.pollData = net.pollData, net'.outrun = net.outrun, net'.post # "answered"
      PROVE  /\ ToldIsOver(srv', ui', net') /\ PollOk(srv', ui', net')
             /\ PostOk(srv', ui', net') /\ UnderOk(srv', ui', net')
  <2>1. ToldIsOver(srv', ui', net') /\ PollOk(srv', ui', net')
    BY <1>1 DEF ListenerInv, ToldIsOver, PollOk, Receives
  <2>2. PostOk(srv', ui', net') /\ UnderOk(srv', ui', net')
    BY <1>1 DEF ListenerInv, PostOk, UnderOk, Receives
  <2>3. QED
    BY <2>1, <2>2
<1>2. CASE Listener!Apply
  <2>1. /\ srv' = srv /\ ~ui.requesting /\ DOMAIN ui' = DOMAIN ui /\ ui'.state = ui.state
        /\ ui'.toasts = ui.toasts /\ ui'.requesting = TRUE
    BY <1>2 DEF Listener!Apply, Listener!Busy, ListenerInv, ListenerOk
  <2>2. /\ net'.post = "asked" /\ net'.poll = net.poll /\ net'.pollData = net.pollData
        /\ net'.outrun = net.outrun /\ DOMAIN net' = DOMAIN net
    BY <1>2 DEF Listener!Apply, ListenerInv, ListenerOk
  <2>3. ListenerOk(srv', ui', net')
    BY <2>1, <2>2 DEF ListenerInv, ListenerOk, Receives
  <2>4. QED
    BY <1>1, <2>1, <2>2, <2>3 DEF ListenerInv
<1>3. CASE Listener!FailApply
  <2>1. /\ srv' = srv /\ DOMAIN ui' = DOMAIN ui /\ ui'.state = ui.state /\ ui'.toasts = ui.toasts
    BY <1>3 DEF Listener!FailApply, ListenerInv, ListenerOk
  <2>2. /\ net'.post = "none" /\ net'.poll = net.poll /\ net'.pollData = net.pollData
        /\ net'.outrun = net.outrun /\ DOMAIN net' = DOMAIN net
    BY <1>3 DEF Listener!FailApply, ListenerInv, ListenerOk
  <2>3. ListenerOk(srv', ui', net')
    BY <2>1, <2>2 DEF ListenerInv, ListenerOk, Receives
  <2>4. QED
    BY <1>1, <2>1, <2>2, <2>3 DEF ListenerInv
<1>4. CASE Listener!AnswerApply
  <2> DEFINE d == net.postData
             v == Listener!Accept(ui, d)
  <2>1. srv' = srv /\ net.post = "answered" /\ ui' = [v EXCEPT !.requesting = FALSE]
    BY <1>4 DEF Listener!AnswerApply
  <2>2. IsStatus(d) /\ d.state \in Listener!Under
    BY <2>1 DEF ListenerInv, ListenerOk
  <2>3. ~Listener!Settled(ui.state, d)
    BY <2>2, UnderOrOver DEF Listener!Settled
  <2>4. DOMAIN v = DOMAIN ui /\ v.state = d.state /\ v.toasts = ui.toasts
    <3>1. {"state", "error", "requesting", "unapplied", "toasts"} \subseteq DOMAIN ui
      BY DEF ListenerInv, ListenerOk
    <3>2. /\ DOMAIN v = DOMAIN ui /\ v.state = d.state
          /\ v.toasts = IF Listener!Settled(ui.state, d) /\ d.request # 0
                          THEN [ui.toasts EXCEPT ![d.request] = @ + 1] ELSE ui.toasts
      BY <3>1, Accepted
    <3>3. QED
      BY <2>3, <3>2
  <2> HIDE DEF v
  <2>5. DOMAIN ui' = DOMAIN ui /\ ui'.state = d.state /\ ui'.toasts = ui.toasts
    BY <2>1, <2>4 DEF ListenerInv, ListenerOk
  <2>6. /\ net'.post = "none" /\ net'.poll = "asked" /\ net'.outrun = net.outrun
        /\ DOMAIN net' = DOMAIN net
    <3>1. PICK n : /\ n = [net EXCEPT !.post = "none", !.postData = Nothing]
                   /\ net' = [n EXCEPT !.poll = "asked", !.pollData = Nothing, !.polls = @ + 1]
      BY <1>4 DEF Listener!AnswerApply, Listener!Asked
    <3>2. DOMAIN n = DOMAIN net /\ n.post = "none" /\ n.outrun = net.outrun
      BY <3>1 DEF ListenerInv, ListenerOk
    <3>3. QED
      BY <3>1, <3>2 DEF ListenerInv, ListenerOk
  <2>7. ListenerOk(srv', ui', net')
    BY <2>1, <2>5, <2>6 DEF ListenerInv, ListenerOk, Receives
  <2>8. srv.request \in Nat /\ ~Receives(net')
    BY <2>6 DEF ListenerInv, ListenerOk, IsStatus, Receives
  <2>9. ToldIsOver(srv', ui', net')
    BY <2>1, <2>5, <2>6 DEF ListenerInv, ToldIsOver
  <2>10. PollOk(srv', ui', net') /\ PostOk(srv', ui', net')
    BY <2>6, <2>8 DEF PollOk, PostOk
  <2>11. \A r \in DOMAIN ui.toasts : r >= srv.request => Room(ui.toasts, net.outrun, r)
    <3>1. srv.request \in DOMAIN ui.toasts => Room(ui.toasts, net.outrun, srv.request)
      BY <2>1 DEF ListenerInv, PostOk
    <3>2. ASSUME NEW r \in DOMAIN ui.toasts, r > srv.request PROVE ui.toasts[r] = 0
      BY <2>8, <3>2 DEF ListenerInv, ListenerOk, ToldIsOver
    <3>3. ASSUME NEW r \in DOMAIN ui.toasts, r > srv.request PROVE Room(ui.toasts, net.outrun, r)
      BY <3>2, <3>3 DEF Room
    <3>4. \A r \in DOMAIN ui.toasts : r \in Int
      BY DEF ListenerInv, ListenerOk
    <3>5. QED
      BY <2>8, <3>1, <3>3, <3>4
  <2>12. UnderOk(srv', ui', net')
    <3>1. srv.request <= srv.request
      BY <2>8
    <3>2. QED
      BY <2>1, <2>5, <2>6, <2>8, <2>11, <3>1 DEF UnderOk
  <2>13. QED
    BY <2>7, <2>9, <2>10, <2>12 DEF ListenerInv
<1>5. QED
  BY <1>2, <1>3, <1>4

\* Every step of the page and of the mailbox keeps what is told once told once.
LEMMA NextListener ==
  ASSUME ListenerInv(srv, ui, net), [Listener!Next]_<<srv, ui, net>>
  PROVE  ListenerInv(srv', ui', net')
<1>1. CASE UNCHANGED <<srv, ui, net>>
  BY <1>1
<1>2. QED
  BY <1>1, ShowPollOk, AnswerPollOk, PollGoneOk, MailboxOk, ServeApplyOk, RequestSent
     DEF Listener!Next

\* Hence a request that ended is told once (ToldOnce).
LEMMA ListenerTells == ASSUME ListenerInv(srv, ui, net) PROVE Listener!ToldOnce
BY DEF ListenerInv, ListenerOk, ToldIsOver, Listener!ToldOnce

-----------------------------------------------------------------------------
(* The rails of the feed: a rail is measured when it may begin to fold.       *)

\* The rules are some of the finitely many, and a rail is measured while it may fold.
RailFields(u) ==
  {"rules", "counts", "selected", "expanded", "y", "mode", "wide", "open", "passed", "threshold"} \subseteq DOMAIN u
RailsOk(s, u) ==
  /\ "rules" \in DOMAIN s /\ s.rules \subseteq Rules /\ u.rules \subseteq Rules
  /\ RailFields(u) /\ u.y \in Int /\ u.wide \in BOOLEAN
  /\ DOMAIN u.open = Rails!Sides /\ DOMAIN u.passed = Rails!Sides
  /\ Rails!Compact(u) => \A side \in Rails!Sides : u.threshold[side] \in Int
\* What of the page says whether a rail is folded.
SameRails(u, v) ==
  /\ v.mode = u.mode /\ v.wide = u.wide /\ v.y = u.y
  /\ v.open = u.open /\ v.passed = u.passed /\ v.threshold = u.threshold

\* The feed begins at its top, with its rails open.
LEMMA RailsInit == ASSUME Rails!Init PROVE RailsOk(srv, ui)
BY DEF Rails!Init, RailsOk, RailFields, Rails!Closed, Rails!Sides, Rails!Compact

\* The rules a rail lists are counted as any set is.
LEMMA RulesCounted == \A S : Rails!Cardinality(S) = Cardinality(S)
BY DEF Rails!Cardinality, Cardinality

\* The bottom of a rail is a position.
LEMMA BottomIsPosition ==
  ASSUME RailsOk(srv, ui), NEW side PROVE Rails!Bottom(side) \in Int
<1>1. Rails!VisibleRules \subseteq Rules
  BY DEF RailsOk, Rails!VisibleRules, Rails!TopRules
<1>2. IsFiniteSet(Rails!VisibleRules)
  BY <1>1, FS_Subset, PanelAssumption
<1>3. Cardinality(Rails!VisibleRules) \in Nat
  BY <1>2, FS_CardinalityType
<1>4. QED
  BY <1>3, RulesCounted DEF Rails!Bottom

\* What moves nothing folds nothing.
LEMMA NothingFolds ==
  ASSUME RailsOk(srv, ui), SameRails(ui, ui')
  PROVE  Rails!FoldsOncePassed
BY DEF SameRails, Rails!FoldsOncePassed, Rails!Folds, Rails!RailState, Rails!Managed, Rails!Compact

\* Rules that are read, counted and filtered leave the rails alone.
LEMMA RulesListed ==
  ASSUME RailsOk(srv, ui), NEW ok, NEW counts, NEW r,
         \/ Rails!LoadRules(ok) \/ Rails!ShowMatches(counts) \/ Rails!SelectRule(r) \/ Rails!ToggleExpanded
  PROVE  RailsOk(srv', ui') /\ SameRails(ui, ui')
<1>1. srv' = srv /\ RailFields(ui') /\ SameRails(ui, ui')
  BY DEF RailsOk, RailFields, SameRails, Rails!LoadRules, Rails!ShowMatches, Rails!SelectRule,
         Rails!ToggleExpanded
<1>2. ui'.rules \subseteq Rules
  BY DEF RailsOk, RailFields, Rails!LoadRules, Rails!ShowMatches, Rails!SelectRule, Rails!ToggleExpanded
<1>3. QED
  BY <1>1, <1>2 DEF RailsOk, SameRails, Rails!Compact

\* So does a rule that is made or deleted in another tab.
LEMMA RulesElsewhere ==
  ASSUME RailsOk(srv, ui), NEW r \in Rules, Rails!OtherRules(r)
  PROVE  RailsOk(srv', ui') /\ SameRails(ui, ui')
BY DEF RailsOk, SameRails, Rails!OtherRules

\* A rail that is measured is measured by where its bottom is, and a check passes only
\* the rails the page has scrolled past.
LEMMA RailsMoved ==
  ASSUME RailsOk(srv, ui), NEW u, RailFields(u), u.rules = ui.rules, u.y \in Int, u.wide \in BOOLEAN,
         u.open = ui.open, u.passed = ui.passed, u.threshold = ui.threshold, ui' = Rails!Moved(u)
  PROVE  RailsOk(srv, ui') /\ Rails!FoldsOncePassed
<1>1. "rules" \in DOMAIN srv /\ srv.rules \subseteq Rules /\ u.rules \subseteq Rules
  BY DEF RailsOk
<1>2. DOMAIN u.open = Rails!Sides /\ DOMAIN u.passed = Rails!Sides
  BY DEF RailsOk
<1>3. CASE ~Rails!Compact(u)
  <2>1. ui' = [u EXCEPT !.open = Rails!Closed, !.passed = Rails!Closed]
    BY <1>3 DEF Rails!Moved, Rails!Settled
  <2>2. RailFields(ui') /\ ui'.rules = u.rules /\ ui'.y = u.y /\ ui'.wide = u.wide /\ ui'.mode = u.mode
    BY <2>1 DEF RailFields
  <2>3. ui'.open = Rails!Closed /\ ui'.passed = Rails!Closed
    BY <2>1 DEF RailFields
  <2>4. ~Rails!Compact(ui')
    BY <1>3, <2>2 DEF Rails!Compact
  <2>5. RailsOk(srv, ui')
    BY <1>1, <2>2, <2>3, <2>4 DEF RailsOk, Rails!Closed
  <2>6. Rails!FoldsOncePassed
    BY <2>4 DEF Rails!FoldsOncePassed, Rails!Folds, Rails!RailState
  <2>7. QED
    BY <2>5, <2>6
<1>4. CASE Rails!Compact(u)
  <2>1. PICK v : /\ ui' = Rails!Checked(v)
                 /\ \/ v = u /\ Rails!Compact(ui)
                    \/ /\ v = [u EXCEPT !.threshold = [side \in Rails!Sides |-> Rails!Bottom(side)]]
                       /\ ~Rails!Compact(ui)
    BY <1>4 DEF Rails!Moved, Rails!Measured
  <2>2. /\ RailFields(v) /\ v.rules = u.rules /\ v.y = u.y /\ v.wide = u.wide /\ v.mode = u.mode
        /\ v.open = u.open /\ v.passed = u.passed
    BY <2>1 DEF RailFields
  <2>3. \A side \in Rails!Sides : v.threshold[side] \in Int
    <3>1. CASE v = u /\ Rails!Compact(ui)
      BY <3>1 DEF RailsOk
    <3>2. CASE v = [u EXCEPT !.threshold = [side \in Rails!Sides |-> Rails!Bottom(side)]]
      <4>1. v.threshold = [side \in Rails!Sides |-> Rails!Bottom(side)]
        BY <3>2 DEF RailFields
      <4>2. QED
        BY <4>1, BottomIsPosition
    <3>3. QED
      BY <2>1, <3>1, <3>2
  <2>4. /\ RailFields(ui') /\ ui'.rules = v.rules /\ ui'.y = v.y /\ ui'.wide = v.wide /\ ui'.mode = v.mode
        /\ ui'.open = v.open /\ ui'.threshold = v.threshold
    BY <2>1, <2>2 DEF RailFields, Rails!Checked
  <2>5. ui'.passed = [side \in Rails!Sides |-> v.passed[side] \/ v.y > v.threshold[side]]
    BY <2>1, <2>2 DEF RailFields, Rails!Checked
  <2>6. RailsOk(srv, ui')
    BY <1>1, <1>2, <2>2, <2>3, <2>4, <2>5 DEF RailsOk
  <2>7. Rails!FoldsOncePassed
    <3>1. SUFFICES ASSUME NEW side \in Rails!Sides, Rails!Folds(side), Rails!Compact(ui),
                          Rails!Bottom(side) <= ui.threshold[side]
                   PROVE  ui'.y > Rails!Bottom(side)
      BY DEF Rails!FoldsOncePassed
    <3>2. ~ui.open[side] /\ ~ui.passed[side] /\ ui'.passed[side]
      BY <3>1 DEF Rails!Folds, Rails!RailState
    <3>3. v = u
      BY <2>1, <3>1
    <3>4. ui'.y > ui.threshold[side]
      BY <2>4, <2>5, <3>2, <3>3
    <3>5. ui'.y \in Int /\ ui.threshold[side] \in Int /\ Rails!Bottom(side) \in Int
      BY <2>2, <2>3, <2>4, <3>3, BottomIsPosition
    <3>6. QED
      BY <3>1, <3>4, <3>5
  <2>8. QED
    BY <2>6, <2>7
<1>5. QED
  BY <1>3, <1>4

\* The administrator's own click folds no rail that is not pinned open.
LEMMA RailIsOpened ==
  ASSUME RailsOk(srv, ui), NEW side \in Rails!Sides, NEW open \in BOOLEAN, Rails!SetRailOpen(side, open)
  PROVE  RailsOk(srv, ui') /\ Rails!FoldsOncePassed
<1>1. /\ RailFields(ui') /\ ui'.rules = ui.rules /\ ui'.mode = ui.mode /\ ui'.wide = ui.wide /\ ui'.y = ui.y
      /\ ui'.passed = ui.passed /\ ui'.threshold = ui.threshold
      /\ ui'.open = [ui.open EXCEPT ![side] = open]
  BY DEF RailsOk, RailFields, Rails!SetRailOpen
<1>2. RailsOk(srv, ui')
  BY <1>1 DEF RailsOk, Rails!Compact
<1>3. ~Rails!Folds(side)
  <2>1. CASE open = TRUE
    BY <2>1 DEF Rails!SetRailOpen, Rails!Folds
  <2>2. CASE open = FALSE
    BY <2>2 DEF Rails!SetRailOpen, Rails!Folds
  <2>3. QED
    BY <2>1, <2>2
<1>4. ASSUME NEW s \in Rails!Sides, s # side PROVE ~Rails!Folds(s)
  <2>1. ui'.open[s] = ui.open[s]
    BY <1>1, <1>4 DEF RailsOk
  <2>2. Rails!RailState(ui', s) = Rails!RailState(ui, s)
    BY <1>1, <2>1 DEF Rails!RailState, Rails!Managed, Rails!Compact
  <2>3. QED
    BY <2>2 DEF Rails!Folds
<1>5. QED
  BY <1>2, <1>3, <1>4 DEF Rails!FoldsOncePassed

\* Every step of the feed's page keeps its rails measured, and folds those it has passed.
LEMMA NextRails ==
  ASSUME RailsOk(srv, ui), [Rails!Next]_<<srv, ui, net>>
  PROVE  RailsOk(srv', ui') /\ Rails!FoldsOncePassed
<1> DEFINE Goal == RailsOk(srv', ui') /\ Rails!FoldsOncePassed
<1>1. CASE UNCHANGED <<srv, ui, net>>
  BY <1>1, NothingFolds DEF SameRails
<1>2. ASSUME NEW ok, NEW counts, NEW r,
             \/ Rails!LoadRules(ok) \/ Rails!ShowMatches(counts) \/ Rails!SelectRule(r) \/ Rails!ToggleExpanded
      PROVE  Goal
  BY <1>2, RulesListed, NothingFolds
<1>3. ASSUME NEW r \in Rules, Rails!OtherRules(r) PROVE Goal
  BY <1>3, RulesElsewhere, NothingFolds
<1>4. ASSUME NEW y \in 0..MaxScroll, Rails!Scroll(y) PROVE Goal
  <2> DEFINE u == [ui EXCEPT !.y = y, !.mode = IF @ = "off" THEN @ ELSE Rails!NextMode(@, y)]
  <2>1. /\ RailFields(u) /\ u.rules = ui.rules /\ u.y \in Int /\ u.wide \in BOOLEAN
        /\ u.open = ui.open /\ u.passed = ui.passed /\ u.threshold = ui.threshold
    BY DEF RailsOk, RailFields
  <2>2. ui' = Rails!Moved(u) /\ srv' = srv
    BY <1>4 DEF Rails!Scroll
  <2> HIDE DEF u
  <2>3. QED
    BY <2>1, <2>2, RailsMoved
<1>5. CASE Rails!ResizeGrid
  <2> DEFINE u == [ui EXCEPT !.wide = ~@]
  <2>1. /\ RailFields(u) /\ u.rules = ui.rules /\ u.y \in Int /\ u.wide \in BOOLEAN
        /\ u.open = ui.open /\ u.passed = ui.passed /\ u.threshold = ui.threshold
    BY DEF RailsOk, RailFields
  <2>2. ui' = Rails!Moved(u) /\ srv' = srv
    BY <1>5 DEF Rails!ResizeGrid
  <2> HIDE DEF u
  <2>3. QED
    BY <2>1, <2>2, RailsMoved
<1>6. CASE Rails!ResizeWindow
  <2> DEFINE u == [ui EXCEPT !.mode = IF @ = "off" THEN Rails!NextMode("rest", ui.y) ELSE "off"]
  <2>1. /\ RailFields(u) /\ u.rules = ui.rules /\ u.y \in Int /\ u.wide \in BOOLEAN
        /\ u.open = ui.open /\ u.passed = ui.passed /\ u.threshold = ui.threshold
    BY DEF RailsOk, RailFields
  <2>2. ui' = Rails!Moved(u) /\ srv' = srv
    BY <1>6 DEF Rails!ResizeWindow
  <2> HIDE DEF u
  <2>3. QED
    BY <2>1, <2>2, RailsMoved
<1>7. ASSUME NEW side \in Rails!Sides, NEW open \in BOOLEAN, Rails!SetRailOpen(side, open) PROVE Goal
  BY <1>7, RailIsOpened DEF Rails!SetRailOpen
<1>8. QED
  BY <1>1, <1>2, <1>3, <1>4, <1>5, <1>6, <1>7 DEF Rails!Next

-----------------------------------------------------------------------------
(* The filters of the history: they are the ones in the storage of the tab.    *)

\* The storage keeps the filters in the form, unless the browser blocks it.
HistoryOk(u, n) ==
  /\ {"form", "applied", "stored", "loading", "panel", "dialog", "busy"} \subseteq DOMAIN u
  /\ {"reads", "calls", "blocked", "late", "ops"} \subseteq DOMAIN n
  /\ ~n.blocked => u.form = IF u.stored = Nothing THEN History!EMPTY_FILTERS ELSE u.stored
HistoryKept(u, n, v, m) ==
  /\ v.form = u.form /\ v.stored = u.stored /\ m.blocked = n.blocked
  /\ DOMAIN v = DOMAIN u /\ DOMAIN m = DOMAIN n

\* The page is mounted with what the storage kept.
LEMMA PageMounted ==
  ASSUME NEW stored, NEW n, {"reads", "calls", "blocked", "late", "ops"} \subseteq DOMAIN n
  PROVE  HistoryOk(History!Mounted(stored), n)
BY DEF HistoryOk, History!Mounted

\* So it is at first.
LEMMA HistoryInit == ASSUME History!Init PROVE HistoryOk(ui, net)
BY PageMounted DEF History!Init

\* What leaves the form and the storage alone keeps them together.
LEMMA HistoryStays ==
  ASSUME NEW u, NEW n, NEW v, NEW m, HistoryOk(u, n), HistoryKept(u, n, v, m)
  PROVE  HistoryOk(v, m)
BY DEF HistoryOk, HistoryKept

\* Asking for the list leaves them alone.
LEMMA ListAsked ==
  ASSUME NEW u, NEW n, NEW of, HistoryOk(u, n), History!Loaded(u, n, of)
  PROVE  HistoryKept(u, n, ui', net')
BY DEF HistoryOk, HistoryKept, History!Loaded

\* A render applies the filters, and leaves them in the form and the storage.
LEMMA FiltersRendered ==
  ASSUME NEW u, HistoryOk(u, net), History!Rendered(u, net)
  PROVE  HistoryOk(ui', net')
<1> DEFINE v == [u EXCEPT !.applied = IF u.form.search = NoSearch THEN NoSearch ELSE @]
           m == [net EXCEPT !.ops = @ + 1]
<1>1. HistoryOk(v, m)
  BY DEF HistoryOk
<1> HIDE DEF v, m
<1>2. (ui' = v /\ net' = m) \/ History!Loaded(v, m, History!toApiFilters(v))
  BY DEF v, m, History!Rendered, History!Counted
<1>3. QED
  BY <1>1, <1>2, ListAsked, HistoryStays

\* A filter that is changed is stored, and a reset removes what was.
LEMMA FiltersChanged ==
  ASSUME HistoryOk(ui, net), History!ChangeField \/ History!ClearFilters
  PROVE  HistoryOk(ui', net')
<1>1. CASE History!ClearFilters
  <2>1. HistoryOk(History!Reset(ui), net)
    BY DEF HistoryOk, History!Reset
  <2>2. QED
    BY <1>1, <2>1, FiltersRendered DEF History!ClearFilters
<1>2. CASE History!ChangeField
  <2>1. PICK form \in History!FilterForm : History!Rendered(History!Kept(ui, form), net)
    BY <1>2 DEF History!ChangeField
  <2>2. form # Nothing
    BY PanelAssumption
  <2>3. HistoryOk(History!Kept(ui, form), net)
    BY <2>2 DEF HistoryOk, History!Kept
  <2>4. QED
    BY <2>1, <2>3, FiltersRendered
<1>3. QED
  BY <1>1, <1>2

\* Coming back brings the filters that were in the form, and nothing that was asked.
LEMMA CameBack ==
  ASSUME HistoryOk(ui, net), History!ComeBack
  PROVE  HistoryOk(ui', net') /\ History!FiltersSurvive
<1>1. ui' = History!Mounted(ui.stored)
  BY DEF History!ComeBack
<1>2. DOMAIN net' = DOMAIN net /\ net'.blocked = net.blocked
  BY DEF HistoryOk, History!ComeBack, History!Counted
<1>3. HistoryOk(ui', net')
  BY <1>1, <1>2, PageMounted DEF HistoryOk
<1>4. ~net.blocked => ui'.form = ui.form
  BY <1>1 DEF HistoryOk, History!Mounted
<1>5. QED
  BY <1>3, <1>4 DEF History!FiltersSurvive

\* Answers, clicks on a product and calls leave the filters alone.
LEMMA RowsAnswered ==
  ASSUME HistoryOk(ui, net), NEW r, NEW m,
         \/ History!AnswerRead(r) \/ History!ShowRead(r) \/ History!FailRead(r)
         \/ History!OpenProduct(m) \/ History!AskDelete(m) \/ History!OtherDelete(m)
         \/ History!CloseProduct \/ History!CancelDelete
  PROVE  HistoryKept(ui, net, ui', net')
BY DEF HistoryOk, HistoryKept, History!AnswerRead, History!ShowRead, History!FailRead, History!OpenProduct,
       History!AskDelete, History!OtherDelete, History!CloseProduct, History!CancelDelete

\* So do the calls, until they are answered.
LEMMA HistoryCalls ==
  ASSUME HistoryOk(ui, net), NEW c, NEW op,
         \/ History!ConfirmDelete \/ History!PanelCall(op) \/ History!Serve(c) \/ History!ServeFails(c)
         \/ History!ServeLeft(c) \/ History!AwaitLookups(c) \/ History!AnswerFailure(c)
  PROVE  HistoryKept(ui, net, ui', net')
<1>1. DOMAIN ui' = DOMAIN ui /\ ui'.form = ui.form /\ ui'.stored = ui.stored
  BY DEF HistoryOk, History!ConfirmDelete, History!PanelCall, History!Serve, History!ServeFails,
         History!ServeLeft, History!AwaitLookups, History!AnswerFailure
<1>2. DOMAIN net' = DOMAIN net /\ net'.blocked = net.blocked
  BY DEF HistoryOk, History!ConfirmDelete, History!PanelCall, History!Serve, History!ServeFails,
         History!ServeLeft, History!AwaitLookups, History!AnswerFailure, History!Sent, History!Counted,
         History!With, History!Gone
<1>3. QED
  BY <1>1, <1>2 DEF HistoryKept

\* A call that is answered, a timer and a click ask for the list again.
LEMMA ListRead ==
  ASSUME HistoryOk(ui, net), NEW c,
         \/ History!SearchTimer \/ History!Refresh \/ History!AnswerPanelCall(c) \/ History!AnswerDelete(c)
  PROVE  HistoryOk(ui', net')
<1>1. PICK u, n, of : HistoryKept(ui, net, u, n) /\ History!Loaded(u, n, of)
  <2>1. CASE History!SearchTimer
    <3>1. HistoryKept(ui, net, [ui EXCEPT !.applied = ui.form.search], net)
      BY DEF HistoryOk, HistoryKept
    <3>2. QED
      BY <2>1, <3>1 DEF History!SearchTimer
  <2>2. CASE History!Refresh
    <3>1. HistoryKept(ui, net, ui, History!Counted(net))
      BY DEF HistoryOk, HistoryKept, History!Counted
    <3>2. QED
      BY <2>2, <3>1 DEF History!Refresh
  <2>3. HistoryKept(ui, net, ui, History!Gone(c))
    BY DEF HistoryOk, HistoryKept, History!Gone
  <2>4. CASE History!AnswerPanelCall(c)
    BY <2>3, <2>4 DEF History!AnswerPanelCall
  <2>5. CASE History!AnswerDelete(c)
    <3>1. HistoryKept(ui, net, [ui EXCEPT !.dialog = Nothing, !.busy = FALSE,
                                          !.panel = IF @ = c.match THEN Nothing ELSE @], History!Gone(c))
      BY DEF HistoryOk, HistoryKept, History!Gone
    <3>2. QED
      BY <2>5, <3>1 DEF History!AnswerDelete
  <2>6. QED
    BY <2>1, <2>2, <2>4, <2>5
<1>2. HistoryOk(u, n)
  BY <1>1, HistoryStays
<1>3. QED
  BY <1>1, <1>2, ListAsked, HistoryStays

\* Every step of the history page keeps its filters stored, and finds them again.
LEMMA NextHistory ==
  ASSUME HistoryOk(ui, net), [History!Next]_<<srv, ui, net>>
  PROVE  HistoryOk(ui', net') /\ History!FiltersSurvive
<1>1. History!FiltersSurvive
  BY CameBack DEF History!FiltersSurvive
<1>2. HistoryOk(ui', net')
  <2>1. CASE UNCHANGED <<srv, ui, net>>
    BY <2>1
  <2>2. CASE History!Next
    BY <2>2, FiltersChanged, CameBack, RowsAnswered, HistoryCalls, ListRead, HistoryStays DEF History!Next
  <2>3. QED
    BY <2>1, <2>2
<1>3. QED
  BY <1>1, <1>2

-----------------------------------------------------------------------------
(* The form of a purchase: the title that is answered is of its product.       *)

\* The page has a form, open or not.
EconomyOk(u) == "form" \in DOMAIN u

\* The savings page has a form from the start.
LEMMA EconomyInit == ASSUME Economy!Init PROVE EconomyOk(ui)
BY DEF Economy!Init, EconomyOk

\* The call that is answered closes or keeps what is on the page.
LEMMA EconomyCalls ==
  ASSUME EconomyOk(ui), NEW c,
         Economy!Serve(c) \/ Economy!ServeFails(c) \/ Economy!Answer(c) \/ Economy!AnswerFailure(c)
  PROVE  EconomyOk(ui')
BY DEF EconomyOk, Economy!Serve, Economy!ServeFails, Economy!Answer, Economy!Closed, Economy!AnswerFailure

\* Every step of the savings page keeps its form, and a title changes its own form only.
LEMMA NextEconomy ==
  ASSUME EconomyOk(ui), [Economy!Next]_<<srv, ui, net>>
  PROVE  EconomyOk(ui') /\ Economy!TitleKeepsTheForm
<1>1. Economy!TitleKeepsTheForm
  BY DEF EconomyOk, Economy!TitleKeepsTheForm, Economy!AnswerTitle
<1>2. EconomyOk(ui')
  <2>1. CASE UNCHANGED <<srv, ui, net>>
    BY <2>1
  <2>2. ASSUME NEW r, Economy!AnswerList(r) \/ Economy!AnswerReport(r) \/ Economy!ShowRead(r) \/ Economy!FailRead(r)
        PROVE  EconomyOk(ui')
    BY <2>2 DEF EconomyOk, Economy!AnswerList, Economy!AnswerReport, Economy!ShowRead, Economy!FailRead
  <2>3. CASE Economy!OpenCreate \/ Economy!Type \/ Economy!CloseForm \/ Economy!SubmitForm
    BY <2>3 DEF EconomyOk, Economy!OpenCreate, Economy!Type, Economy!CloseForm, Economy!SubmitForm
  <2>4. ASSUME NEW i, NEW ok, Economy!OpenEdit(i) \/ Economy!AskDelete(i) \/ Economy!AnswerTitle(i, ok)
        PROVE  EconomyOk(ui')
    BY <2>4 DEF EconomyOk, Economy!OpenEdit, Economy!AskDelete, Economy!AnswerTitle
  <2>5. CASE Economy!CancelDelete \/ Economy!ConfirmDelete \/ Economy!OpenGoal \/ Economy!CloseGoal
    BY <2>5 DEF EconomyOk, Economy!CancelDelete, Economy!ConfirmDelete, Economy!OpenGoal, Economy!CloseGoal
  <2>6. ASSUME NEW op, Economy!SubmitGoal(op) PROVE EconomyOk(ui')
    BY <2>6 DEF EconomyOk, Economy!SubmitGoal
  <2>7. QED
    BY <2>1, <2>2, <2>3, <2>4, <2>5, <2>6, EconomyCalls DEF Economy!Next
<1>3. QED
  BY <1>1, <1>2

-----------------------------------------------------------------------------
(* The history of the health page: one reading at a time is under way.         *)

\* A reading is answered with what had happened when it was, which is no
\* less than what the page shows, and one reading at a time is under way.
Told(x, shown, s) ==
  \/ x = Nothing \/ x = -1
  \/ x \in Int /\ x <= s /\ (shown = Nothing \/ shown <= x)
Shown(x, s) == x = Nothing \/ (x \in Int /\ x <= s)
PastOk(s, u, n) ==
  /\ s \in Int
  /\ {"history", "events", "failed", "loading", "recipient", "sending", "result"} \subseteq DOMAIN u
  /\ Shown(u.history, s) /\ Shown(u.events, s)
  /\ {"reads", "test", "asked"} \subseteq DOMAIN n
  /\ \A r \in n.reads : /\ {"n", "history", "events"} \subseteq DOMAIN r
                        /\ Told(r.history, u.history, s) /\ Told(r.events, u.events, s)
  /\ \A r, q \in n.reads : r = q

\* A reading is asked for when none is under way.
LEMMA Refreshes ==
  ASSUME NEW s, NEW u, NEW n, PastOk(s, u, n)
  PROVE  PastOk(s, u, Past!Refreshed(n)) /\ Past!Refreshed(n).test = n.test
<1>1. CASE n.reads = {}
  <2>1. Past!Refreshed(n).reads = {[n |-> n.asked, history |-> Nothing, events |-> Nothing]}
    BY <1>1 DEF PastOk, Past!Refreshed, Past!Asked
  <2>2. {"reads", "test", "asked"} \subseteq DOMAIN Past!Refreshed(n) /\ Past!Refreshed(n).test = n.test
    BY <1>1 DEF PastOk, Past!Refreshed, Past!Asked
  <2>3. QED
    BY <2>1, <2>2 DEF PastOk, Told
<1>2. CASE n.reads # {}
  BY <1>2 DEF Past!Refreshed
<1>3. QED
  BY <1>1, <1>2

\* The health page begins with nothing shown and one reading.
LEMMA PastInit == ASSUME Past!Init PROVE PastOk(srv, ui, net)
<1> DEFINE none == [reads |-> {}, test |-> "none", asked |-> 0]
<1>1. PastOk(srv, ui, none)
  BY DEF Past!Init, PastOk, Shown
<1>2. net = Past!Refreshed(none)
  BY DEF Past!Init
<1>3. QED
  BY <1>1, <1>2, Refreshes

\* What happens leaves what was shown and answered true of it.
LEMMA MoreHappened ==
  ASSUME NEW s, NEW u, NEW n, PastOk(s, u, n) PROVE PastOk(s + 1, u, n)
BY DEF PastOk, Shown, Told

\* A reading that is shown takes its place on the screen, and no other is under way.
LEMMA ReadShown ==
  ASSUME PastOk(srv, ui, net), NEW r \in net.reads, Past!ShowRead(r)
  PROVE  PastOk(srv', ui', net') /\ Past!HistoryOnlyAdvances
<1>1. net'.reads = {} /\ {"reads", "test", "asked"} \subseteq DOMAIN net' /\ srv' = srv
  BY DEF PastOk, Past!ShowRead
<1>2. /\ ui'.history = IF r.history = -1 THEN ui.history ELSE r.history
      /\ ui'.events = IF r.events = -1 THEN ui.events ELSE r.events
      /\ {"history", "events", "failed", "loading", "recipient", "sending", "result"} \subseteq DOMAIN ui'
  BY DEF PastOk, Past!ShowRead, Past!Failed
<1>3. r.history # Nothing /\ r.events # Nothing
  BY DEF Past!ShowRead
<1>4. /\ Told(r.history, ui.history, srv) /\ Told(r.events, ui.events, srv)
      /\ Shown(ui.history, srv) /\ Shown(ui.events, srv) /\ srv \in Int
  BY DEF PastOk
<1>5. /\ Shown(ui'.history, srv)
      /\ ui.history # Nothing => ui'.history # Nothing /\ ui'.history >= ui.history
  BY <1>2, <1>3, <1>4 DEF Told, Shown
<1>6. /\ Shown(ui'.events, srv)
      /\ ui.events # Nothing => ui'.events # Nothing /\ ui'.events >= ui.events
  BY <1>2, <1>3, <1>4 DEF Told, Shown
<1>7. QED
  BY <1>1, <1>2, <1>4, <1>5, <1>6 DEF PastOk, Past!HistoryOnlyAdvances

\* A half of a reading is answered with what has happened, or fails.
LEMMA ReadAnswered ==
  ASSUME PastOk(srv, ui, net), NEW r \in net.reads, NEW field \in {"history", "events"},
         Past!AnswerRead(r, field)
  PROVE  PastOk(srv', ui', net')
<1>1. PICK a \in {srv, Past!Failed} : net' = [net EXCEPT !.reads = (@ \ {r}) \cup {[r EXCEPT ![field] = a]}]
  BY DEF Past!AnswerRead
<1>2. srv' = srv /\ ui' = ui
  BY DEF Past!AnswerRead
<1> DEFINE q == [r EXCEPT ![field] = a]
<1>3. /\ {"n", "history", "events"} \subseteq DOMAIN q
      /\ q.history = r.history \/ q.history = a
      /\ q.events = r.events \/ q.events = a
  BY DEF PastOk
<1>4. net'.reads = {q} /\ {"reads", "test", "asked"} \subseteq DOMAIN net'
  BY <1>1 DEF PastOk
<1>5. Told(a, ui.history, srv) /\ Told(a, ui.events, srv)
  BY DEF PastOk, Shown, Told, Past!Failed
<1>6. Told(q.history, ui.history, srv) /\ Told(q.events, ui.events, srv)
  BY <1>3, <1>5 DEF PastOk
<1> HIDE DEF q
<1>7. QED
  BY <1>2, <1>3, <1>4, <1>6 DEF PastOk

\* A page that shows the same numbers, and the readings under way, are as they were.
LEMMA SameShown ==
  ASSUME NEW s, NEW u, NEW n, NEW v, NEW m, PastOk(s, u, n),
         v.history = u.history, v.events = u.events, m.reads = n.reads,
         {"history", "events", "failed", "loading", "recipient", "sending", "result"} \subseteq DOMAIN v,
         {"reads", "test", "asked"} \subseteq DOMAIN m
  PROVE  PastOk(s, v, m)
BY DEF PastOk

\* Every step of the page keeps what it shows behind what it awaits, and goes forward.
LEMMA NextPast ==
  ASSUME PastOk(srv, ui, net), [Past!Next]_<<srv, ui, net>>
  PROVE  PastOk(srv', ui', net') /\ Past!HistoryOnlyAdvances
<1> DEFINE Same == ui'.history = ui.history /\ ui'.events = ui.events
           UiFields == {"history", "events", "failed", "loading", "recipient", "sending", "result"} \subseteq DOMAIN ui'
<1>1. ASSUME Same PROVE Past!HistoryOnlyAdvances
  BY <1>1 DEF PastOk, Shown, Past!HistoryOnlyAdvances
<1>2. CASE UNCHANGED <<srv, ui, net>>
  BY <1>1, <1>2
<1>3. CASE Past!Happen
  BY <1>1, <1>3, MoreHappened DEF Past!Happen
<1>4. CASE Past!Refresh
  <2>1. Same /\ UiFields /\ srv' = srv /\ net' = Past!Refreshed(net)
    BY <1>4 DEF PastOk, Past!Refresh
  <2>2. PastOk(srv, ui, net')
    BY <2>1, Refreshes
  <2>3. QED
    BY <1>1, <2>1, <2>2 DEF PastOk
<1>5. CASE Past!SendTest \/ \E r \in Past!Chosen : Past!Choose(r)
  <2>1. /\ Same /\ UiFields /\ srv' = srv /\ net'.reads = net.reads
        /\ {"reads", "test", "asked"} \subseteq DOMAIN net'
    BY <1>5 DEF PastOk, Past!SendTest, Past!Choose
  <2>2. QED
    BY <1>1, <2>1, SameShown
<1>6. CASE Past!ServeTest
  <2>1. /\ ui' = ui /\ (srv' = srv \/ srv' = srv + 1) /\ net'.reads = net.reads
        /\ {"reads", "test", "asked"} \subseteq DOMAIN net'
    BY <1>6 DEF PastOk, Past!ServeTest
  <2>2. PastOk(srv', ui, net)
    BY <2>1, MoreHappened
  <2>3. QED
    BY <1>1, <2>1, <2>2 DEF PastOk
<1>7. CASE Past!AnswerTest
  <2>1. Same /\ UiFields /\ srv' = srv
    BY <1>7 DEF PastOk, Past!AnswerTest
  <2>2. PICK n : n \in {net, Past!Refreshed(net)} /\ net' = [n EXCEPT !.test = "none"]
    BY <1>7 DEF Past!AnswerTest
  <2>3. PastOk(srv, ui, n)
    BY <2>2, Refreshes
  <2>4. net'.reads = n.reads /\ {"reads", "test", "asked"} \subseteq DOMAIN net'
    BY <2>2, <2>3 DEF PastOk
  <2>5. QED
    BY <1>1, <2>1, <2>3, <2>4, SameShown
<1>8. ASSUME NEW r \in net.reads, NEW field \in {"history", "events"}, Past!AnswerRead(r, field)
      PROVE  PastOk(srv', ui', net') /\ Past!HistoryOnlyAdvances
  BY <1>1, <1>8, ReadAnswered DEF Past!AnswerRead
<1>9. QED
  BY <1>2, <1>3, <1>4, <1>5, <1>6, <1>7, <1>8, ReadShown DEF Past!Next

-----------------------------------------------------------------------------
(* The card of a match: its row and its menu share the actions.                *)

\* What a card shows of its match, typed.
CardMatch(m) ==
  {"product", "priced", "target", "snoozed"} \subseteq DOMAIN m /\ m.product \in BOOLEAN /\ m.priced \in BOOLEAN
DrawnOk(s, u, n) ==
  /\ CardMatch(s) /\ CardMatch(u.match)
  /\ {"match", "narrow", "menu", "focus", "form", "input", "error"} \subseteq DOMAIN u /\ u.narrow \in BOOLEAN
  /\ {"target", "snooze", "ops"} \subseteq DOMAIN n

\* The card begins with the match it was mounted with.
LEMMA CardInit == ASSUME Card!Init PROVE DrawnOk(srv, ui, net)
BY DEF Card!Init, DrawnOk, CardMatch

\* What the row offers and what the menu offers are all the actions, each once.
LEMMA CardOffers == ASSUME DrawnOk(srv, ui, net) PROVE Card!OfferedOnce
<1>1. ui.match.product \in BOOLEAN /\ ui.match.priced \in BOOLEAN /\ ui.narrow \in BOOLEAN
  BY DEF DrawnOk, CardMatch
<1>2. CASE ui.match.product = FALSE
  BY <1>2 DEF Card!OfferedOnce, Card!InRow, Card!InMenu, Card!CanCorrect
<1>3. CASE ui.match.product = TRUE
  <2>1. CASE ui.match.priced = FALSE /\ ui.narrow = FALSE
    BY <1>3, <2>1 DEF Card!OfferedOnce, Card!InRow, Card!InMenu, Card!CanCorrect
  <2>2. CASE ui.match.priced = FALSE /\ ui.narrow = TRUE
    BY <1>3, <2>2 DEF Card!OfferedOnce, Card!InRow, Card!InMenu, Card!CanCorrect
  <2>3. CASE ui.match.priced = TRUE /\ ui.narrow = FALSE
    BY <1>3, <2>3 DEF Card!OfferedOnce, Card!InRow, Card!InMenu, Card!CanCorrect
  <2>4. CASE ui.match.priced = TRUE /\ ui.narrow = TRUE
    BY <1>3, <2>4 DEF Card!OfferedOnce, Card!InRow, Card!InMenu, Card!CanCorrect
  <2>5. QED
    BY <1>1, <2>1, <2>2, <2>3, <2>4
<1>4. QED
  BY <1>1, <1>2, <1>3

\* Every step of the card keeps its match typed and the draft that was typed.
LEMMA NextCard ==
  ASSUME DrawnOk(srv, ui, net), [Card!Next]_<<srv, ui, net>>
  PROVE  DrawnOk(srv', ui', net') /\ Card!DraftIsKept
<1> DEFINE Goal == DrawnOk(srv', ui', net') /\ Card!DraftIsKept
<1>1. CASE UNCHANGED <<srv, ui, net>>
  BY <1>1 DEF Card!DraftIsKept
<1>2. CASE Card!Resize \/ Card!Redraw
  <2>1. PICK u : ui' = Card!Drawn(u) /\ UNCHANGED net /\ UNCHANGED srv /\
           ((u = [ui EXCEPT !.narrow = ~@]) \/ (u = [ui EXCEPT !.match = srv]))
    BY <1>2 DEF Card!Resize, Card!Redraw
  <2>2. /\ DrawnOk(srv, u, net) /\ u.input = ui.input
        /\ {"match", "narrow", "menu", "focus", "form", "input", "error"} \subseteq DOMAIN u
    BY <2>1 DEF DrawnOk
  <2>3. DrawnOk(srv, ui', net) /\ ui'.input = u.input
    BY <2>1, <2>2 DEF DrawnOk, Card!Drawn
  <2>4. QED
    BY <2>1, <2>2, <2>3 DEF Card!DraftIsKept, DrawnOk
<1>3. CASE Card!ToggleMenu \/ Card!Escape \/ Card!Leave \/ Card!ToggleForm \/ Card!CancelForm
  <2>1. ui'.input = ui.input /\ DrawnOk(srv, ui', net)
    BY <1>3 DEF DrawnOk, Card!ToggleMenu, Card!Escape, Card!Leave, Card!ToggleForm, Card!CancelForm
  <2>2. srv' = srv /\ net' = net
    BY <1>3 DEF Card!ToggleMenu, Card!Escape, Card!Leave, Card!ToggleForm, Card!CancelForm
  <2>3. QED
    BY <2>1, <2>2 DEF Card!DraftIsKept
<1>4. ASSUME NEW a \in Card!Actions, Card!Pick(a) PROVE Goal
  <2>1. ui'.input = ui.input /\ DrawnOk(srv, ui', net) /\ srv' = srv
    BY <1>4 DEF DrawnOk, Card!Pick
  <2>2. net'.target = net.target /\ {"target", "snooze", "ops"} \subseteq DOMAIN net'
    BY <1>4 DEF DrawnOk, Card!Pick, Card!Snoozed
  <2>3. QED
    BY <2>1, <2>2 DEF Card!DraftIsKept, DrawnOk
<1>5. CASE Card!SnoozeInRow
  BY <1>5 DEF DrawnOk, Card!SnoozeInRow, Card!Snoozed, Card!DraftIsKept
<1>6. CASE Card!Submit
  <2>1. ui'.input = ui.input /\ DrawnOk(srv, ui', net) /\ srv' = srv /\ Card!FormShown(ui)
    BY <1>6 DEF DrawnOk, Card!Submit
  <2>2. /\ net'.target = net.target \/ net'.target = net.target \cup {ui.input}
        /\ {"target", "snooze", "ops"} \subseteq DOMAIN net'
    BY <1>6 DEF DrawnOk, Card!Submit
  <2>3. QED
    BY <2>1, <2>2 DEF Card!DraftIsKept, DrawnOk
<1>7. ASSUME NEW v, Card!Type(v) PROVE Goal
  BY <1>7 DEF DrawnOk, Card!Type, Card!DraftIsKept
<1>8. ASSUME NEW v, Card!ServeTarget(v) \/ Card!ServeSnooze(v) PROVE Goal
  BY <1>8 DEF DrawnOk, CardMatch, Card!ServeTarget, Card!ServeSnooze, Card!DraftIsKept
<1>9. CASE Card!EditElsewhere
  <2>1. CardMatch(srv') /\ ui' = ui /\ net' = [net EXCEPT !.ops = @ + 1]
    BY <1>9 DEF DrawnOk, CardMatch, Card!EditElsewhere
  <2>2. QED
    BY <2>1 DEF DrawnOk, Card!DraftIsKept
<1>10. QED
  BY <1>1, <1>2, <1>3, <1>4, <1>5, <1>6, <1>7, <1>8, <1>9 DEF Card!Next

-----------------------------------------------------------------------------
(* The theorems                                                               *)

\* The panel follows one part, which takes the steps of its module.
LEMMA PageStays ==
  ASSUME [Next]_vars
  PROVE  /\ part' = part
         /\ part = "product" => [Product!Next]_<<srv, ui, net>>
         /\ part = "table" => [Table!Next]_<<srv, ui, net>>
         /\ part = "form" => [Form!Next]_<<srv, ui, net>>
         /\ part = "people" => [People!Next]_<<srv, ui, net>>
         /\ part = "links" => [Links!Next]_<<srv, ui, net>>
         /\ part = "listener" => [Listener!Next]_<<srv, ui, net>>
         /\ part = "rails" => [Rails!Next]_<<srv, ui, net>>
         /\ part = "history" => [History!Next]_<<srv, ui, net>>
         /\ part = "economy" => [Economy!Next]_<<srv, ui, net>>
         /\ part = "past" => [Past!Next]_<<srv, ui, net>>
         /\ part = "card" => [Card!Next]_<<srv, ui, net>>
BY DEF Next, vars

\* An answer is shown only where what it was asked about still is: the product in the
\* panel, the open row, the rule in the tester, the draft of a card, the text of the
\* search, whatever was opened, closed or typed while it was awaited.
THEOREM AnswersAreOfTheirPage == Spec => []AnswersAreOfWhatIsOpen
<1> DEFINE Inv == /\ part = "product" => ProductOk(ui, net)
                  /\ part = "table" => TableOk(ui)
                  /\ part = "form" => FormOk(ui, net)
                  /\ part = "people" => PeopleOk(srv, ui, net)
                  /\ part = "links" => LinksOk(ui, net)
<1>1. Init => Inv
  BY ProductInit, TableInit, FormInit, PeopleInit, LinksInit DEF Init
<1>2. Inv /\ [Next]_vars => Inv'
  BY PageStays, NextProduct, NextTable, NextForm, NextPeople, NextLinks
<1>3. Inv => AnswersAreOfWhatIsOpen
  BY ProductShows, TableShows, FormShows, PeopleShow, LinksShow DEF AnswersAreOfWhatIsOpen
<1> HIDE DEF Inv
<1>4. QED
  BY <1>1, <1>2, <1>3, PTL DEF Spec

\* A notice says what happened: the end of a request to the listener is told once, or
\* twice when a reading of it outran the request's own answer; a link is called expired
\* when nobody used it, unless an answer that somebody did was lost or went to a loop
\* cancelled, or a loop began on a status no longer true; and a step that says it waits
\* for the recipient's /start waits for it, unless its loop failed or ended and none was
\* begun since.
THEOREM NoticesTellWhatHappened == Spec => NoticesAreHonest
<1> DEFINE Inv == /\ part = "listener" => ListenerInv(srv, ui, net)
                  /\ part = "bot" => BotOk(srv, ui, net)
           Tells == /\ part = "listener" => Listener!ToldOnce
                    /\ part = "bot" => Bot!WaitedUnlessEnded
           Expires == part' = part /\ (part = "bot" => Bot!ExpiredIsHonest)
           Honest == /\ part = "listener" => Listener!ToldOnce'
                     /\ part = "bot" => Bot!ExpiredIsHonest /\ Bot!WaitedUnlessEnded'
<1>1. Init => Inv
  BY ListenerInit, BotInit DEF Init
<1>2. Inv /\ [Next]_vars => Inv'
  BY PartStays, PageStays, NextListener, NextBot
<1>3. Inv /\ [Next]_vars => Expires
  BY PartStays, NextBot
<1>4. Inv => Tells
  BY ListenerTells, BotWaits
<1>5. Expires /\ Tells' => Honest
  OBVIOUS
<1> HIDE DEF Inv, Tells, Expires, Honest
<1>6. Spec => [][Honest]_vars
  BY <1>1, <1>2, <1>3, <1>4, <1>5, PTL DEF Spec
<1>7. QED
  BY <1>6 DEF NoticesAreHonest, Honest

\* Nothing is taken from under the administrator's eyes: a rail folds when the page has
\* scrolled past where it ended when it was measured, the filters survive leaving the page, a late title changes no other
\* form, the history goes forward, and a card keeps its draft and all its actions.
THEOREM NothingIsLost == Spec => NothingIsTakenAway
<1> DEFINE Inv == /\ part = "rails" => RailsOk(srv, ui)
                  /\ part = "history" => HistoryOk(ui, net)
                  /\ part = "economy" => EconomyOk(ui)
                  /\ part = "past" => PastOk(srv, ui, net)
                  /\ part = "card" => DrawnOk(srv, ui, net)
           Offers == part = "card" => Card!OfferedOnce
           Keeps == /\ part' = part
                    /\ part = "rails" => Rails!FoldsOncePassed
                    /\ part = "history" => History!FiltersSurvive
                    /\ part = "economy" => Economy!TitleKeepsTheForm
                    /\ part = "past" => Past!HistoryOnlyAdvances
                    /\ part = "card" => Card!DraftIsKept
           Left == /\ part = "rails" => Rails!FoldsOncePassed
                   /\ part = "history" => History!FiltersSurvive
                   /\ part = "economy" => Economy!TitleKeepsTheForm
                   /\ part = "past" => Past!HistoryOnlyAdvances
                   /\ part = "card" => Card!OfferedOnce' /\ Card!DraftIsKept
<1>1. Init => Inv
  BY RailsInit, HistoryInit, EconomyInit, PastInit, CardInit DEF Init
<1>2. Inv /\ [Next]_vars => Inv'
  BY PageStays, NextRails, NextHistory, NextEconomy, NextPast, NextCard
<1>3. Inv /\ [Next]_vars => Keeps
  BY PageStays, NextRails, NextHistory, NextEconomy, NextPast, NextCard
<1>4. Inv => Offers
  BY CardOffers
<1>5. Keeps /\ Offers' => Left
  OBVIOUS
<1> HIDE DEF Inv, Offers, Keeps, Left
<1>6. Spec => [][Left]_vars
  BY <1>1, <1>2, <1>3, <1>4, <1>5, PTL DEF Spec
<1>7. QED
  BY <1>6 DEF NothingIsTakenAway, Left
=============================================================================
