----------------------------- MODULE SourcesPage ----------------------------
(***************************************************************************)
(* The page of the sources (pages/FontesPage.tsx): the table, pausing and  *)
(* deleting a source, and the rail that registers a chat by its id, edits  *)
(* a source, or picks from the groups of the account                       *)
(* (pages/FontesRail.tsx; the scan of the groups is module SetupGroups).   *)
(*                                                                         *)
(* A source is its id, its chat and whether it is active.                  *)
(***************************************************************************)
EXTENDS Integers, FiniteSets

CONSTANTS Ids,       \* source ids
          Chats,     \* chats, all of them groups of the account
          MaxOps,    \* bound: calls
          Nothing    \* null

MaxReads == 2        \* bound: readings under way

VARIABLES srv, ui, net
vars == <<srv, ui, net>>

Source == [chat: Chats, active: BOOLEAN]
IsSources(f) == DOMAIN f \subseteq Ids /\ \A i \in DOMAIN f : f[i] \in Source
Registered(f) == {f[i].chat : i \in DOMAIN f}
Monitored(f) == {f[i].chat : i \in {j \in DOMAIN f : f[j].active}}

TypeOK ==
  /\ IsSources(srv) /\ IsSources(ui.sources)
  /\ ui.loading \in BOOLEAN /\ ui.listError \in BOOLEAN
  /\ ui.edit \in Ids \cup {Nothing} /\ ui.pausing \in Ids \cup {Nothing}
  /\ ui.del \in Ids \cup {Nothing} /\ ui.deleting \in BOOLEAN
  /\ ui.tab \in {"account", "chat"} /\ ui.submitting \in BOOLEAN /\ ui.formError \in BOOLEAN
  /\ ui.groups = Nothing \/ ui.groups.monitored \subseteq Chats
  /\ ui.selected \subseteq Chats /\ ui.adding \in BOOLEAN
  /\ Cardinality(net.reads) <= MaxReads
  /\ \A c \in net.calls : c.op \in {"pause", "delete", "create", "edit", "add"} /\ c.st \in {"sent", "ok", "error"}
  /\ net.late \in BOOLEAN /\ net.lost \in BOOLEAN /\ net.ops \in 0..MaxOps

\* reload: the list and, as decoration, the activity.
Reloading(u) == [u EXCEPT !.loading = TRUE]
Reloaded(n) ==
  [n EXCEPT !.reads = {[r EXCEPT !.last = FALSE] : r \in @}
                        \cup {[last |-> TRUE, list |-> Nothing]}]
CanRead == Cardinality(net.reads) < MaxReads
CanAct == net.ops < MaxOps

\* Nothing registered yet, or one source; the wizard is done, so the rail starts
\* on the groups of the account.
Init ==
  /\ \E some \in {{}} \cup {{i} : i \in Ids}, chat \in Chats : srv = [i \in some |-> [chat |-> chat, active |-> TRUE]]
  /\ ui = [sources |-> <<>>, loading |-> TRUE, listError |-> FALSE,
           edit |-> Nothing, pausing |-> Nothing, del |-> Nothing, deleting |-> FALSE,
           tab |-> "account", submitting |-> FALSE, formError |-> FALSE,
           groups |-> Nothing, selected |-> {}, adding |-> FALSE]
  /\ net = Reloaded([reads |-> {}, calls |-> {}, groups |-> {Nothing},
                     late |-> FALSE, lost |-> FALSE, ops |-> 0])

-----------------------------------------------------------------------------
(* The table                                                               *)

\* The activity is a request of its own; one that fails is none, and the table is
\* shown without.
AnswerRead(r) ==
  /\ r.list = Nothing
  /\ net' = [net EXCEPT !.reads = (@ \ {r}) \cup {[r EXCEPT !.list = [now |-> srv]]}]
  /\ UNCHANGED <<srv, ui>>
ShowRead(r) ==
  /\ r.list # Nothing
  /\ ui' = [ui EXCEPT !.sources = r.list.now, !.loading = FALSE, !.listError = FALSE]
  /\ net' = [net EXCEPT !.reads = @ \ {r}, !.late = ~r.last]
  /\ UNCHANGED srv
FailRead(r) ==
  /\ r.list = Nothing
  /\ ui' = [ui EXCEPT !.loading = FALSE, !.listError = TRUE]
  /\ net' = [net EXCEPT !.reads = @ \ {r}]
  /\ UNCHANGED srv

\* A row, when the table is there and nothing covers it.
HasRow(i) == ~ui.loading /\ ~ui.listError /\ i \in DOMAIN ui.sources /\ ui.del = Nothing
Sent(op, of, chats) ==
  [net EXCEPT !.ops = @ + 1,
              !.calls = @ \cup {[n |-> net.ops, op |-> op, of |-> of, chats |-> chats, st |-> "sent"]}]

Pause(i) ==
  /\ CanAct /\ HasRow(i) /\ ui.sources[i].active /\ ui.pausing # i
  /\ ui' = [ui EXCEPT !.pausing = i]
  /\ net' = Sent("pause", i, {})
  /\ UNCHANGED srv
AskDelete(i) ==
  /\ HasRow(i)
  /\ ui' = [ui EXCEPT !.del = i]
  /\ UNCHANGED <<srv, net>>
CancelDelete ==
  /\ ui.del # Nothing /\ ~ui.deleting
  /\ ui' = [ui EXCEPT !.del = Nothing]
  /\ UNCHANGED <<srv, net>>
ConfirmDelete ==
  /\ CanAct /\ ui.del # Nothing /\ ~ui.deleting
  /\ ui' = [ui EXCEPT !.deleting = TRUE]
  /\ net' = Sent("delete", ui.del, {})
  /\ UNCHANGED srv

-----------------------------------------------------------------------------
(* The rail                                                                *)

\* Editing is on the tab of the chat id, whichever was chosen.
OnTab == IF ui.edit # Nothing THEN "chat" ELSE ui.tab
\* Another form, or the list of groups again: what it knew is gone, and the
\* groups are asked for.
Remounted(u) == [u EXCEPT !.submitting = FALSE, !.formError = FALSE,
                          !.groups = Nothing, !.selected = {}, !.adding = FALSE]
Edit(i) ==
  /\ HasRow(i)
  /\ ui' = IF ui.edit = i THEN ui ELSE [Remounted(ui) EXCEPT !.edit = i]
  /\ net' = [net EXCEPT !.groups = {}]
  /\ UNCHANGED srv
\* "+ Nova fonte", "Cancelar" and, when a tab is chosen, that tab.
LeaveEdit(tab) ==
  /\ ui.edit # Nothing /\ ui.del = Nothing
  /\ ui' = [Remounted(ui) EXCEPT !.edit = Nothing, !.tab = tab]
  /\ net' = [net EXCEPT !.groups = IF tab = "account" THEN {Nothing} ELSE {}]
  /\ UNCHANGED srv
SelectTab(tab) ==
  /\ ui.edit = Nothing /\ tab # ui.tab /\ ui.del = Nothing
  /\ ui' = [Remounted(ui) EXCEPT !.tab = tab]
  /\ net' = [net EXCEPT !.groups = IF tab = "account" THEN {Nothing} ELSE {}]
  /\ UNCHANGED srv
Submit(chat) ==
  /\ CanAct /\ OnTab = "chat" /\ ~ui.submitting /\ ui.del = Nothing
  /\ ui' = [ui EXCEPT !.submitting = TRUE, !.formError = FALSE]
  /\ net' = Sent(IF ui.edit = Nothing THEN "create" ELSE "edit", ui.edit, {chat})
  /\ UNCHANGED srv

\* load in the tab of the account
AnswerGroups ==
  /\ Nothing \in net.groups
  /\ net' = [net EXCEPT !.groups = {[monitored |-> Monitored(srv)]}]
  /\ UNCHANGED <<srv, ui>>
ShowGroups(g) ==
  /\ g # Nothing
  /\ ui' = [ui EXCEPT !.groups = g]
  /\ net' = [net EXCEPT !.groups = {}]
  /\ UNCHANGED srv
FailGroups ==
  /\ Nothing \in net.groups
  /\ net' = [net EXCEPT !.groups = {}]
  /\ UNCHANGED <<srv, ui>>
Already(chat) == chat \in ui.groups.monitored \cup Registered(ui.sources)
Toggle(chat) ==
  /\ OnTab = "account" /\ ui.groups # Nothing /\ ~Already(chat) /\ ui.del = Nothing
  /\ ui' = [ui EXCEPT !.selected = IF chat \in @ THEN @ \ {chat} ELSE @ \cup {chat}]
  /\ UNCHANGED <<srv, net>>
Add ==
  /\ CanAct /\ OnTab = "account" /\ ui.selected # {} /\ ~ui.adding /\ ui.del = Nothing
  /\ ui' = [ui EXCEPT !.adding = TRUE]
  /\ net' = Sent("add", Nothing, ui.selected)
  /\ UNCHANGED srv

-----------------------------------------------------------------------------
(* The api: routers/sources.py, and select_groups of routers/setup.py      *)

Others(i) == {j \in DOMAIN srv : j # i}
With(f, chats) ==
  {[i \in DOMAIN f \cup DOMAIN new |-> IF i \in DOMAIN new THEN [chat |-> new[i], active |-> TRUE] ELSE f[i]] :
     new \in UNION {{g \in [is -> chats] : \A c \in chats : \E i \in is : g[i] = c} :
                      is \in {s \in SUBSET (Ids \ DOMAIN f) : Cardinality(s) = Cardinality(chats)}}}
Served(c) ==
  CASE c.op = "pause" /\ c.of \in DOMAIN srv -> {[srv EXCEPT ![c.of].active = FALSE]}
    [] c.op = "delete" /\ c.of \in DOMAIN srv -> {[i \in Others(c.of) |-> srv[i]]}
    [] c.op = "create" /\ c.chats \cap Registered(srv) = {} -> With(srv, c.chats)
    [] c.op = "edit" /\ c.of \in DOMAIN srv /\ \A j \in Others(c.of) : srv[j].chat \notin c.chats ->
         {[srv EXCEPT ![c.of].chat = CHOOSE chat \in c.chats : TRUE]}
    [] c.op = "add" ->    \* a paused one is active again
         With([i \in DOMAIN srv |-> [srv[i] EXCEPT !.active = @ \/ srv[i].chat \in c.chats]],
              c.chats \ Registered(srv))
    [] OTHER -> {}
CallIs(c, st) == [net EXCEPT !.calls = (@ \ {c}) \cup {[c EXCEPT !.st = st]}]
Gone(c) == [net EXCEPT !.calls = @ \ {c}]
Serve(c) ==
  /\ c.st = "sent"
  /\ srv' \in Served(c)
  /\ net' = CallIs(c, "ok")
  /\ UNCHANGED ui
\* The api refuses, is not reached, or its answer is lost after it did it.
ServeFails(c) ==
  /\ c.st = "sent"
  /\ \/ UNCHANGED srv /\ net' = CallIs(c, "error")
     \/ srv' \in Served(c) /\ net' = [CallIs(c, "error") EXCEPT !.lost = TRUE]
  /\ UNCHANGED ui

\* What goes on after each call, in a component that may be gone by then: only
\* what it does through the page is seen.
Ended(u, c) ==
  CASE c.op = "pause" -> [u EXCEPT !.pausing = Nothing]
    [] c.op = "delete" -> [u EXCEPT !.deleting = FALSE, !.del = Nothing]
    [] c.op = "add" -> [u EXCEPT !.adding = FALSE]
    [] OTHER -> IF u.edit = c.of THEN [u EXCEPT !.submitting = FALSE] ELSE u
Done(u, c) ==
  CASE c.op = "delete" -> IF u.edit = c.of THEN [Remounted(u) EXCEPT !.edit = Nothing] ELSE u
    [] c.op = "edit" -> IF u.edit = Nothing THEN u ELSE [Remounted(u) EXCEPT !.edit = Nothing]
    [] c.op = "add" -> [u EXCEPT !.selected = {}]
    [] OTHER -> u
\* The groups are read again by the tab that added some, and by one that is back.
AskedGroups(n, before, c) ==
  IF (c.op = "add" \/ before.edit # Nothing) /\ ui'.edit = Nothing /\ ui'.tab = "account"
    THEN [n EXCEPT !.groups = {Nothing}] ELSE n
Answer_NoReload(c) ==
  /\ c.st = "ok" /\ CanRead
  /\ ui' = Ended(Done(ui, c), c)
  /\ net' = AskedGroups(Gone(c), ui, c)
  /\ UNCHANGED srv
Answer(c) ==
  /\ c.st = "ok" /\ CanRead
  /\ ui' = Reloading(Ended(Done(ui, c), c))
  /\ net' = AskedGroups(Reloaded(Gone(c)), ui, c)
  /\ UNCHANGED srv
AnswerFailure(c) ==
  /\ c.st = "error"
  /\ ui' = CASE c.op \in {"pause", "delete"} -> Ended([ui EXCEPT !.listError = TRUE], c)
             [] OTHER -> IF c.op = "add" \/ ui.edit = c.of THEN Ended([ui EXCEPT !.formError = TRUE], c) ELSE ui
  /\ net' = Gone(c)
  /\ UNCHANGED srv

Next ==
  \/ \E r \in net.reads : AnswerRead(r) \/ ShowRead(r) \/ FailRead(r)
  \/ \E i \in Ids : Pause(i) \/ AskDelete(i) \/ Edit(i)
  \/ CancelDelete \/ ConfirmDelete \/ AnswerGroups \/ FailGroups \/ Add
  \/ \E tab \in {"account", "chat"} : LeaveEdit(tab) \/ SelectTab(tab)
  \/ \E chat \in Chats : Submit(chat) \/ Toggle(chat)
  \/ \E g \in net.groups : ShowGroups(g)
  \/ \E c \in net.calls : Serve(c) \/ ServeFails(c) \/ Answer(c) \/ AnswerFailure(c)

Spec == Init /\ [][Next]_vars

-----------------------------------------------------------------------------
(* Properties                                                              *)

Quiet == net.reads = {} /\ net.calls = {} /\ net.groups = {} /\ ~ui.listError

\* Once nothing is awaited the table shows the sources of the api, and no group
\* that is a source is offered to be added, unless an answer was lost or an
\* older one came last.
SourcesAreCurrent ==
  Quiet /\ ~net.late /\ ~net.lost =>
    /\ ui.sources = srv
    /\ ui.groups # Nothing => \A i \in DOMAIN srv : Already(srv[i].chat)
=============================================================================
