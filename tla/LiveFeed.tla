------------------------------ MODULE LiveFeed ------------------------------
(***************************************************************************)
(* The list of the live feed (pages/FeedPage.tsx) from the moment the page *)
(* is mounted: hooks/useLiveMatches.ts, which reads the whole list again   *)
(* on every event of /events, the silence and grouping switches, and the   *)
(* confirmed deletion (hooks/useDeleteListing.tsx).  Its rails are module  *)
(* FeedRails, one card is module MatchCard.                                *)
(*                                                                         *)
(* srv is what the api would answer, ui the React state of the page, net   *)
(* what is under way between them.  A read of the list is asked, answered  *)
(* and shown in three steps and two of them may overtake each other; the   *)
(* two other lookups are answered and shown in one.  A match is its        *)
(* number, the newest the largest; of a card only what decides its buttons *)
(* is kept, whether it is snoozed.                                         *)
(***************************************************************************)
EXTENDS Integers, FiniteSets, Sequences

CONSTANTS MaxMatch,      \* bound: matches ever found
          Rules,         \* rules
          Products,      \* product keys
          RuleOf,        \* match -> its rule
          ProductOf,     \* match -> its product
          MessageOf,     \* match -> the Telegram message it was found in
          MaxOps,        \* bound: calls of the administrator
          Nothing        \* null

MaxReads == 2            \* bound: reads of the list under way
MatchIds == 1..MaxMatch
Scopes == Rules \cup Products

VARIABLES srv, ui, net
vars == <<srv, ui, net>>

-----------------------------------------------------------------------------
(* The api's answers                                                       *)

\* A card is snoozed through its rule or through its product.
Snoozed(m) == RuleOf[m] \in srv.snoozes \/ ProductOf[m] \in srv.snoozes

\* With "agrupar duplicatas" on, the newest stands for the others.
Listed == IF srv.group
            THEN {m \in srv.present : \A n \in srv.present : ProductOf[n] = ProductOf[m] => n <= m}
            ELSE srv.present
List == [m \in Listed |-> Snoozed(m)]

\* Something is published: to a connected page, to the history of a broker that
\* can replay it to a page that has an event id, or to nobody.
Published(n, type) ==
  IF ui.conn = "open" THEN [n EXCEPT !.events = Append(@, type)]
  ELSE IF n.lastId THEN [n EXCEPT !.missed = TRUE]
  ELSE [n EXCEPT !.blind = TRUE]

\* A deletion takes the siblings found in the same message along.
Siblings(m) == {n \in srv.present : MessageOf[n] = MessageOf[m]}
OfProduct(k) == {m \in srv.present : ProductOf[m] = k}

\* What a write does, and whether it finds what it is about.
Found(c) ==
  CASE c.op = "reactivate" -> c.scope \in srv.snoozes
    [] c.op = "deleteMatch" -> c.match \in srv.present
    [] c.op = "deleteProduct" -> OfProduct(c.scope) # {}
    [] OTHER -> TRUE
Effect(c) ==
  CASE c.op = "snooze" -> [srv EXCEPT !.snoozes = @ \cup {c.scope}]
    [] c.op = "reactivate" -> [srv EXCEPT !.snoozes = @ \ {c.scope}]
    [] c.op = "group" -> [srv EXCEPT !.group = ~@]
    [] c.op = "deleteMatch" -> [srv EXCEPT !.present = @ \ Siblings(c.match)]
    [] c.op = "deleteProduct" -> [srv EXCEPT !.present = @ \ OfProduct(c.scope)]

-----------------------------------------------------------------------------
(* The page                                                                *)

Deletions == {"deleteMatch", "deleteProduct"}
Ops == {"snooze", "reactivate", "group"} \cup Deletions
NoMatch == 0

\* A call, and a deletion dialog, name what they are about.
Target == [op: Ops, match: MatchIds \cup {NoMatch}, scope: Scopes \cup {Nothing}]
OfMatch(op, m) == [op |-> op, match |-> m, scope |-> Nothing]
OfScope(op, s) == [op |-> op, match |-> NoMatch, scope |-> s]

TypeOK ==
  /\ srv \in [present: SUBSET MatchIds, found: 0..MaxMatch, snoozes: SUBSET Scopes, group: BOOLEAN]
  /\ DOMAIN ui.list \subseteq MatchIds /\ \A m \in DOMAIN ui.list : ui.list[m] \in BOOLEAN
  /\ ui.loading \in BOOLEAN /\ ui.error \in BOOLEAN
  /\ ui.conn \in {"connecting", "open", "error"}
  /\ ui.snoozes \subseteq Scopes
  /\ ui.dialog = Nothing \/ (ui.dialog \in Target /\ ui.dialog.op \in Deletions)
  /\ ui.busy \in BOOLEAN
  /\ \A r \in net.reads : r.last \in BOOLEAN /\ r.answered \in BOOLEAN
  /\ net.late \in BOOLEAN /\ net.lookup \in BOOLEAN
  /\ \A c \in net.calls : c.about \in Target /\ c.st \in {"sent", "ok", "404", "error", "after"}
  /\ net.ops \in 0..MaxOps

\* useLiveMatches.reload: one more read of the whole list.
Reloaded(n) ==
  [n EXCEPT !.reads = {[r EXCEPT !.last = FALSE] : r \in @}
                        \cup {[last |-> TRUE, answered |-> FALSE, list |-> <<>>]}]
CanRead(n) == Cardinality(n.reads) < MaxReads

EmptyPage == [list |-> <<>>, loading |-> TRUE, error |-> FALSE, conn |-> "connecting",
              snoozes |-> {}, dialog |-> Nothing, busy |-> FALSE]

\* The page is mounted: it asks for the list and for what the rails show.
Init ==
  /\ \E snoozes \in {{}} \cup {{s} : s \in Scopes} :
       srv = [present |-> 1..(MaxMatch - 1), found |-> MaxMatch - 1, snoozes |-> snoozes, group |-> FALSE]
  /\ ui = EmptyPage
  /\ net = Reloaded([reads |-> {}, late |-> FALSE, lookup |-> TRUE, events |-> <<>>,
                     lastId |-> FALSE, missed |-> FALSE, blind |-> FALSE, calls |-> {}, ops |-> 0])

-----------------------------------------------------------------------------
(* The list                                                                *)

AnswerRead(r) ==
  /\ ~r.answered
  /\ net' = [net EXCEPT !.reads = (@ \ {r}) \cup {[r EXCEPT !.answered = TRUE, !.list = List]}]
  /\ UNCHANGED <<srv, ui>>

\* A full replace, in the order the answers come.
ShowRead(r) ==
  /\ r.answered
  /\ ui' = [ui EXCEPT !.list = r.list, !.error = FALSE, !.loading = FALSE]
  /\ net' = [net EXCEPT !.reads = @ \ {r}, !.late = ~r.last]
  /\ UNCHANGED srv

FailRead(r) ==
  /\ ~r.answered
  /\ ui' = [ui EXCEPT !.error = TRUE, !.loading = FALSE]
  /\ net' = [net EXCEPT !.reads = @ \ {r}]
  /\ UNCHANGED srv

\* The stream's three events all mean the same: read the list again.
Heard_NoDeletions == {"match", "resync"}
Heard == {"match", "match_deleted", "resync"}
Event ==
  /\ net.events # <<>> /\ CanRead(net)
  /\ LET rest == [net EXCEPT !.events = Tail(@), !.lastId = TRUE] IN
     net' = IF Head(net.events) \in Heard THEN Reloaded(rest) ELSE rest
  /\ UNCHANGED <<srv, ui>>

\* onopen: a reconnection with an event id replays what was missed, or resyncs.
StreamOpens ==
  /\ ui.conn # "open"
  /\ ui' = [ui EXCEPT !.conn = "open"]
  /\ net' = [net EXCEPT !.missed = FALSE, !.events = IF net.missed THEN Append(@, "resync") ELSE @]
  /\ UNCHANGED srv

\* onerror: the browser reconnects by itself; events on the wire are lost with
\* the connection, to be replayed if the browser holds an event id.
StreamFails ==
  /\ ui.conn = "open"
  /\ ui' = [ui EXCEPT !.conn = "error"]
  /\ net' = LET lost == net.events # <<>> IN
            [net EXCEPT !.events = <<>>, !.missed = @ \/ (lost /\ net.lastId),
                        !.blind = @ \/ (lost /\ ~net.lastId)]
  /\ UNCHANGED srv

\* "Atualizar".
Refresh ==
  /\ CanRead(net) /\ net.ops < MaxOps
  /\ net' = Reloaded([net EXCEPT !.ops = @ + 1])
  /\ UNCHANGED <<srv, ui>>

\* listSnoozes: a lookup that fails leaves an empty list.
Lookup(ok) ==
  /\ net.lookup
  /\ ui' = [ui EXCEPT !.snoozes = IF ok THEN srv.snoozes ELSE {}]
  /\ net' = [net EXCEPT !.lookup = FALSE]
  /\ UNCHANGED srv

-----------------------------------------------------------------------------
(* The administrator's actions                                             *)

\* The grid is there once the list was loaded, and only without an error; the
\* open dialog covers it.
Shown == ~ui.loading /\ ~ui.error /\ ui.dialog = Nothing

Call(n, about, st) ==
  [n EXCEPT !.ops = @ + 1, !.calls = @ \cup {[about |-> about, st |-> st, n |-> n.ops]}]
CanCall == net.ops < MaxOps

\* The card's "Silenciar" / "Reativar": a card that says it is snoozed looks its
\* product up in the rail's list, and without it there is nothing to call.
Existing(m) == ProductOf[m] \in ui.snoozes
CardSnooze(m) ==
  /\ Shown /\ CanCall
  /\ ~ui.list[m]
  /\ net' = Call(net, OfScope("snooze", ProductOf[m]), "sent")
  /\ UNCHANGED <<srv, ui>>
CardReactivate(m) ==
  /\ Shown /\ CanCall
  /\ ui.list[m]
  /\ net' = Call(net, OfScope("reactivate", ProductOf[m]), IF Existing(m) THEN "sent" ELSE "ok")
  /\ UNCHANGED <<srv, ui>>

\* The rail's "Reativar".
RailReactivate(s) ==
  /\ Shown /\ s \in ui.snoozes /\ CanCall
  /\ net' = Call(net, OfScope("reactivate", s), "sent")
  /\ UNCHANGED <<srv, ui>>

\* "Agrupar duplicatas"; the switch itself is in module FeedRails.
ToggleGroup ==
  /\ CanCall
  /\ net' = Call(net, OfScope("group", Nothing), "sent")
  /\ UNCHANGED <<srv, ui>>

\* "Excluir anúncio" of a card, "Excluir" of the product panel: behind a dialog.
AskDelete(target) ==
  /\ Shown
  /\ ui' = [ui EXCEPT !.dialog = target]
  /\ UNCHANGED <<srv, net>>

\* "Cancelar" and Esc, both disabled while the deletion is under way.
CancelDelete ==
  /\ ui.dialog # Nothing /\ ~ui.busy
  /\ ui' = [ui EXCEPT !.dialog = Nothing]
  /\ UNCHANGED <<srv, net>>

ConfirmDelete ==
  /\ ui.dialog # Nothing /\ ~ui.busy /\ CanCall
  /\ ui' = [ui EXCEPT !.busy = TRUE]
  /\ net' = Call(net, ui.dialog, "sent")
  /\ UNCHANGED srv

-----------------------------------------------------------------------------
(* A call is served, and its handler goes on                               *)

With(c, st) == [net EXCEPT !.calls = (@ \ {c}) \cup {[c EXCEPT !.st = st]}]
Without(c) == [net EXCEPT !.calls = @ \ {c}]
Deletes(c) == c.about.op \in Deletions

Serve(c) ==
  /\ c.st = "sent" /\ Found(c.about)
  /\ srv' = Effect(c.about)
  /\ net' = IF Deletes(c) THEN Published(With(c, "ok"), "match_deleted") ELSE With(c, "ok")
  /\ UNCHANGED ui
ServeGone(c) ==
  /\ c.st = "sent" /\ ~Found(c.about)
  /\ net' = With(c, "404")
  /\ UNCHANGED <<srv, ui>>
ServeFails(c) ==
  /\ c.st = "sent"
  /\ net' = With(c, "error")
  /\ UNCHANGED <<srv, ui>>

\* Silence and reactivation: say so, look the silences up again and wait for
\* them, then read the feed again.
AnswerSnooze(c) ==
  /\ c.st = "ok" /\ c.about.op \in {"snooze", "reactivate"}
  /\ net' = [With(c, "after") EXCEPT !.lookup = TRUE]
  /\ UNCHANGED <<srv, ui>>
Refreshed(c) ==
  /\ c.st = "after" /\ ~net.lookup /\ CanRead(net)
  /\ net' = Reloaded(Without(c))
  /\ UNCHANGED <<srv, ui>>

\* The feed is read again, grouped or not.
AnswerGroup(c) ==
  /\ c.st = "ok" /\ c.about.op = "group" /\ CanRead(net)
  /\ net' = Reloaded(Without(c))
  /\ UNCHANGED <<srv, ui>>

\* Deleted, or already gone: the dialog closes and the list is read again.
AnswerDelete(c) ==
  /\ Deletes(c) /\ c.st \in {"ok", "404"} /\ CanRead(net)
  /\ ui' = [ui EXCEPT !.dialog = Nothing, !.busy = FALSE]
  /\ net' = Reloaded(Without(c))
  /\ UNCHANGED srv

\* A failure is told; the deletion dialog stays, and can be tried again.
AnswerFailure(c) ==
  /\ c.st = "error" \/ (c.st = "404" /\ ~Deletes(c))
  /\ ui' = [ui EXCEPT !.busy = IF Deletes(c) THEN FALSE ELSE @]
  /\ net' = Without(c)
  /\ UNCHANGED srv

-----------------------------------------------------------------------------
(* Meanwhile, on the server                                                *)

NewMatch ==
  /\ srv.found < MaxMatch
  /\ srv' = [srv EXCEPT !.found = @ + 1, !.present = @ \cup {srv.found + 1}]
  /\ net' = Published(net, "match")
  /\ UNCHANGED ui

\* Another tab deletes a listing.
OtherDelete(m) ==
  /\ srv' = [srv EXCEPT !.present = @ \ Siblings(m)]
  /\ net' = Published(net, "match_deleted")
  /\ UNCHANGED ui

\* A silence ends by the clock, or is lifted in another tab: nothing is published.
SnoozeLapses(s) ==
  /\ srv' = [srv EXCEPT !.snoozes = @ \ {s}]
  /\ UNCHANGED <<ui, net>>

DeletionsOffered ==
  {OfMatch("deleteMatch", m) : m \in DOMAIN ui.list} \cup {OfScope("deleteProduct", ProductOf[m]) : m \in DOMAIN ui.list}

Next ==
  \/ \E r \in net.reads : AnswerRead(r) \/ ShowRead(r) \/ FailRead(r)
  \/ Event \/ StreamOpens \/ StreamFails \/ Refresh
  \/ \E ok \in BOOLEAN : Lookup(ok)
  \/ \E m \in DOMAIN ui.list : CardSnooze(m) \/ CardReactivate(m)
  \/ \E target \in DeletionsOffered : AskDelete(target)
  \/ \E s \in ui.snoozes : RailReactivate(s)
  \/ ToggleGroup \/ CancelDelete \/ ConfirmDelete
  \/ \E c \in net.calls : \/ Serve(c) \/ ServeGone(c) \/ ServeFails(c)
                          \/ AnswerSnooze(c) \/ Refreshed(c) \/ AnswerGroup(c)
                          \/ AnswerDelete(c) \/ AnswerFailure(c)
  \/ NewMatch
  \/ \E m \in srv.present : OtherDelete(m)
  \/ \E s \in srv.snoozes : SnoozeLapses(s)

Spec == Init /\ [][Next]_vars

-----------------------------------------------------------------------------
(* Properties                                                              *)

\* Nothing that could change the list is on its way to the page.
Quiet == net.reads = {} /\ net.events = <<>> /\ net.calls = {} /\ ui.conn = "open" /\ ~ui.error

\* A quiet page lists what the api would list: every new match, every deletion
\* here or in another tab, every change of grouping leads to a read that was
\* asked after it, through reconnections too.  Two exceptions are the code's:
\* answers that overtake each other, and what is published before the browser
\* holds an event id (useLiveMatches.ts, FeedPage.tsx, useDeleteListing.tsx).
FeedIsCurrent == Quiet /\ ~net.late /\ ~net.blind => DOMAIN ui.list = Listed
=============================================================================
