----------------------------- MODULE RuleTable ------------------------------
(***************************************************************************)
(* The table of the rules page (pages/RegrasPage.tsx): the list of rules   *)
(* and the list of silences, read apart, the actions of a row and of its   *)
(* menu, the open row with its latest matches, and the confirmed clearing  *)
(* of a rule's history.  The form beside it is module RuleForm.            *)
(*                                                                         *)
(* Of a rule only what the row's controls depend on is kept: whether it is *)
(* active and whether it is silenced.                                      *)
(***************************************************************************)
EXTENDS Integers, FiniteSets

CONSTANTS Rules,     \* rule ids
          MaxOps,    \* bound: calls of the administrator
          Nothing    \* null

MaxReads == 2        \* bound: readings of the rules under way

VARIABLES srv, ui, net
vars == <<srv, ui, net>>

Row == [active: BOOLEAN, snoozed: BOOLEAN]
Calls == {"pause", "resume", "snooze", "reactivate", "delete", "check", "clear"}
Busy == {"pausing", "snoozing", "deleting", "checking", "clearing"}
BusyOf(op) ==
  CASE op \in {"pause", "resume"} -> "pausing" [] op \in {"snooze", "reactivate"} -> "snoozing"
    [] op = "delete" -> "deleting" [] op = "check" -> "checking" [] op = "clear" -> "clearing"

\* What the open row says of its latest matches.
Recent == {"loading", "shown", "failed"}

\* What the page asked once and shows: rules with their state, or nothing yet.
InTable(u) == DOMAIN u.table

TypeOK ==
  /\ srv \in [rules: SUBSET Rules, active: SUBSET Rules, snoozed: SUBSET Rules, matches: SUBSET Rules]
  /\ InTable(ui) \subseteq Rules /\ \A r \in InTable(ui) : ui.table[r] \in Row
  /\ ui.loading \in BOOLEAN /\ ui.error \in BOOLEAN
  /\ ui.snoozes \subseteq Rules
  /\ ui.busy \in [Busy -> Rules \cup {Nothing}]
  /\ ui.clear \in Rules \cup {Nothing} /\ ui.expanded \in Rules \cup {Nothing}
  /\ ui.recent \in [rule: Rules, st: Recent] \cup {Nothing}
  /\ \A r \in net.reads : r.last \in BOOLEAN /\ r.answered \in BOOLEAN
  /\ \A c \in net.calls : c.op \in Calls /\ c.rule \in Rules /\ c.st \in {"sent", "ok", "none", "error"}
  /\ net.snoozeRead \in BOOLEAN /\ net.late \in BOOLEAN /\ net.ops \in 0..MaxOps

\* reload and loadSnoozes.
Reloaded(n) ==
  [n EXCEPT !.reads = {[r EXCEPT !.last = FALSE] : r \in @}
                        \cup {[last |-> TRUE, answered |-> FALSE, table |-> <<>>]}]
CanRead(n) == Cardinality(n.reads) < MaxReads
ConfigChanged(n) == [Reloaded(n) EXCEPT !.snoozeRead = TRUE]

\* The page is mounted, with ?regra=<id> of a rule that may be gone, or without.
Init ==
  /\ \E snoozed \in {{}} \cup {{r} : r \in Rules} :
       srv = [rules |-> Rules, active |-> Rules, snoozed |-> snoozed, matches |-> Rules]
  /\ \E expanded \in Rules \cup {Nothing} :
       ui = [table |-> <<>>, loading |-> TRUE, error |-> FALSE, snoozes |-> {},
             busy |-> [b \in Busy |-> Nothing], clear |-> Nothing, expanded |-> expanded,
             recent |-> IF expanded = Nothing THEN Nothing ELSE [rule |-> expanded, st |-> "loading"]]
  /\ net = ConfigChanged([reads |-> {}, snoozeRead |-> FALSE, late |-> FALSE, calls |-> {}, ops |-> 0])

-----------------------------------------------------------------------------
(* The two lists                                                           *)

\* The effect on the list: a row that is not there is not kept open.
Settled_Kept(u) == u
Settled(u) ==
  IF u.loading \/ u.error \/ u.expanded \in InTable(u) \cup {Nothing} THEN u
  ELSE [u EXCEPT !.expanded = Nothing, !.recent = Nothing]

Table == [r \in srv.rules |-> [active |-> r \in srv.active, snoozed |-> r \in srv.snoozed]]
AnswerRead(r) ==
  /\ ~r.answered
  /\ net' = [net EXCEPT !.reads = (@ \ {r}) \cup {[r EXCEPT !.answered = TRUE, !.table = Table]}]
  /\ UNCHANGED <<srv, ui>>
ShowRead(r) ==
  /\ r.answered
  /\ ui' = Settled([ui EXCEPT !.table = r.table, !.loading = FALSE, !.error = FALSE])
  /\ net' = [net EXCEPT !.reads = @ \ {r}, !.late = ~r.last]
  /\ UNCHANGED srv
FailRead(r) ==
  /\ ~r.answered
  /\ ui' = [ui EXCEPT !.loading = FALSE, !.error = TRUE]
  /\ net' = [net EXCEPT !.reads = @ \ {r}]
  /\ UNCHANGED srv

ReadSnoozes(ok) ==
  /\ net.snoozeRead
  /\ ui' = IF ok THEN [ui EXCEPT !.snoozes = srv.snoozed] ELSE [ui EXCEPT !.error = TRUE]
  /\ net' = [net EXCEPT !.snoozeRead = FALSE]
  /\ UNCHANGED srv

-----------------------------------------------------------------------------
(* The rows                                                                *)

\* An error takes the table's place.
Shown == ~ui.loading /\ ~ui.error
Free(op, r) == ui.busy[BusyOf(op)] # r

Started(op, r) ==
  /\ net.ops < MaxOps
  /\ ui' = [ui EXCEPT !.busy[BusyOf(op)] = r]
  /\ net' = [net EXCEPT !.ops = @ + 1,
                        !.calls = @ \cup {[n |-> net.ops, op |-> op, rule |-> r, st |-> "sent"]}]
  /\ UNCHANGED srv

\* The switch of the row, both ways.
Toggle(r) ==
  /\ Shown /\ r \in InTable(ui)
  /\ LET op == IF ui.table[r].active THEN "pause" ELSE "resume" IN Free(op, r) /\ Started(op, r)

\* The menu's "Silenciar" or "Reativar": the label is the row's, what is done is
\* decided by the list of silences.
ToggleSnooze(r) ==
  /\ Shown /\ r \in InTable(ui)
  /\ LET op == IF r \in ui.snoozes THEN "reactivate" ELSE "snooze" IN Free(op, r) /\ Started(op, r)

Delete(r) == Shown /\ r \in InTable(ui) /\ Free("delete", r) /\ Started("delete", r)

\* "Limpar histórico" counts first; its confirmation stays whatever the table does.
CheckClear(r) == Shown /\ r \in InTable(ui) /\ Free("check", r) /\ Started("check", r)
ConfirmClear ==
  /\ ui.clear # Nothing /\ ui.busy["clearing"] = Nothing
  /\ Started("clear", ui.clear)
CancelClear ==
  /\ ui.clear # Nothing
  /\ ui' = [ui EXCEPT !.clear = Nothing]
  /\ UNCHANGED <<srv, net>>

\* One row open at a time; its latest matches are read, and read again when they
\* were cleared.
Expand(r) ==
  /\ Shown /\ r \in InTable(ui) \cup {Nothing} /\ r # ui.expanded
  /\ ui' = [ui EXCEPT !.expanded = r,
                      !.recent = IF r = Nothing THEN Nothing ELSE [rule |-> r, st |-> "loading"]]
  /\ UNCHANGED <<srv, net>>
ShowRecent(st) ==
  /\ ui.recent # Nothing /\ ui.recent.st = "loading"
  /\ ui' = [ui EXCEPT !.recent.st = st]
  /\ UNCHANGED <<srv, net>>

-----------------------------------------------------------------------------
(* A call is served, and its handler goes on                               *)

With(c, st) == [net EXCEPT !.calls = (@ \ {c}) \cup {[c EXCEPT !.st = st]}]

Served(c) ==
  CASE c.op = "pause" -> [srv EXCEPT !.active = @ \ {c.rule}]
    [] c.op = "resume" -> [srv EXCEPT !.active = @ \cup {c.rule}]
    [] c.op = "snooze" -> [srv EXCEPT !.snoozed = @ \cup {c.rule}]
    [] c.op = "reactivate" -> [srv EXCEPT !.snoozed = @ \ {c.rule}]
    [] c.op = "clear" -> [srv EXCEPT !.matches = @ \ {c.rule}]
    [] c.op = "check" -> srv
    [] c.op = "delete" -> [srv EXCEPT !.rules = @ \ {c.rule}]
\* A deleted rule is found no more; its matches and its silence stay.
Allowed(c) == c.op \in {"check", "reactivate"} \/ c.rule \in srv.rules
Serve(c) ==
  /\ c.st = "sent"
  /\ IF Allowed(c)
       THEN srv' = Served(c) /\ net' = With(c, IF c.op = "check" /\ c.rule \notin srv.matches THEN "none" ELSE "ok")
       ELSE net' = With(c, "error") /\ UNCHANGED srv
  /\ UNCHANGED ui
ServeFails(c) ==
  /\ c.st = "sent"
  /\ net' = With(c, "error")
  /\ UNCHANGED <<srv, ui>>

\* The busy mark is of the kind of call, not of the call: whichever ends clears it.
Done(u, c) == [u EXCEPT !.busy[BusyOf(c.op)] = Nothing]
Without(c) == [net EXCEPT !.calls = @ \ {c}]

AnswerChange_NoReload(c) ==
  /\ c.st = "ok" /\ c.op \in {"pause", "resume", "snooze", "reactivate", "delete"} /\ CanRead(net)
  /\ ui' = Done(ui, c) /\ net' = [Without(c) EXCEPT !.snoozeRead = TRUE]
  /\ UNCHANGED srv
AnswerChange(c) ==
  /\ c.st = "ok" /\ c.op \in {"pause", "resume", "snooze", "reactivate", "delete"} /\ CanRead(net)
  /\ ui' = Done(ui, c) /\ net' = ConfigChanged(Without(c))
  /\ UNCHANGED srv
AnswerCheck(c) ==
  /\ c.op = "check" /\ c.st \in {"ok", "none"}
  /\ ui' = IF c.st = "ok" THEN [Done(ui, c) EXCEPT !.clear = c.rule] ELSE Done(ui, c)
  /\ net' = Without(c)
  /\ UNCHANGED srv
AnswerClear(c) ==
  /\ c.op = "clear" /\ c.st = "ok" /\ CanRead(net)
  /\ ui' = [Done(ui, c) EXCEPT !.clear = Nothing,
                               !.recent = IF @ = Nothing THEN @ ELSE [@ EXCEPT !.st = "loading"]]
  /\ net' = Reloaded(Without(c))
  /\ UNCHANGED srv
\* A failed clearing is told in its panel, any other in the table's place.
AnswerFailure(c) ==
  /\ c.st = "error"
  /\ ui' = [Done(ui, c) EXCEPT !.error = @ \/ c.op # "clear"]
  /\ net' = Without(c)
  /\ UNCHANGED srv

\* A silence ends by the clock.
SnoozeLapses(r) ==
  /\ srv' = [srv EXCEPT !.snoozed = @ \ {r}]
  /\ UNCHANGED <<ui, net>>

Next ==
  \/ \E r \in net.reads : AnswerRead(r) \/ ShowRead(r) \/ FailRead(r)
  \/ \E ok \in BOOLEAN : ReadSnoozes(ok)
  \/ \E r \in Rules : Toggle(r) \/ ToggleSnooze(r) \/ Delete(r) \/ CheckClear(r)
  \/ ConfirmClear \/ CancelClear
  \/ \E r \in Rules \cup {Nothing} : Expand(r)
  \/ \E st \in Recent \ {"loading"} : ShowRecent(st)
  \/ \E c \in net.calls : \/ Serve(c) \/ ServeFails(c)
                          \/ AnswerChange(c) \/ AnswerCheck(c) \/ AnswerClear(c) \/ AnswerFailure(c)
  \/ \E r \in srv.snoozed : SnoozeLapses(r)

Spec == Init /\ [][Next]_vars

-----------------------------------------------------------------------------
(* Properties                                                              *)

\* What the table shows once nothing is awaited is what the api holds, except
\* for a silence that ended by itself and for two lists that overtook each other:
\* every action leads to a reading made after it (configChanged, reload).
Quiet == net.reads = {} /\ net.calls = {} /\ Shown
TableIsCurrent ==
  Quiet /\ ~net.late =>
    /\ InTable(ui) = srv.rules
    /\ \A r \in srv.rules : ui.table[r].active = (r \in srv.active) /\ (r \in srv.snoozed => ui.table[r].snoozed)

\* The open row is a row of the table, and its matches are that rule's.
OpenRowIsInTable ==
  /\ Shown /\ ui.expanded # Nothing => ui.expanded \in InTable(ui)
  /\ ui.recent # Nothing => ui.recent.rule = ui.expanded

\* 'a silenced rule shows "silenciada até DD/MM" and "Reativar", which DELETEs
\* the matching snooze' (RegrasPage.test.tsx:1383): nobody silences a rule by
\* the "Reativar" of its row.
ReactivateReactivates ==
  [][\A r \in Rules : ToggleSnooze(r) /\ ui.table[r].snoozed
        => \A c \in net'.calls \ net.calls : c.op = "reactivate"]_vars
=============================================================================
