----------------------------- MODULE SetupGroups -----------------------------
(***************************************************************************)
(* The fourth step of the setup wizard: the list of the account's groups.  *)
(* The browser is setup/GroupsStep.tsx; the api and the listener share the *)
(* mailbox of app/dialog_scan.py: the panel asks for a scan, the listener  *)
(* claims it, lists the account's groups and replaces the list.            *)
(*                                                                         *)
(* A group is the number of the account that reads it, and a list is a set *)
(* of groups; accounts are connected one after the other.                  *)
(***************************************************************************)
EXTENDS Integers, FiniteSets

CONSTANTS MaxAccounts,  \* bound: accounts
          MaxOps,       \* bound: clicks that ask the api
          MaxLoads,     \* bound: readings of the list under way
          Nothing       \* null

VARIABLES srv, ui, net
vars == <<srv, ui, net>>

Accounts == 1..MaxAccounts
NoAccount == 0
States == {"idle", "pending", "running", "done", "failed"}
IN_FLIGHT == {"pending", "running"}
Shown == [state: States \cup {"waiting_listener"}, dialogs: SUBSET Accounts, monitored: SUBSET Accounts]

TypeOK ==
  /\ srv.account \in 0..MaxAccounts /\ srv.last \in Accounts /\ srv.scan \in States /\ srv.old \in BOOLEAN
  /\ srv.dialogs \subseteq Accounts /\ srv.sources \subseteq Accounts
  /\ srv.listing \in 0..MaxAccounts /\ srv.online \in BOOLEAN /\ srv.late \in BOOLEAN
  /\ ui.ready \in BOOLEAN /\ ui.groups \in Shown \cup {Nothing} /\ ui.selected \subseteq Accounts
  /\ ui.busy \in BOOLEAN /\ ui.error \in BOOLEAN
  /\ \A l \in net.loads : l \in Shown \cup {Nothing}
  /\ net.search \in Shown \cup {Nothing} /\ net.call \in {"none", "refresh", "refreshed", "select", "selected"}
  /\ net.chosen \subseteq Accounts /\ net.ops \in 0..MaxOps

Init ==
  /\ srv = [account |-> 1, last |-> 1, scan |-> "idle", old |-> FALSE, dialogs |-> {}, sources |-> {},
            listing |-> NoAccount, online |-> FALSE, late |-> FALSE]
  /\ ui = [ready |-> TRUE, groups |-> Nothing, selected |-> {}, busy |-> FALSE, error |-> FALSE]
  /\ net = [loads |-> {Nothing}, call |-> "none", search |-> Nothing, chosen |-> {}, ops |-> 0]

-----------------------------------------------------------------------------
(* app/dialog_scan.py                                                      *)

\* read_scan and get_groups: a scan that is too old has failed, one that nobody
\* will claim waits for the listener.
Read(s) == [state |-> IF s.scan \notin IN_FLIGHT THEN s.scan
                      ELSE IF s.old THEN "failed"
                      ELSE IF ~s.online THEN "waiting_listener" ELSE s.scan,
            dialogs |-> s.dialogs, monitored |-> s.sources \cap s.dialogs]
\* request_scan: one that is under way, and not too old, is enough.
Requested(s) == IF s.scan \in IN_FLIGHT /\ ~s.old THEN s ELSE [s EXCEPT !.scan = "pending", !.old = FALSE]

\* DialogScanWorker.poll_once
Claim ==
  /\ srv.online /\ srv.listing = NoAccount /\ srv.scan = "pending" /\ srv.account # NoAccount
  /\ srv' = [srv EXCEPT !.scan = "running", !.listing = srv.account]
  /\ UNCHANGED <<ui, net>>
\* finish_scan, fail_scan: whatever the mailbox says by now.
Finish(ok) ==
  /\ srv.listing # NoAccount
  /\ srv' = [srv EXCEPT !.scan = IF ok THEN "done" ELSE "failed",
                        !.dialogs = IF ok THEN {srv.listing} ELSE @,
                        !.listing = NoAccount,
                        !.late = IF ok THEN srv.listing # srv.account ELSE @]
  /\ UNCHANGED <<ui, net>>
ScanGetsOld ==
  /\ srv.scan \in IN_FLIGHT /\ ~srv.old
  /\ srv' = [srv EXCEPT !.old = TRUE]
  /\ UNCHANGED <<ui, net>>
\* The listener stops, whatever it was listing, and starts with the account's session.
ListenerStops ==
  /\ srv.online
  /\ srv' = [srv EXCEPT !.online = FALSE, !.listing = NoAccount]
  /\ UNCHANGED <<ui, net>>
ListenerStarts ==
  /\ ~srv.online /\ srv.account # NoAccount
  /\ srv' = [srv EXCEPT !.online = TRUE]
  /\ UNCHANGED <<ui, net>>

\* "Desconectar Telegram", in this tab's second step or in another one, with
\* clear_dialogs; the listener notices within seconds.  Then the next account
\* is connected.
Cleared_NotDialogs(s) == [s EXCEPT !.scan = "idle", !.old = FALSE]
Cleared(s) == [s EXCEPT !.scan = "idle", !.old = FALSE, !.dialogs = {}, !.late = FALSE]
Disconnect ==
  /\ srv.account # NoAccount
  /\ srv' = [Cleared(srv) EXCEPT !.account = NoAccount]
  /\ UNCHANGED <<ui, net>>
Connect(account) ==
  /\ srv.account = NoAccount /\ srv.listing = NoAccount /\ account = srv.last + 1
  /\ srv' = [srv EXCEPT !.account = account, !.last = account]
  /\ UNCHANGED <<ui, net>>

-----------------------------------------------------------------------------
(* GroupsStep                                                              *)

InProgress == ui.groups # Nothing /\ ui.groups.state \in IN_FLIGHT \cup {"waiting_listener"}
Loading(n) == IF Cardinality(n.loads) < MaxLoads THEN [n EXCEPT !.loads = @ \cup {Nothing}] ELSE n

\* The list is read when the step is ready, and again while a scan is under way.
StatusShown ==
  /\ ui.ready # (srv.account # NoAccount)
  /\ ui' = [ui EXCEPT !.ready = ~@]
  /\ net' = IF ui.ready THEN net ELSE Loading(net)
  /\ UNCHANGED srv
Tick ==
  /\ InProgress
  /\ net' = Loading(net)
  /\ UNCHANGED <<srv, ui>>
ServeLoad ==
  /\ Nothing \in net.loads
  /\ net' = [net EXCEPT !.loads = (@ \ {Nothing}) \cup {Read(srv)}]
  /\ UNCHANGED <<srv, ui>>
AnswerLoad(l) ==
  /\ l # Nothing
  /\ ui' = [ui EXCEPT !.groups = l, !.error = FALSE]
  /\ net' = [net EXCEPT !.loads = @ \ {l}]
  /\ UNCHANGED srv
FailLoad(l) ==
  /\ ui' = [ui EXCEPT !.error = TRUE]
  /\ net' = [net EXCEPT !.loads = @ \ {l}]
  /\ UNCHANGED srv

Search ==
  /\ ui.ready /\ ~InProgress /\ net.call = "none" /\ net.ops < MaxOps
  /\ ui' = [ui EXCEPT !.error = FALSE]
  /\ net' = [net EXCEPT !.call = "refresh", !.ops = @ + 1]
  /\ UNCHANGED srv
ServeSearch ==
  /\ net.call = "refresh"
  /\ srv' = Requested(srv)
  /\ net' = [net EXCEPT !.call = "refreshed", !.search = Read(srv')]
  /\ UNCHANGED ui
AnswerSearch ==
  /\ net.call = "refreshed"
  /\ ui' = [ui EXCEPT !.groups = net.search]
  /\ net' = [net EXCEPT !.call = "none", !.search = Nothing]
  /\ UNCHANGED srv

\* The groups that can be marked; what is marked outlives the list.
ToggleGroup(g) ==
  /\ ui.ready /\ ui.groups # Nothing /\ ui.groups.state = "done"
  /\ g \in ui.groups.dialogs \ ui.groups.monitored
  /\ ui' = [ui EXCEPT !.selected = IF g \in @ THEN @ \ {g} ELSE @ \cup {g}]
  /\ UNCHANGED <<srv, net>>
Save ==
  /\ ui.ready /\ ui.groups # Nothing /\ ui.groups.state = "done" /\ ui.selected # {} /\ ~ui.busy
  /\ net.call = "none" /\ net.ops < MaxOps
  /\ ui' = [ui EXCEPT !.busy = TRUE, !.error = FALSE]
  /\ net' = [net EXCEPT !.call = "select", !.chosen = ui.selected, !.ops = @ + 1]
  /\ UNCHANGED srv
\* select_groups: all of them, or an error.
MaySelect_Any(s, chosen) == TRUE
MaySelect(s, chosen) == chosen \subseteq s.dialogs
ServeSave ==
  /\ net.call = "select"
  /\ IF MaySelect(srv, net.chosen)
       THEN srv' = [srv EXCEPT !.sources = @ \cup net.chosen] /\ net' = [net EXCEPT !.call = "selected"] /\ UNCHANGED ui
       ELSE /\ ui' = [ui EXCEPT !.error = TRUE, !.busy = FALSE]
            /\ net' = [net EXCEPT !.call = "none", !.chosen = {}] /\ UNCHANGED srv
AnswerSave ==
  /\ net.call = "selected"
  /\ ui' = [ui EXCEPT !.selected = {}, !.busy = FALSE]
  /\ net' = Loading([net EXCEPT !.call = "none", !.chosen = {}])
  /\ UNCHANGED srv
FailCall ==
  /\ net.call # "none"
  /\ ui' = [ui EXCEPT !.error = TRUE, !.busy = FALSE]
  /\ net' = [net EXCEPT !.call = "none", !.search = Nothing, !.chosen = {}]
  /\ UNCHANGED srv

Next ==
  \/ Claim \/ ScanGetsOld \/ ListenerStops \/ ListenerStarts \/ Disconnect
  \/ \E ok \in BOOLEAN : Finish(ok)
  \/ \E account \in Accounts : Connect(account) \/ ToggleGroup(account)
  \/ StatusShown \/ Tick \/ ServeLoad
  \/ \E l \in net.loads : AnswerLoad(l) \/ FailLoad(l)
  \/ Search \/ ServeSearch \/ AnswerSearch \/ Save \/ ServeSave \/ AnswerSave \/ FailCall

Spec == Init /\ [][Next]_vars

-----------------------------------------------------------------------------
(* Properties                                                              *)

\* "Forget the cached list (used when the Telegram account is disconnected)"
\* (dialog_scan.py:123): the list is of the account that is connected.
\* But a scan that was under way when the account was disconnected, and is
\* finished before the listener notices, leaves its list.
ListIsOfAccount == ~srv.late => srv.dialogs \subseteq {srv.account}

\* A group that becomes a source is one the connected account reads, however
\* old the list on the page is.
SourceIsRead == ~srv.late => srv'.sources \ srv.sources \subseteq {srv.account}
=============================================================================
