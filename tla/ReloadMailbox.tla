---------------------------- MODULE ReloadMailbox ----------------------------
(***************************************************************************)
(* "Aplicar regras": the one-row table through which the panel asks the     *)
(* running listener to load the saved configuration again                   *)
(* (apps/api/app/listener_control.py), the worker that answers it           *)
(* (listener_reload.py) and the boot that settles what an earlier process   *)
(* left behind (scripts/run_listener.py).                                   *)
(*                                                                         *)
(* A configuration is three lists, each saved and each read by a statement  *)
(* of its own.  Which messages a swap turns into history is the business of *)
(* SourceRecovery.                                                          *)
(***************************************************************************)
EXTENDS Integers

CONSTANTS
  Sources, Rules, Recipients,  \* the versions each active list can take
  Hashed,  \* what config_fingerprint sees of a version of the rules
  Budget   \* bound: how often each kind of event may still happen

Event == {"edit", "lock", "refuse", "disconnect", "crash"}

ASSUME MailboxAssumption ==
  /\ Hashed \in [Rules -> Rules]
  /\ Budget \in [Event -> Nat]

VARIABLES
  \* the database
  saved,   \* the active sources, rules and recipients
  state,   \* ListenerControl.state
  applied, \* ListenerControl.applied_config_hash
  \* the listener
  up,      \* this process finished loading its first configuration
  started, \* lifecycle.started: the boot work after the first connection is done
  online,  \* client.is_connected()
  running, \* the configuration the lifecycle holds
  task,    \* who is loading a configuration: the boot, a reload, or nobody
  next,    \* what that task does next
  held,    \* the configuration it has read so far
  \* history and bounds
  fresh,   \* the versions each list had since the last accepted request
  lost,    \* the last outcome could not be written to the row
  left     \* what is left of Budget

mailbox == <<state, applied>>
process == <<up, started, running, task, next, held>>
history == <<fresh, lost>>
vars == <<saved, state, applied, up, started, online, running, task, next, held, fresh, lost, left>>

Config == [sources : Sources, rules : Rules, recipients : Recipients]
List == {"sources", "rules", "recipients"}
Versions == Sources \cup Rules \cup Recipients
InFlight == {"pending", "applying"}
NoHash == [sources |-> "none", rules |-> "none", recipients |-> "none"]

Spend(e) == left[e] > 0 /\ left' = [left EXCEPT ![e] = @ - 1]

-----------------------------------------------------------------------------
\* config_fingerprint: every field of the three lists but the rules' target price.
Fingerprint_OfSaved(c) == [saved EXCEPT !.rules = Hashed[@]]
Fingerprint(c) == [c EXCEPT !.rules = Hashed[@]]

\* has_unapplied_changes, as the panel reads it.
Notice == applied # Fingerprint(saved)

Init ==
  /\ saved \in Config
  /\ state = "idle" /\ applied = NoHash
  /\ up = FALSE /\ started = FALSE /\ online = FALSE
  /\ running = saved /\ held = saved
  /\ task = "none" /\ next = "none"
  /\ fresh = [l \in List |-> {saved[l]}] /\ lost = FALSE
  /\ left = Budget

-----------------------------------------------------------------------------
\* The panel saves a new version of one list.
Save ==
  /\ saved' \in {c \in Config : \E l \in List : c # saved /\ \A k \in List \ {l} : c[k] = saved[k]}
  /\ fresh' = [l \in List |-> fresh[l] \cup {saved'[l]}]
  /\ Spend("edit")
  /\ UNCHANGED <<mailbox, process, online, lost>>

\* request_reload: a request made while another is in flight is ignored.
Accepts_WhileApplying == state # "pending"
Accepts == state \notin InFlight
RequestReload ==
  /\ Accepts
  /\ state' = "pending"
  /\ fresh' = [l \in List |-> {saved[l]}]
  /\ UNCHANGED <<saved, applied, process, online, lost, left>>

-----------------------------------------------------------------------------
(* The connection, as the supervisor and Telegram leave it. *)

Connect ==
  /\ up /\ ~online
  /\ online' = TRUE
  /\ UNCHANGED <<saved, mailbox, process, history, left>>

Disconnect ==
  /\ online
  /\ online' = FALSE
  /\ Spend("disconnect")
  /\ UNCHANGED <<saved, mailbox, process, history>>

\* The work of the first connection is over.
Start ==
  /\ up /\ online /\ ~started
  /\ started' = TRUE
  /\ UNCHANGED <<saved, mailbox, up, online, running, task, next, held, history, left>>

-----------------------------------------------------------------------------
(* Loading: the three statements of load_active_config, one by one. *)

Boot ==
  /\ ~up /\ task = "none"
  /\ task' = "boot" /\ next' = "sources"
  /\ UNCHANGED <<saved, mailbox, up, started, online, running, held, history, left>>

\* poll_once, when the tick claims the request.
Claim ==
  /\ up /\ task = "none" /\ started /\ online
  /\ state = "pending"
  /\ state' = "applying"
  /\ task' = "reload" /\ next' = "sources"
  /\ UNCHANGED <<saved, applied, up, started, online, running, held, history, left>>

Following == [sources |-> "rules", rules |-> "recipients", recipients |-> "swap"]
ReadList ==
  /\ next \in List
  /\ held' = [held EXCEPT ![next] = saved[next]]
  /\ next' = Following[next]
  /\ UNCHANGED <<saved, mailbox, up, started, online, running, task, history, left>>

\* The boot builds its lifecycle with what it read; apply_config swaps it in.
Swap ==
  /\ next = "swap"
  /\ running' = held
  /\ next' = "record"
  /\ UNCHANGED <<saved, mailbox, up, started, online, task, held, history, left>>

\* A cursor of a new source, or a read, fails: the old configuration stays live.
FailReload ==
  /\ task = "reload" /\ next # "record"
  /\ Spend("refuse")
  /\ task' = "none" /\ next' = "none"
  /\ UNCHANGED <<saved, applied, up, started, online, running, held, fresh>>
  /\ \/ state' = "failed" /\ lost' = lost          \* record_failed
     \/ state' = state /\ lost' = TRUE             \* which fails itself

-----------------------------------------------------------------------------
(* The outcome.  Neither write is tried again. *)

Finished ==
  /\ task # "none" /\ next = "record"
  /\ task' = "none" /\ next' = "none"
  /\ up' = TRUE
  /\ UNCHANGED <<saved, started, online, running, held, fresh>>

\* record_applied, by the boot or by the reload.
AppliedHash_Saved == Fingerprint(saved)
AppliedHash == Fingerprint(held)
StateAfter_Kept == IF task = "boot" THEN state ELSE "idle"
StateAfter_Boot == IF task = "boot" THEN "started" ELSE "idle"
StateAfter == "idle"
RecordApplied ==
  /\ Finished
  /\ state' = StateAfter
  /\ applied' = AppliedHash
  /\ lost' = FALSE
  /\ UNCHANGED left

RecordAppliedFails ==
  /\ Finished
  /\ Spend("lock")
  /\ lost' = TRUE
  /\ UNCHANGED mailbox

-----------------------------------------------------------------------------
\* The process dies, or is rebuilt because its credentials changed.
Crash ==
  /\ up \/ task # "none"
  /\ Spend("crash")
  /\ up' = FALSE /\ started' = FALSE /\ online' = FALSE
  /\ task' = "none" /\ next' = "none"
  /\ UNCHANGED <<saved, mailbox, running, held, history>>

Next ==
  \/ Save \/ RequestReload
  \/ Connect \/ Disconnect \/ Start
  \/ Boot \/ Claim \/ ReadList \/ Swap \/ FailReload
  \/ RecordApplied \/ RecordAppliedFails \/ Crash

Spec == Init /\ [][Next]_vars

\* The container is restarted, Telegram answers in the end, and the loop of the
\* worker and the task it started get their turns.  Nobody has to ask.
Fairness ==
  /\ WF_vars(Boot) /\ WF_vars(Connect) /\ WF_vars(Start)
  /\ WF_vars(Claim) /\ WF_vars(ReadList) /\ WF_vars(Swap) /\ WF_vars(RecordApplied)
FairSpec == Spec /\ Fairness

-----------------------------------------------------------------------------
(* Properties *)

\* Every variable keeps its type.
TypeOK ==
  /\ saved \in Config /\ running \in Config /\ held \in Config
  /\ state \in {"idle", "pending", "applying", "failed"}
  /\ applied \in Config \cup {NoHash}
  /\ up \in BOOLEAN /\ started \in BOOLEAN /\ online \in BOOLEAN /\ lost \in BOOLEAN
  /\ task \in {"none", "boot", "reload"}
  /\ next \in List \cup {"none", "swap", "record"}
  /\ fresh \in [List -> SUBSET Versions]
  /\ left \in [Event -> Nat]

\* The panel never says "Regras aplicadas" of rules the listener does not run: when
\* nothing is in flight, the hash it compares with is that of the configuration in
\* memory, whatever was edited, refused or restarted on the way (a lost write aside).
NoticeIsHonest ==
  up /\ task = "none" /\ state \in {"idle", "failed"} /\ ~lost => applied = Fingerprint(running)

\* A reload that is under way always owns the row: no second process, request or
\* boot can take it or settle it from under the one that applies it.
ReloadOwnsTheRow == task = "reload" => state = "applying"

\* A request the worker settles was served by a configuration at least as new as the
\* request, list by list and in every field.  The boot may settle one made after it
\* read; the panel then still says that there is something to apply
\* (run_listener.py:282-287), of the fields config_fingerprint sees.
Settles == state \in InFlight /\ state' = "idle"
ServedExactly == \A l \in List : running[l] \in fresh[l]
Same(l, v, w) == v = w \/ (l = "rules" /\ Hashed[v] = Hashed[w])
Served == \A l \in List : \E v \in fresh[l] : Same(l, running[l], v)
RequestIsServed ==
  [][Settles => ServedExactly \/ (task = "boot" /\ (Served \/ Notice'))]_vars

\* A request in flight is settled in the end, through refusals, disconnections and
\* restarts, unless the write of an outcome was lost.
RequestIsSettled == state \in InFlight ~> (state \notin InFlight \/ lost)
=============================================================================
