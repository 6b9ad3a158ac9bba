---------------------------- MODULE SourceRecovery ----------------------------
(***************************************************************************)
(* How the listener does not lose a message of one Telegram group: the      *)
(* processing cursor (packages/telegram/cursor.py), the live handler, the   *)
(* catch-up, the historical scan and the configuration swap of              *)
(* apps/api/app/listener_lifecycle.py, and the boot that prepares them.     *)
(*                                                                         *)
(* Messages are numbered as Telegram numbers them.  Every message passes    *)
(* the rule; what happens to its alert once it has a verdict is the         *)
(* business of AlertPipeline.                                               *)
(***************************************************************************)
EXTENDS Integers, FiniteSets

CONSTANTS
  Horizon,      \* bound: messages ever posted in the group
  MaxMessages,  \* how many messages one catch-up fetches at most
  \* bounds: how often each kind of disturbance may happen
  Locks, Drops, Disconnects, Fetches, Crashes, Reloads, Edits, Ages

Disturbance == {"lock", "drop", "disconnect", "fetch", "crash", "reload", "edit", "age"}
Budget ==
  [d \in Disturbance |->
     CASE d = "lock" -> Locks [] d = "drop" -> Drops [] d = "disconnect" -> Disconnects
       [] d = "fetch" -> Fetches [] d = "crash" -> Crashes [] d = "reload" -> Reloads
       [] d = "edit" -> Edits [] d = "age" -> Ages]

ASSUME RecoveryAssumption ==
  /\ Horizon \in Nat \ {0}
  /\ MaxMessages \in Nat \ {0}
  /\ Budget \in [Disturbance -> Nat]

VARIABLES
  \* Telegram
  posted,   \* messages 1..posted are in the group
  aged,     \* messages 1..aged are older than backfill_max_age
  online,   \* the listener is connected
  \* the database
  active,   \* the source is active in the panel's configuration
  cursor,   \* ProcessingCursor.last_message_id, NoCursor without a row
  verdict,  \* the match row of a message: alerted live, or historical
  \* the memory of the listener
  phase,    \* how far the boot of this process got
  listed,   \* the source is in the applied configuration
  live,     \* messages whose live handler is under way
  failed,   \* _failed_live: the lowest message a handler gave up, 0 for none
  work,     \* the boot, the catch-up or the reload that holds the lock
  scan,     \* `before` of the historical scan under way, NoScan without one
  pending,  \* the source is in _historical_pending
  \* history and bounds
  taken,    \* messages the live handler of this process took over
  missed,   \* messages posted to a listening process that never reached it
  offLimits,\* messages posted while the source was paused, or before its first boot
  left      \* what is left of Budget

telegram == <<posted, aged, online>>
process == <<phase, listed, live, failed, work, scan, pending>>
history == <<taken, missed, offLimits>>
vars == <<posted, aged, online, active, cursor, verdict, phase, listed, live, failed,
          work, scan, pending, taken, missed, offLimits, left>>

Msg == 1..Horizon
NoCursor == -1
NoScan == -1

IdleWork == [pc |-> "idle", from |-> 0, floor |-> 0, todo |-> {}]
Work == [pc : {"idle", "head", "fetch", "process", "scan"}, from : 0..Horizon,
         floor : 0..Horizon, todo : SUBSET Msg]

Spend(d) == left[d] > 0 /\ left' = [left EXCEPT ![d] = @ - 1]

-----------------------------------------------------------------------------
\* get_cursor reads 0 without a row; advance_cursor only moves forward.
LastId_NoSentinel == cursor
LastId == IF cursor = NoCursor THEN 0 ELSE cursor
Advanced_Anywhere(c, m) == m
Advanced(c, m) == IF m > c THEN m ELSE c

\* backfill_since_cursor: the newest messages above a given id that are young enough.
Newer(m) == {n \in Msg : n > m /\ n <= posted}
Backfill(from) ==
  {m \in Newer(from) : m > aged /\ Cardinality(Newer(m)) < MaxMessages}

\* _remember_failed: the lowest of the failures, 0 standing for none.
WithFailure(f, m) == IF f = 0 \/ (m # 0 /\ m < f) THEN m ELSE f

\* A new match is decided live or as history; a known identity is a no-op.
Decided(v, M, as) == [m \in Msg |-> IF m \in M /\ v[m] = "none" THEN as ELSE v[m]]

\* Neither the panel nor the process, nor the reload under way, wants the source.
Paused == ~active /\ ~listed /\ work.pc # "head"
Listening == phase \in {"registered", "started"} /\ listed

-----------------------------------------------------------------------------
\* The panel's configuration may be old, and the group may have had messages.
Init ==
  /\ posted \in 0..1 /\ aged = 0 /\ online = FALSE
  /\ active \in BOOLEAN
  /\ cursor = NoCursor
  /\ verdict = [m \in Msg |-> "none"]
  /\ phase = "down" /\ listed = FALSE /\ live = {} /\ failed = 0
  /\ work = IdleWork /\ scan = NoScan /\ pending = FALSE
  /\ taken = {} /\ missed = {} /\ offLimits = 1..posted
  /\ left = Budget

-----------------------------------------------------------------------------
\* A message is posted.  A connected listener that has its handler registered and
\* the source in its configuration gets the update, unless Telegram drops it.
Post ==
  LET m == posted + 1 IN
  /\ posted < Horizon
  /\ posted' = m
  /\ \/ /\ Listening /\ online
        /\ live' = live \cup {m} /\ taken' = taken \cup {m}
        /\ UNCHANGED <<missed, offLimits, left>>
     \/ /\ Listening
        /\ \/ ~online /\ UNCHANGED left
           \/ online /\ Spend("drop")
        /\ missed' = missed \cup {m}
        /\ UNCHANGED <<live, taken, offLimits>>
     \/ /\ ~Listening
        /\ offLimits' = IF Paused THEN offLimits \cup {m} ELSE offLimits
        /\ UNCHANGED <<live, taken, missed, left>>
  /\ UNCHANGED <<aged, online, active, cursor, verdict, phase, listed, failed, work,
                 scan, pending>>

Age ==
  /\ aged < posted
  /\ Spend("age")
  /\ aged' = aged + 1
  /\ UNCHANGED <<posted, online, active, cursor, verdict, process, history>>

Disconnect ==
  /\ online
  /\ Spend("disconnect")
  /\ online' = FALSE
  /\ UNCHANGED <<posted, aged, active, cursor, verdict, process, history>>

Reconnect ==
  /\ phase # "down" /\ ~online
  /\ online' = TRUE
  /\ UNCHANGED <<posted, aged, active, cursor, verdict, process, history, left>>

\* The panel pauses or resumes the source.
Edit ==
  /\ Spend("edit")
  /\ active' = ~active
  /\ UNCHANGED <<telegram, cursor, verdict, process, history>>

-----------------------------------------------------------------------------
\* --- handle_live_message: process_message moves the cursor and decides ---
HandleLive(m) ==
  /\ m \in live
  /\ live' = live \ {m}
  /\ cursor' = Advanced(cursor, m)
  /\ verdict' = Decided(verdict, {m}, "alerted")
  /\ UNCHANGED <<telegram, active, phase, listed, failed, work, scan, pending, history,
                 left>>

\* The database stayed locked; another rule of the message may still have moved
\* the cursor.
LiveFails(m) ==
  /\ m \in live
  /\ Spend("lock")
  /\ live' = live \ {m}
  /\ failed' = WithFailure(failed, m)
  /\ cursor' \in {cursor, Advanced(cursor, m)}
  /\ UNCHANGED <<telegram, active, verdict, phase, listed, work, scan, pending, history>>

-----------------------------------------------------------------------------
\* --- catch_up: started by a reconnect, by the watchdog or periodically ---
CatchUp_NoFloor ==
  /\ phase = "started" /\ online /\ listed /\ work.pc = "idle"
  /\ work' = [IdleWork EXCEPT !.pc = "fetch", !.from = LastId]
  /\ failed' = 0
  /\ UNCHANGED <<telegram, active, cursor, verdict, phase, listed, live, scan, pending,
                 history, left>>
CatchUp ==
  /\ phase = "started" /\ online /\ listed /\ work.pc = "idle"
  /\ work' = [IdleWork EXCEPT !.pc = "fetch", !.floor = failed,
                !.from = IF failed # 0 /\ failed <= LastId THEN failed - 1 ELSE LastId]
  /\ failed' = 0
  /\ UNCHANGED <<telegram, active, cursor, verdict, phase, listed, live, scan, pending,
                 history, left>>

\* The messages arrive: the cursor moves past them before any is processed.
Fetch ==
  LET found == Backfill(work.from) IN
  /\ work.pc = "fetch" /\ online
  /\ \/ found = {} /\ cursor' = cursor
     \/ \E newest \in found :
          /\ \A m \in found : m <= newest
          /\ cursor' = Advanced(cursor, newest)
  /\ work' = [work EXCEPT !.pc = "process", !.todo = found]
  /\ UNCHANGED <<telegram, active, verdict, phase, listed, live, failed, scan, pending,
                 history, left>>

\* The connection fails first.  A catch-up puts its floor back; a boot starts over
\* with the next connection.
FetchFails_NoRestore ==
  /\ work.pc = "fetch"
  /\ Spend("fetch")
  /\ work' = IF phase = "started" THEN IdleWork ELSE work
  /\ UNCHANGED <<telegram, active, cursor, verdict, phase, listed, live, failed, scan,
                 pending, history>>
FetchFails ==
  /\ work.pc = "fetch"
  /\ Spend("fetch")
  /\ failed' = IF work.floor = 0 THEN failed ELSE WithFailure(failed, work.floor)
  /\ work' = IF phase = "started" THEN IdleWork ELSE work
  /\ UNCHANGED <<telegram, active, cursor, verdict, phase, listed, live, scan, pending,
                 history>>

\* One recovered message after the other goes through process_message.
Recover(m) ==
  /\ work.pc = "process" /\ m \in work.todo
  /\ work' = [work EXCEPT !.todo = @ \ {m}]
  /\ cursor' = Advanced(cursor, m)
  /\ verdict' = Decided(verdict, {m}, "alerted")
  /\ UNCHANGED <<telegram, active, phase, listed, live, failed, scan, pending, history,
                 left>>

\* A recovered message fails for good: remembered for the next catch-up.
RecoverFails(m) ==
  /\ work.pc = "process" /\ m \in work.todo
  /\ phase = "started"
  /\ Spend("lock")
  /\ work' = [work EXCEPT !.todo = @ \ {m}]
  /\ failed' = WithFailure(failed, m)
  /\ UNCHANGED <<telegram, active, cursor, verdict, phase, listed, live, scan, pending,
                 history>>

\* A catch-up ends, and one that followed a reconnect scans what is still pending.
\* A boot registers the live handler and scans.
CaughtUp ==
  /\ work.pc = "process" /\ work.todo = {}
  /\ \/ /\ phase = "started"
        /\ work' = IdleWork
        /\ scan' = scan
     \/ /\ phase = "started" /\ pending /\ scan = NoScan
        /\ work' = IdleWork
        /\ scan' = posted
     \/ /\ phase = "prepare"
        /\ work' = [IdleWork EXCEPT !.pc = "scan"]
        /\ scan' = posted
  /\ phase' = IF phase = "prepare" THEN "registered" ELSE phase
  /\ UNCHANGED <<telegram, active, cursor, verdict, listed, live, failed, pending,
                 history, left>>

-----------------------------------------------------------------------------
\* --- apply_config: the panel's "Aplicar regras" ---

\* The lock is taken with the configuration of the database (one scan at a time is
\* modelled, also where a pending one could still run beside it).  A source that was not
\* listened to gets its cursor moved first; the newest message id is asked for.
ApplyConfig_KeepCursor ==
  /\ phase = "started" /\ online /\ work.pc = "idle" /\ scan = NoScan
  /\ Spend("reload")
  /\ listed' = active
  /\ work' = IF active THEN [IdleWork EXCEPT !.pc = "scan"] ELSE IdleWork
  /\ scan' = IF active THEN posted ELSE NoScan
  /\ pending' = IF active THEN pending ELSE FALSE
  /\ UNCHANGED <<telegram, active, cursor, verdict, phase, live, failed, history>>
ApplyConfig ==
  /\ phase = "started" /\ online /\ work.pc = "idle" /\ scan = NoScan
  /\ Spend("reload")
  /\ \/ /\ active /\ ~listed
        /\ work' = [IdleWork EXCEPT !.pc = "head", !.from = posted]
        /\ UNCHANGED <<listed, scan, pending>>
     \/ /\ active /\ listed
        /\ work' = [IdleWork EXCEPT !.pc = "scan"]
        /\ scan' = posted
        /\ UNCHANGED <<listed, pending>>
     \/ /\ ~active
        /\ listed' = FALSE /\ pending' = FALSE
        /\ UNCHANGED <<work, scan>>
  /\ UNCHANGED <<telegram, active, cursor, verdict, phase, live, failed, history>>

\* initialize_new_source_cursor; then the reload swaps the configuration, the boot
\* registers the handler, and the scan starts with `before` taken now.
MoveToHead ==
  /\ work.pc = "head" /\ online
  /\ cursor' = IF work.from = 0 THEN cursor ELSE Advanced(cursor, work.from)
  /\ work' = [IdleWork EXCEPT !.pc = "scan"]
  /\ scan' = posted
  /\ listed' = TRUE
  /\ phase' = IF phase = "prepare" THEN "registered" ELSE phase
  /\ UNCHANGED <<telegram, active, verdict, live, failed, pending, history, left>>

\* Nothing was swapped yet: a reload fails, a boot starts over.
HeadFails ==
  /\ work.pc = "head"
  /\ Spend("fetch")
  /\ work' = IF phase = "started" THEN IdleWork ELSE [work EXCEPT !.from = posted]
  /\ UNCHANGED <<telegram, active, cursor, verdict, phase, listed, live, failed, scan,
                 pending, history>>

\* The scan persists what is older than `before` and has no match, without an alert.
EndScan ==
  /\ scan' = NoScan
  /\ work' = IF work.pc = "scan" THEN IdleWork ELSE work
  /\ phase' = IF phase = "registered" THEN "started" ELSE phase

Scan ==
  /\ scan # NoScan /\ online
  /\ verdict' = Decided(verdict, 1..scan, "historical")
  /\ pending' = FALSE
  /\ EndScan
  /\ UNCHANGED <<telegram, active, cursor, listed, live, failed, history, left>>

\* A lost connection leaves the scan pending; a locked write ends it half done.
ScanFails ==
  /\ scan # NoScan
  /\ \/ /\ Spend("fetch")
        /\ pending' = TRUE
        /\ UNCHANGED verdict
     \/ /\ Spend("lock")
        /\ pending' = FALSE
        /\ \E k \in 0..scan : verdict' = Decided(verdict, (k + 1)..scan, "historical")
  /\ EndScan
  /\ UNCHANGED <<telegram, active, cursor, listed, live, failed, history>>

-----------------------------------------------------------------------------
\* The process starts and connects.  With no source to listen to it is done; a source
\* with a cursor is caught up with, another one gets its cursor set to the head.
Boot ==
  /\ phase = "down"
  /\ online' = TRUE
  /\ listed' = active
  /\ phase' = IF active THEN "prepare" ELSE "started"
  /\ work' = IF ~active THEN IdleWork
             ELSE IF cursor = NoCursor THEN [IdleWork EXCEPT !.pc = "head", !.from = posted]
             ELSE [IdleWork EXCEPT !.pc = "fetch", !.from = cursor]
  /\ UNCHANGED <<posted, aged, active, cursor, verdict, live, failed, scan, pending,
                 history, left>>

\* The process dies, or a boot meets a locked database: what was in memory is gone.
Dies ==
  /\ phase' = "down" /\ online' = FALSE /\ listed' = FALSE
  /\ live' = {} /\ failed' = 0 /\ taken' = {}
  /\ work' = IdleWork /\ scan' = NoScan /\ pending' = FALSE
  /\ UNCHANGED <<posted, aged, active, cursor, verdict, missed, offLimits>>

Crash == phase # "down" /\ Spend("crash") /\ Dies
BootFails == phase = "prepare" /\ work.pc = "process" /\ work.todo # {} /\ Spend("lock") /\ Dies

-----------------------------------------------------------------------------
CatchUpStep ==
  \/ CatchUp \/ Fetch \/ CaughtUp
  \/ \E m \in work.todo : Recover(m)

ReloadStep == MoveToHead \/ Scan

Disturb ==
  \/ FetchFails \/ HeadFails \/ ScanFails \/ Crash \/ BootFails \/ Disconnect
  \/ \E m \in live : LiveFails(m)
  \/ \E m \in work.todo : RecoverFails(m)

Next ==
  \/ Post \/ Age \/ Edit \/ ApplyConfig \/ Boot \/ Reconnect
  \/ \E m \in live : HandleLive(m)
  \/ CatchUpStep \/ ReloadStep \/ Disturb

Spec == Init /\ [][Next]_vars

\* Tasks of the event loop go on, the catch-up is periodic, the supervisor reconnects
\* and Docker restarts a process that died.
Fairness ==
  /\ \A m \in Msg : WF_vars(HandleLive(m))
  /\ WF_vars(CatchUpStep) /\ WF_vars(ReloadStep)
  /\ WF_vars(Reconnect) /\ WF_vars(Boot)

FairSpec == Spec /\ Fairness

-----------------------------------------------------------------------------
TypeOK ==
  /\ posted \in 0..Horizon /\ aged \in 0..posted /\ online \in BOOLEAN
  /\ active \in BOOLEAN
  /\ cursor \in {NoCursor} \cup 0..posted
  /\ verdict \in [Msg -> {"none", "alerted", "historical"}]
  /\ phase \in {"down", "prepare", "registered", "started"}
  /\ listed \in BOOLEAN /\ live \subseteq 1..posted /\ failed \in 0..posted
  /\ work \in Work /\ scan \in {NoScan} \cup 0..posted /\ pending \in BOOLEAN
  /\ taken \subseteq 1..posted /\ missed \subseteq 1..posted /\ offLimits \subseteq 1..posted
  /\ left \in [Disturbance -> Nat]

\* What a catch-up can still find: it is young enough, and not too many messages
\* are newer.
WithinReach(m) == m > aged /\ Cardinality(Newer(m)) < MaxMessages

\* Some step that is under way or the next catch-up comes across message m.
Tracked(m) ==
  \/ m \in live
  \/ m > LastId
  \/ failed # 0 /\ failed <= m
  \/ work.pc = "fetch" /\ work.from < m
  \/ work.pc = "process" /\ m \in work.todo

\* A message the live handler took over is not forgotten while the process lives,
\* whatever locks, pauses, reloads and failed catch-ups come between (the floor of
\* _failed_live, popped up front and put back).
LiveNotForgotten ==
  \A m \in taken : verdict[m] = "none" => Tracked(m) \/ ~WithinReach(m)

\* The cursor never moves back, also when a catch-up re-reads from below it
\* (advance_cursor).
CursorIsMonotone == [][cursor' >= cursor]_vars

\* A message posted while its source was paused, or before the listener knew the
\* source, never gets an alert (S6-04): only the scan shows it.  This holds as long
\* as the process lives and no message fails for good: the catch-up of a restart and
\* the one from a floor do alert for what was posted during a pause.
NoRetroactive ==
  left["crash"] = Budget["crash"] /\ left["lock"] = Budget["lock"] =>
    \A m \in offLimits : verdict[m] # "alerted"

\* A message the listener did not get, because the connection was down or Telegram
\* dropped the update, is still found by the next catch-up.
MissedIsRecovered ==
  \A m \in missed : verdict[m] = "none" => Tracked(m) \/ ~WithinReach(m)

\* A message a handler took over and could not persist gets a verdict all the same,
\* unless the source is paused, the process dies or it gets out of reach.
TakenIsDecided ==
  \A m \in Msg :
    m \in taken /\ verdict[m] = "none" ~>
      verdict[m] # "none" \/ ~WithinReach(m) \/ ~listed

=============================================================================
