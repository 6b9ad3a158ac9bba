---------------------------- MODULE ManualTarget ----------------------------
(***************************************************************************)
(* A match is corrected, reverted and deleted by requests of the panel     *)
(* (apps/api/app/routers/matches.py), and a corrected price that reaches   *)
(* the target of its rule alerts every recipient once.                     *)
(*                                                                         *)
(* PATCH runs on the event loop, where only one coroutine runs between two *)
(* awaits; reverts, deletions and saves of rules run in threads, beside    *)
(* it.  A SELECT takes no lock; the first UPDATE or INSERT of a            *)
(* transaction takes the database's one write lock until its commit.       *)
(*                                                                         *)
(* One match, not the last of its table, so that its id is not reused.  Of *)
(* its fields the price is kept; names change in the same statements.      *)
(***************************************************************************)
EXTENDS Integers

CONSTANTS Recipients,    \* recipients on the allowlist
          Corrections,   \* prices that are typed
          Detected,      \* the price found in the message
          RuleTargets,   \* target prices the rule may have
          MaxPatches,    \* bound: corrections
          MaxReverts,    \* bound: reverts
          MaxFaults,     \* bound: locks of other processes, lost answers, restarts, saved rules
          Nothing        \* null

VARIABLES srv,   \* the database: the row of the match, its manual_target deliveries, the lock
          net    \* requests under way, and what the properties remember
vars == <<srv, net>>

Patches == 1..MaxPatches
Reverts == MaxPatches + 1..MaxPatches + MaxReverts
Price == Corrections \cup {Detected}
Status == {"none", "pending", "sent", "failed", "not_configured"}

MatchRow == [price: Price, source: {Nothing, "manual", "parsed"}, original: {Nothing} \cup Price]
\* A request: what it read, the recipients still to be called, and the outcomes
\* it has not committed yet.
Request == [st: {"new", "read", "reserved", "next", "calling", "accepted", "done"},
            seen: MatchRow, price: Price, todo: SUBSET Recipients, who: Recipients \cup {Nothing},
            got: [Recipients -> Status]]

TypeOK ==
  /\ srv.row \in MatchRow \cup {Nothing}
  /\ srv.delivery \in [Recipients -> Status] /\ srv.target \in RuleTargets
  /\ srv.configured \in BOOLEAN /\ srv.lock \in Patches \cup {Nothing}
  /\ net.req \in [Patches \cup Reverts -> Request]
  /\ net.calls \in [Recipients -> 0..MaxPatches] /\ net.accepted \in [Recipients -> 0..MaxPatches]
  /\ net.overlap \in BOOLEAN /\ net.cut \in BOOLEAN /\ net.faults \in 0..MaxFaults

Unseen == [price |-> Detected, source |-> Nothing, original |-> Nothing]
NoOutcome == [r \in Recipients |-> "none"]
Init ==
  /\ \E configured \in BOOLEAN, target \in RuleTargets :
       srv = [row |-> Unseen, delivery |-> NoOutcome, target |-> target,
              configured |-> configured, lock |-> Nothing]
  /\ net = [req |-> [q \in Patches \cup Reverts |->
                       [st |-> "new", seen |-> Unseen, price |-> Detected, todo |-> {},
                        who |-> Nothing, got |-> NoOutcome]],
            calls |-> [r \in Recipients |-> 0], accepted |-> [r \in Recipients |-> 0],
            overlap |-> FALSE, cut |-> FALSE, faults |-> 0]

At(q, st) == net.req[q].st = st
\* A PATCH between two awaits has the event loop for itself.
LoopFree == \A p \in Patches : net.req[p].st \notin {"read", "reserved", "next"}
Faulty == net.faults < MaxFaults

-----------------------------------------------------------------------------
(* PATCH /matches/{id}: read, correct, reserve                             *)

PatchRead(p) ==
  /\ At(p, "new") /\ LoopFree /\ srv.row # Nothing
  /\ \E price \in Corrections :
       net' = [net EXCEPT !.req[p].st = "read", !.req[p].seen = srv.row, !.req[p].price = price]
  /\ UNCHANGED srv

\* Only the columns that differ from what was read are written.
Corrected_EachTime(row, seen, price) ==
  [row EXCEPT !.price = price, !.original = seen.price,
              !.source = IF seen.source = "manual" THEN @ ELSE "manual"]
Corrected(row, seen, price) ==
  [row EXCEPT !.price = price,
              !.source = IF seen.source = "manual" THEN @ ELSE "manual",
              !.original = IF seen.source = Nothing THEN seen.price ELSE @]

TargetHit(price, target) == price <= target
\* Who gets a row: ON CONFLICT DO NOTHING leaves the others to whoever has theirs.
Reserved_Again(s, price) == IF TargetHit(price, s.target) THEN Recipients ELSE {}
Reserved(s, price) ==
  IF TargetHit(price, s.target) THEN {r \in Recipients : s.delivery[r] = "none"} ELSE {}

\* The correction and its reservations are one transaction.
PatchCommit(p) ==
  LET q == net.req[p]
      new == Reserved(srv, q.price) IN
  /\ q.st = "read" /\ q.price # q.seen.price
  /\ srv.lock = Nothing /\ srv.row # Nothing
  /\ srv' = [srv EXCEPT !.row = Corrected(@, q.seen, q.price),
                        !.delivery = [r \in Recipients |-> IF r \in new THEN "pending" ELSE @[r]]]
  /\ net' = [net EXCEPT !.req[p].st = "reserved", !.req[p].todo = new,
                        !.overlap = @ \/ srv.row # q.seen]

\* The same price again writes nothing; a deleted row has none to update.
PatchEnds(p) ==
  /\ At(p, "read")
  /\ net.req[p].price = net.req[p].seen.price \/ (srv.lock = Nothing /\ srv.row = Nothing)
  /\ net' = [net EXCEPT !.req[p].st = "done"]
  /\ UNCHANGED srv

-----------------------------------------------------------------------------
(* The alerts of the reservations, one recipient after the other           *)

\* The rule is read again: a target lowered since then leaves the rows pending.
PatchCheck(p) ==
  LET q == net.req[p]
      hit == TargetHit(q.price, srv.target) IN
  /\ q.st = "reserved"
  /\ net' = [net EXCEPT !.req[p].st = IF q.todo # {} /\ hit THEN "next" ELSE "done",
                        !.cut = @ \/ (q.todo # {} /\ ~hit)]
  /\ UNCHANGED srv

Unwritten(p) == \E r \in Recipients : net.req[p].got[r] # "none"

\* The outcomes so far are flushed by the SELECT of the next row, which takes the
\* lock before the call is awaited.  Rows that are gone end the request.
NextCall(p) ==
  /\ At(p, "next")
  /\ Unwritten(p) => srv.lock \in {Nothing, p}
  /\ \E r \in net.req[p].todo :
       IF srv.row = Nothing
       THEN net' = [net EXCEPT !.req[p].st = "done"] /\ UNCHANGED srv
       ELSE /\ srv' = [srv EXCEPT !.lock = IF Unwritten(p) THEN p ELSE @]
            /\ net' = IF srv.configured
                        THEN [net EXCEPT !.req[p].st = "calling", !.req[p].who = r,
                                         !.req[p].todo = @ \ {r}, !.calls[r] = @ + 1]
                        ELSE [net EXCEPT !.req[p].got[r] = "not_configured", !.req[p].todo = @ \ {r}]

BotAccepts(p) ==
  /\ At(p, "calling")
  /\ net' = [net EXCEPT !.req[p].st = "accepted", !.accepted[net.req[p].who] = @ + 1]
  /\ UNCHANGED srv

\* A call that raises is an outcome, whether or not Telegram has the message.
BotAnswers(p) ==
  /\ net.req[p].st \in {"calling", "accepted"} /\ LoopFree
  /\ \E outcome \in {"sent", "failed"} :
       /\ outcome = "sent" => At(p, "accepted")
       /\ outcome = "failed" => Faulty
       /\ net' = [net EXCEPT !.req[p].st = "next", !.req[p].who = Nothing,
                             !.req[p].got[net.req[p].who] = outcome,
                             !.faults = IF outcome = "failed" THEN @ + 1 ELSE @]
  /\ UNCHANGED srv

Recorded(delivery, got) ==
  [r \in Recipients |-> IF got[r] # "none" THEN got[r] ELSE delivery[r]]
RecordOutcomes(p) ==
  /\ At(p, "next") /\ net.req[p].todo = {} /\ srv.lock \in {Nothing, p}
  /\ srv' = [srv EXCEPT !.delivery = IF srv.row = Nothing THEN @ ELSE Recorded(@, net.req[p].got),
                        !.lock = Nothing]
  /\ net' = [net EXCEPT !.req[p].st = "done"]

\* BotNotifier cannot be built: nobody is called.
FactoryRaises(p) ==
  /\ At(p, "reserved") /\ net.req[p].todo # {} /\ TargetHit(net.req[p].price, srv.target)
  /\ Faulty /\ srv.lock = Nothing
  /\ srv' = [srv EXCEPT !.delivery = [r \in Recipients |->
               IF r \in net.req[p].todo /\ srv.row # Nothing THEN "failed" ELSE @[r]]]
  /\ net' = [net EXCEPT !.req[p].st = "done", !.faults = @ + 1]

\* The lock cannot be had within busy_timeout: another process holds it, or a
\* PATCH that awaits Telegram and cannot go on, since the wait blocks the loop.
PatchLocked(p) ==
  LET q == net.req[p]
      held == srv.lock \notin {Nothing, p} IN
  /\ (q.st = "read" /\ q.price # q.seen.price) \/ (q.st = "next" /\ srv.lock # p /\ Unwritten(p))
  /\ held \/ Faulty
  /\ net' = [net EXCEPT !.req[p].st = "done", !.cut = @ \/ q.st = "next",
                        !.faults = IF held THEN @ ELSE @ + 1]
  /\ UNCHANGED srv

-----------------------------------------------------------------------------
(* In threads: POST /matches/{id}/revert, DELETE, a rule that is saved     *)

RevertRead(v) ==
  /\ At(v, "new") /\ srv.row # Nothing
  /\ net' = [net EXCEPT !.req[v].st = IF srv.row.source = "manual" THEN "read" ELSE "done",
                        !.req[v].seen = srv.row]
  /\ UNCHANGED srv

Reverted(row, seen) ==
  [row EXCEPT !.price = IF seen.price = seen.original THEN @ ELSE seen.original,
              !.source = "parsed"]
RevertCommit(v) ==
  LET seen == net.req[v].seen IN
  /\ At(v, "read") /\ srv.lock = Nothing
  /\ srv' = IF srv.row = Nothing THEN srv ELSE [srv EXCEPT !.row = Reverted(@, seen)]
  /\ net' = [net EXCEPT !.req[v].st = "done", !.overlap = @ \/ srv.row # seen]

RevertLocked(v) ==
  /\ At(v, "read") /\ srv.lock # Nothing
  /\ net' = [net EXCEPT !.req[v].st = "done"]
  /\ UNCHANGED srv

Delete ==
  /\ srv.row # Nothing /\ srv.lock = Nothing /\ Faulty
  /\ srv' = [srv EXCEPT !.row = Nothing, !.delivery = NoOutcome]
  /\ net' = [net EXCEPT !.faults = @ + 1]

SaveRule ==
  /\ srv.lock = Nothing /\ Faulty
  /\ \E target \in RuleTargets : srv' = [srv EXCEPT !.target = target]
  /\ net' = [net EXCEPT !.faults = @ + 1]

\* The api restarts: its requests are gone, what they had not committed too.
Restart ==
  /\ Faulty /\ \E q \in Patches \cup Reverts : net.req[q].st \notin {"new", "done"}
  /\ srv' = [srv EXCEPT !.lock = Nothing]
  /\ net' = [net EXCEPT !.req = [q \in DOMAIN @ |-> IF @[q].st = "new" THEN @[q]
                                                    ELSE [@[q] EXCEPT !.st = "done"]],
                        !.cut = TRUE, !.faults = @ + 1]

Next ==
  \/ \E p \in Patches : \/ PatchRead(p) \/ PatchCommit(p) \/ PatchEnds(p) \/ PatchCheck(p)
                        \/ NextCall(p) \/ BotAccepts(p) \/ BotAnswers(p)
                        \/ RecordOutcomes(p) \/ FactoryRaises(p) \/ PatchLocked(p)
  \/ \E v \in Reverts : RevertRead(v) \/ RevertCommit(v) \/ RevertLocked(v)
  \/ Delete \/ SaveRule \/ Restart

Spec == Init /\ [][Next]_vars

-----------------------------------------------------------------------------
(* Properties                                                              *)

\* The target alert of a match goes to a recipient at most once, however often
\* its price is corrected, reverted and corrected again, and its row says what
\* came of it: sent only if Telegram has it, and open only while its request
\* runs, or when that was cut short (_reserve_manual_target_alerts_if_hit).
AlertedOnce ==
  \A r \in Recipients :
    /\ net.calls[r] <= 1
    /\ srv.delivery[r] = "sent" => net.accepted[r] = 1
    /\ srv.delivery[r] = "pending" =>
         \/ net.cut
         \/ \E p \in Patches : net.req[p].st \notin {"new", "done"}
                               /\ (r \in net.req[p].todo \/ r = net.req[p].who \/ net.req[p].got[r] # "none")

\* A corrected match can always go back to what was detected, and a price that
\* is not called manual is that one; unless a correction and a revert overlapped,
\* each having read the row before the other wrote (models/match.py:38-46).
DetectedIsKept ==
  srv.row # Nothing =>
    /\ srv.row.source # Nothing => srv.row.original = Detected
    /\ ~net.overlap /\ srv.row.source # "manual" => srv.row.price = Detected

\* "No write transaction across the network" (README.md:124).  Not so here: with
\* a second recipient the outcome of the first is flushed before its call.
NoLockAcrossNetwork == \A p \in Patches : srv.lock = p => net.req[p].st \notin {"calling", "accepted"}
=============================================================================
