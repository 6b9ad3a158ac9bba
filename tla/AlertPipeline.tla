---------------------------- MODULE AlertPipeline ----------------------------
(***************************************************************************)
(* The alert pipeline of the listener: apps/api/app/pipeline.py together    *)
(* with the resend pass (delivery_retry.py), the bot notifier               *)
(* (packages/notifications/bot.py), the signature cache                     *)
(* (packages/rules/dedupe.py), the recipient rule (recipient_rules.py) and   *)
(* the deletion of matches by the panel (match_deletion.py).                *)
(*                                                                         *)
(* A posting is one (message, rule) pair that passed evaluate_rule: what    *)
(* process_message turns into at most one match row.  Handlers are asyncio  *)
(* tasks of one process.  The write phase of a handler has no await, so it  *)
(* is one step; the network phase gives up control at every call to the Bot *)
(* API; the outcomes are written in one step at the end.                    *)
(***************************************************************************)
EXTENDS Naturals, FiniteSets

CONSTANTS
  Posting, Message, Signature, Offer, Recipient, Task,
  MessageOf,      \* the Telegram message of a posting: its (source, id) identity
  SignatureOf,    \* compute_signature: rule, source, normalized text and price
  OfferOf,        \* rule and exact price within the window, NoOffer without a price
  TargetHit,      \* whether the price of the posting reaches the target of its rule
  Wants,          \* who selected the rule and the alert type of the posting
  NoOffer, NoPosting, NoRecipient,
  MaxId,          \* bound: row ids of the match table are in 1..MaxId
  NotifyAttempts, \* NOTIFY_ATTEMPTS
  Budget          \* bound: how often each kind of disturbance may still happen

Disturbance == {"lock", "refuse", "timeout", "crash", "delete", "edit", "repeat", "age"}

ASSUME PipelineAssumption ==
  /\ MessageOf \in [Posting -> Message]
  /\ SignatureOf \in [Posting -> Signature]
  /\ OfferOf \in [Posting -> Offer \cup {NoOffer}]
  /\ TargetHit \in [Posting -> BOOLEAN]
  /\ Wants \in [Posting -> SUBSET Recipient]
  /\ NoOffer \notin Offer /\ NoPosting \notin Posting /\ NoRecipient \notin Recipient
  /\ MaxId \in Nat
  /\ NotifyAttempts \in Nat \ {0}
  /\ Budget \in [Disturbance -> Nat]

VARIABLES
  \* the database
  table,      \* match rows: row id -> posting, or NoPosting
  suppressed, \* suppressed_message
  row,        \* delivery rows: match id -> recipient -> kind -> status
  snoozed,    \* a snooze that covers the common alerts is active
  held,       \* digest enabled and mute_individual
  active,     \* recipients that are active and allowlisted
  untargeted, \* decided postings whose rule has no target price any more
  aged,       \* failed delivery rows older than RESEND_MAX_AGE
  \* the memory of the listener process
  seen,       \* DedupeCache._seen
  delivered,  \* BotNotifier._delivered
  loaded,     \* the recipients the listener loaded, and the notifier's allowlist
  task,       \* message handlers
  resend,     \* the periodic resend pass
  \* history and bounds
  arrived,    \* postings that reached a handler at least once
  decided,    \* postings whose write phase committed a match
  owed,       \* posting -> recipients its verdict alerts individually
  accepted,   \* posting -> recipient -> alerts Telegram accepted
  blind,      \* posting -> recipient -> accepted alerts a retry cannot know of
  lost,       \* postings whose send outcomes were never written
  left        \* what is left of Budget

database == <<table, suppressed, row, snoozed, held, active, untargeted, aged>>
settings == <<snoozed, held, active, untargeted, aged>>
memory == <<seen, delivered, loaded>>
vars == <<table, suppressed, row, snoozed, held, active, untargeted, aged,
          seen, delivered, loaded, task, resend, arrived, decided, owed, accepted, blind, lost, left>>

Id == 1..MaxId
Kind == {"immediate", "target", "digest"}
Status == {"none", "sent", "failed", "grouped", "pending", "historical",
           "not_allowlisted", "duplicate"}
Candidate == [id : Id, posting : Posting, recipient : Recipient, kind : Kind]

NoOutcome == [r \in Recipient |-> "none"]
NoRow == [r \in Recipient |-> [k \in Kind |-> "none"]]
IdleTask == [pc |-> "idle", posting |-> NoPosting, id |-> 0, todo |-> {},
             cur |-> NoRecipient, tries |-> 0, out |-> NoOutcome]
IdleResend == [pc |-> "idle", todo |-> {}, cur |-> {}]

TaskState == [pc : {"idle", "write", "notify", "calling", "accepted"},
              posting : Posting \cup {NoPosting}, id : Id \cup {0},
              todo : SUBSET Recipient, cur : Recipient \cup {NoRecipient},
              tries : 0..(NotifyAttempts - 1), out : [Recipient -> Status]]
ResendState == [pc : {"idle", "notify", "calling", "accepted", "mark"},
                todo : SUBSET Candidate, cur : SUBSET Candidate]

-----------------------------------------------------------------------------
\* decide_delivery_kind
KindOf(p) == IF TargetHit[p] THEN "target" ELSE "immediate"

\* A row id SQLite hands out: the table has no AUTOINCREMENT, so it is one more
\* than the largest id in use, and the id of a deleted last row comes back.
IsNextId(i) ==
  /\ \A j \in Id : table[j] # NoPosting => j < i
  /\ i > 1 => table[i - 1] # NoPosting

\* The (source, rule, message) identity has a row, or its message was deleted.
IsKnown_NoTombstone(p) == \E i \in Id : table[i] = p
IsKnown_NoIdentity(p) == MessageOf[p] \in suppressed
IsKnown(p) == MessageOf[p] \in suppressed \/ \E i \in Id : table[i] = p

\* Some match of the same offer has a delivery row of kind k in one of the states.
OfferHas(p, k, states) ==
  /\ OfferOf[p] # NoOffer
  /\ \E i \in Id, r \in Recipient :
       /\ table[i] # NoPosting
       /\ OfferOf[table[i]] = OfferOf[p]
       /\ row[i][r][k] \in states

AlreadyGrouped_TargetOnly(p, k) == OfferHas(p, "target", {"sent"})
AlreadyGrouped(p, k) == OfferHas(p, k, {"sent"})
DigestGrouped(p) == OfferHas(p, "digest", {"pending", "sent"})

\* What the write phase decides about a new match, in the order it tests: a
\* snooze (which a target pierces), a repeat of an offer already sent on the
\* same channel, the digest.  Otherwise the alert is sent now.
Silenced(p) == snoozed /\ ~TargetHit[p]
Repeated(p) == ~Silenced(p) /\ AlreadyGrouped(p, KindOf(p))
Digested(p) == ~Silenced(p) /\ ~Repeated(p) /\ ~TargetHit[p] /\ held
Quiet(p) == Silenced(p) \/ Repeated(p) \/ Digested(p)
\* A target hit that repeats a plain alert is sent, the plain channel is grouped.
Echo(p) == ~Quiet(p) /\ TargetHit[p] /\ AlreadyGrouped(p, "immediate")

\* The delivery row the write phase adds for every eligible recipient.
Bookkeeping(p) ==
  CASE Repeated(p) -> [kind |-> KindOf(p), status |-> "grouped"]
    [] Digested(p) -> [kind |-> "digest",
                       status |-> IF DigestGrouped(p) THEN "grouped" ELSE "pending"]
    [] Echo(p)     -> [kind |-> "immediate", status |-> "grouped"]
    [] OTHER       -> [kind |-> "none", status |-> "none"]

\* eligible_recipients: the loaded candidates, filtered by the current database.
Eligible_AnyKind(candidates, p) == candidates \cap active
Eligible(candidates, p) == candidates \cap active \cap Wants[p]

\* The delivery rows after one of kind k and status s[r] was added to match i for
\* every recipient r of R.
WithRows(i, R, k, s) ==
  [row EXCEPT ![i] = [r \in Recipient |-> [q \in Kind |->
     IF r \in R /\ q = k THEN s[r] ELSE row[i][r][q]]]]

\* The unique (match, recipient, kind) constraint of the delivery table refuses:
\* rows that an earlier holder of the id left behind are in the way.
Collides(i, R, k) == \E r \in R, q \in Kind : q = k /\ row[i][r][q] # "none"

Spend(d) == left[d] > 0 /\ left' = [left EXCEPT ![d] = @ - 1]

-----------------------------------------------------------------------------
Init ==
  /\ table = [i \in Id |-> NoPosting]
  /\ suppressed = {}
  /\ row = [i \in Id |-> NoRow]
  /\ snoozed = FALSE /\ held = FALSE
  /\ active = Recipient /\ untargeted = {} /\ aged = {}
  /\ seen = {} /\ delivered = {} /\ loaded = Recipient
  /\ task = [t \in Task |-> IdleTask]
  /\ resend = IdleResend
  /\ arrived = {} /\ decided = {} /\ lost = {}
  /\ owed = [p \in Posting |-> {}]
  /\ accepted = [p \in Posting |-> [r \in Recipient |-> 0]]
  /\ blind = [p \in Posting |-> [r \in Recipient |-> 0]]
  /\ left = Budget
-----------------------------------------------------------------------------
\* A message reaches a handler: process_message_with_retry with the recipients
\* the listener has loaded.  A second arrival is a catch-up that fetches what
\* the live handler also saw, or a message that was given up on earlier.
Receive(t, p) ==
  /\ task[t].pc = "idle"
  /\ \/ p \notin arrived /\ UNCHANGED left
     \/ p \in arrived /\ Spend("repeat")
  /\ task' = [task EXCEPT ![t] = [IdleTask EXCEPT !.pc = "write", !.posting = p,
                                                  !.todo = loaded]]
  /\ arrived' = arrived \cup {p}
  /\ UNCHANGED <<database, memory, resend, decided, owed, accepted, blind, lost>>

\* --- the write phase of process_message: one transaction, no await ---

\* The signature cache already holds the text: dropped as "duplicate".
DropSeenText(t) ==
  /\ task[t].pc = "write"
  /\ SignatureOf[task[t].posting] \in seen
  /\ task' = [task EXCEPT ![t] = IdleTask]
  /\ UNCHANGED <<database, memory, resend, arrived, decided, owed, accepted,
                 blind, lost, left>>

\* should_process marked the signature, _persist_match found the identity.
DropKnown(t) ==
  LET p == task[t].posting IN
  /\ task[t].pc = "write"
  /\ SignatureOf[p] \notin seen
  /\ IsKnown(p)
  /\ seen' = seen \cup {SignatureOf[p]}
  /\ task' = [task EXCEPT ![t] = IdleTask]
  /\ UNCHANGED <<database, delivered, loaded, resend, arrived, decided, owed,
                 accepted, blind, lost, left>>

\* The task is at the start of the write phase of a posting nobody persisted.
IsNew_Unchecked(t) == task[t].pc = "write"
IsNew(t) ==
  /\ task[t].pc = "write"
  /\ SignatureOf[task[t].posting] \notin seen
  /\ ~IsKnown(task[t].posting)

\* A match row, its bookkeeping rows, the mark in the cache, and the verdict that
\* exactly the recipients of alerted are to be alerted, committed together.
Persist(t, i, alerted) ==
  LET p == task[t].posting
      R == Eligible(task[t].todo, p)
      b == Bookkeeping(p) IN
  /\ IsNextId(i)
  /\ ~Collides(i, R, b.kind)
  /\ table' = [table EXCEPT ![i] = p]
  /\ row' = WithRows(i, R, b.kind, [r \in Recipient |-> b.status])
  /\ seen' = seen \cup {SignatureOf[p]}
  /\ decided' = decided \cup {p}
  /\ owed' = [owed EXCEPT ![p] = alerted]
  /\ UNCHANGED <<suppressed, settings, delivered, loaded, resend, arrived,
                 accepted, blind, lost, left>>

\* Snoozed, grouped or left to the digest: the match is kept, no alert is sent.
PersistQuietly(t, i) ==
  /\ IsNew(t) /\ Quiet(task[t].posting)
  /\ Persist(t, i, {})
  /\ task' = [task EXCEPT ![t] = IdleTask]

\* The alert is owed to the eligible recipients; the network phase follows.
PersistAlert(t, i) ==
  LET R == Eligible(task[t].todo, task[t].posting) IN
  /\ IsNew(t) /\ ~Quiet(task[t].posting)
  /\ Persist(t, i, R)
  /\ task' = [task EXCEPT ![t] = [@ EXCEPT !.pc = "notify", !.id = i, !.todo = R]]

\* The database stayed locked: everything is rolled back and the signature is
\* forgotten.  The handler tries again, or gives the message up.
WriteLocked_NoForget(t) ==
  /\ task[t].pc = "write"
  /\ Spend("lock")
  /\ seen' = seen \cup {SignatureOf[task[t].posting]}
  /\ UNCHANGED <<database, delivered, loaded, task, resend, arrived, decided, owed,
                 accepted, blind, lost>>
WriteLocked(t) ==
  /\ task[t].pc = "write"
  /\ Spend("lock")
  /\ \/ UNCHANGED task
     \/ task' = [task EXCEPT ![t] = IdleTask]
  /\ UNCHANGED <<database, memory, resend, arrived, decided, owed, accepted,
                 blind, lost>>

\* A new delivery row is refused: rolled back, forgotten, and not retried.
WriteRefused(t, i) ==
  LET p == task[t].posting IN
  /\ IsNew(t)
  /\ IsNextId(i)
  /\ Collides(i, Eligible(task[t].todo, p), Bookkeeping(p).kind)
  /\ task' = [task EXCEPT ![t] = IdleTask]
  /\ UNCHANGED <<database, memory, resend, arrived, decided, owed, accepted,
                 blind, lost, left>>

\* --- the network phase: notify_with_retry, one recipient after the other ---

\* BotNotifier.notify answers without a call: not in the allowlist any more, or
\* the pair was already delivered.
BlockReason_Forgetful(i, r) == IF r \in loaded THEN "none" ELSE "not_allowlisted"
BlockReason(i, r) ==
  CASE r \notin loaded                              -> "not_allowlisted"
    [] r \in loaded /\ <<i, r>> \in delivered       -> "duplicate"
    [] OTHER                                        -> "none"

\* The recipient a task turns to: the one it retries, else the next one.
Turn(t, r) ==
  /\ task[t].pc = "notify"
  /\ r \in task[t].todo
  /\ task[t].cur \in {r, NoRecipient}

\* The task is done with recipient r, with status s.
Settled_Again(t, r, s) ==
  [task[t] EXCEPT !.pc = "notify", !.cur = NoRecipient,
                  !.tries = 0, !.out = [@ EXCEPT ![r] = s]]
Settled(t, r, s) ==
  [task[t] EXCEPT !.pc = "notify", !.todo = @ \ {r}, !.cur = NoRecipient,
                  !.tries = 0, !.out = [@ EXCEPT ![r] = s]]

NotifyBlocked(t, r) ==
  /\ Turn(t, r)
  /\ BlockReason(task[t].id, r) # "none"
  /\ task' = [task EXCEPT ![t] = Settled(t, r, BlockReason(task[t].id, r))]
  /\ UNCHANGED <<database, memory, resend, arrived, decided, owed, accepted,
                 blind, lost, left>>

CallBot(t, r) ==
  /\ Turn(t, r)
  /\ BlockReason(task[t].id, r) = "none"
  /\ task' = [task EXCEPT ![t].pc = "calling", ![t].cur = r]
  /\ UNCHANGED <<database, memory, resend, arrived, decided, owed, accepted,
                 blind, lost, left>>

\* Telegram accepts the message; the answer is still on its way.
BotAccepts(t) ==
  LET p == task[t].posting
      r == task[t].cur IN
  /\ task[t].pc = "calling"
  /\ accepted' = [accepted EXCEPT ![p][r] = @ + 1]
  /\ task' = [task EXCEPT ![t].pc = "accepted"]
  /\ UNCHANGED <<database, memory, resend, arrived, decided, owed, blind, lost, left>>

BotAnswers(t) ==
  LET r == task[t].cur IN
  /\ task[t].pc = "accepted"
  /\ delivered' = delivered \cup {<<task[t].id, r>>}
  /\ task' = [task EXCEPT ![t] = Settled(t, r, "sent")]
  /\ UNCHANGED <<database, seen, loaded, resend, arrived, decided, owed,
                 accepted, blind, lost, left>>

\* An attempt raised: tried again after a pause, "failed" after the last one.
AttemptFails_OneMore(t) ==
  task' = [task EXCEPT ![t] =
             IF @.tries < NotifyAttempts
               THEN [@ EXCEPT !.pc = "notify", !.tries = @ + 1]
               ELSE Settled(t, @.cur, "failed")]
AttemptFails(t) ==
  task' = [task EXCEPT ![t] =
             IF task[t].tries + 1 < NotifyAttempts
               THEN [task[t] EXCEPT !.pc = "notify", !.tries = @ + 1]
               ELSE Settled(t, task[t].cur, "failed")]

\* The call failed, and the message did not arrive.
BotRefuses(t) ==
  /\ task[t].pc = "calling"
  /\ Spend("refuse")
  /\ AttemptFails(t)
  /\ UNCHANGED <<database, memory, resend, arrived, decided, owed, accepted,
                 blind, lost>>

\* The message arrived, and the answer was lost.
BotTimesOut(t) ==
  LET p == task[t].posting
      r == task[t].cur IN
  /\ task[t].pc = "accepted"
  /\ Spend("timeout")
  /\ AttemptFails(t)
  /\ blind' = [blind EXCEPT ![p][r] = @ + 1]
  /\ UNCHANGED <<database, memory, resend, arrived, decided, owed, accepted, lost>>

\* --- _record_delivery_outcomes: one short transaction ---

Outcomes_SentOnly(t) == {r \in Recipient : task[t].out[r] = "sent"}
Outcomes(t) == {r \in Recipient : task[t].out[r] # "none"}
NetworkDone(t) == task[t].pc = "notify" /\ task[t].todo = {}

OutcomeCollides(t) ==
  Collides(task[t].id, Outcomes(t), KindOf(task[t].posting))

RecordOutcomes(t) ==
  /\ NetworkDone(t)
  /\ ~OutcomeCollides(t)
  /\ row' = WithRows(task[t].id, Outcomes(t), KindOf(task[t].posting), task[t].out)
  /\ task' = [task EXCEPT ![t] = IdleTask]
  /\ UNCHANGED <<table, suppressed, settings, memory, resend, arrived, decided, owed,
                 accepted, blind, lost, left>>

\* The write was locked to the last attempt: running the message again only finds
\* its signature in the cache.
OutcomesLocked(t) ==
  /\ NetworkDone(t)
  /\ Outcomes(t) # {}
  /\ Spend("lock")
  /\ lost' = lost \cup {task[t].posting}
  /\ task' = [task EXCEPT ![t] = IdleTask]
  /\ UNCHANGED <<database, memory, resend, arrived, decided, owed, accepted, blind>>

\* The unique constraint refuses the write: the handler fails, and so it goes again.
OutcomesRefused(t) ==
  /\ NetworkDone(t)
  /\ OutcomeCollides(t)
  /\ lost' = lost \cup {task[t].posting}
  /\ task' = [task EXCEPT ![t] = IdleTask]
  /\ UNCHANGED <<database, memory, resend, arrived, decided, owed, accepted, blind, left>>

-----------------------------------------------------------------------------
\* --- resend_failed_deliveries, one pass at a time ---

\* The row is younger than RESEND_MAX_AGE, and the text can be rebuilt: a target
\* alert names the target price of its rule.
Current(c) ==
  /\ <<c.id, c.recipient, c.kind>> \notin aged
  /\ c.kind = "target" => c.posting \notin untargeted

\* Failed rows worth another try now: the match and the recipient are there, the row is
\* current, and a plain alert is not held back by a snooze or by the digest.
Resendable_AnyUnsent ==
  {c \in Candidate :
     /\ table[c.id] = c.posting
     /\ row[c.id][c.recipient][c.kind] \notin {"none", "sent"}
     /\ c.recipient \in active /\ Current(c)}
Resendable_PlainOnly ==
  {c \in Candidate :
     /\ table[c.id] = c.posting
     /\ row[c.id][c.recipient][c.kind] = "failed"
     /\ c.kind = "immediate" /\ ~held /\ ~snoozed
     /\ c.recipient \in active /\ Current(c)}
Resendable ==
  {c \in Candidate :
     /\ table[c.id] = c.posting
     /\ row[c.id][c.recipient][c.kind] = "failed"
     /\ c.kind \in {"immediate", "target"}
     /\ c.recipient \in active /\ Current(c)
     /\ c.kind = "immediate" => ~held /\ ~snoozed}

LoadCandidates ==
  /\ resend.pc = "idle"
  /\ Resendable # {}
  /\ resend' = [resend EXCEPT !.pc = "notify", !.todo = Resendable]
  /\ UNCHANGED <<database, memory, task, arrived, decided, owed, accepted, blind,
                 lost, left>>

\* The pass goes on to its next candidate, or ends.
NextCandidate(todo) ==
  resend' = IF todo = {} THEN IdleResend
            ELSE [pc |-> "notify", todo |-> todo, cur |-> {}]

ResendCalls_BlockedIsSent(c) ==
  /\ resend.pc = "notify" /\ c \in resend.todo
  /\ LET rest == resend.todo \ {c} IN
     resend' = [pc |-> IF BlockReason(c.id, c.recipient) = "none" THEN "calling" ELSE "mark",
                todo |-> rest, cur |-> {c}]
  /\ UNCHANGED <<database, memory, task, arrived, decided, owed, accepted, blind,
                 lost, left>>
ResendCalls(c) ==
  /\ resend.pc = "notify" /\ c \in resend.todo
  /\ LET reason == BlockReason(c.id, c.recipient)
         rest == resend.todo \ {c} IN
     \/ reason = "not_allowlisted" /\ NextCandidate(rest)
     \/ reason = "duplicate" /\ resend' = [pc |-> "mark", todo |-> rest, cur |-> {c}]
     \/ reason = "none" /\ resend' = [pc |-> "calling", todo |-> rest, cur |-> {c}]
  /\ UNCHANGED <<database, memory, task, arrived, decided, owed, accepted, blind,
                 lost, left>>

ResendAccepted(c) ==
  /\ resend.pc = "calling" /\ c \in resend.cur
  /\ accepted' = [accepted EXCEPT ![c.posting][c.recipient] = @ + 1]
  /\ resend' = [resend EXCEPT !.pc = "accepted"]
  /\ UNCHANGED <<database, memory, task, arrived, decided, owed, blind, lost, left>>

ResendAnswered(c) ==
  /\ resend.pc = "accepted" /\ c \in resend.cur
  /\ delivered' = delivered \cup {<<c.id, c.recipient>>}
  /\ resend' = [resend EXCEPT !.pc = "mark"]
  /\ UNCHANGED <<database, seen, loaded, task, arrived, decided, owed, accepted,
                 blind, lost, left>>

ResendRefused ==
  /\ resend.pc = "calling"
  /\ Spend("refuse")
  /\ NextCandidate(resend.todo)
  /\ UNCHANGED <<database, memory, task, arrived, decided, owed, accepted, blind, lost>>

ResendTimesOut(c) ==
  /\ resend.pc = "accepted" /\ c \in resend.cur
  /\ Spend("timeout")
  /\ blind' = [blind EXCEPT ![c.posting][c.recipient] = @ + 1]
  /\ NextCandidate(resend.todo)
  /\ UNCHANGED <<database, memory, task, arrived, decided, owed, accepted, lost>>

\* _mark_sent: only a row that is still failed becomes sent.
MarkSent(c) ==
  /\ resend.pc = "mark" /\ c \in resend.cur
  /\ row' = IF row[c.id][c.recipient][c.kind] = "failed"
              THEN WithRows(c.id, {c.recipient}, c.kind, [r \in Recipient |-> "sent"])
              ELSE row
  /\ NextCandidate(resend.todo)
  /\ UNCHANGED <<table, suppressed, settings, memory, task, arrived, decided, owed,
                 accepted, blind, lost, left>>

\* The mark stayed locked: the pass is abandoned, the row stays failed.
MarkLocked ==
  /\ resend.pc = "mark"
  /\ Spend("lock")
  /\ resend' = IdleResend
  /\ UNCHANGED <<database, memory, task, arrived, decided, owed, accepted, blind, lost>>

-----------------------------------------------------------------------------
\* process_historical_message: the match and its rows, and no alert.
ScanHistorical(p, i) ==
  LET R == Eligible(loaded, p) IN
  /\ ~IsKnown(p) /\ IsNextId(i)
  /\ ~Collides(i, R, "immediate")
  /\ Spend("repeat")
  /\ table' = [table EXCEPT ![i] = p]
  /\ row' = WithRows(i, R, "immediate", [r \in Recipient |-> "historical"])
  /\ decided' = decided \cup {p}
  /\ UNCHANGED <<suppressed, settings, memory, task, resend, arrived, owed,
                 accepted, blind, lost>>

\* delete_matches: every match of the message, what hangs off it, and a tombstone.
DeleteMatches(m) ==
  LET gone == {i \in Id : table[i] # NoPosting /\ MessageOf[table[i]] = m} IN
  /\ gone # {}
  /\ Spend("delete")
  /\ suppressed' = suppressed \cup {m}
  /\ table' = [i \in Id |-> IF i \in gone THEN NoPosting ELSE table[i]]
  /\ row' = [i \in Id |-> IF i \in gone THEN NoRow ELSE row[i]]
  /\ aged' = {a \in aged : a[1] \notin gone}
  /\ UNCHANGED <<snoozed, held, active, untargeted, memory, task, resend, arrived,
                 decided, owed, accepted, blind, lost>>

\* The panel: a snooze set or lifted, the digest switched, a recipient paused or
\* resumed, the target price of a rule removed or set again after its verdicts.
Edit ==
  /\ Spend("edit")
  /\ \/ snoozed' = ~snoozed /\ UNCHANGED <<held, active, untargeted>>
     \/ held' = ~held /\ UNCHANGED <<snoozed, active, untargeted>>
     \/ \E r \in Recipient :
          /\ active' = IF r \in active THEN active \ {r} ELSE active \cup {r}
          /\ UNCHANGED <<snoozed, held, untargeted>>
     \/ /\ untargeted' \in SUBSET {p \in decided : TargetHit[p]}
        /\ UNCHANGED <<snoozed, held, active>>
  /\ UNCHANGED <<table, suppressed, row, aged, memory, task, resend, arrived, decided,
                 owed, accepted, blind, lost>>

\* RESEND_MAX_AGE passes for a row that is still failed.
RowAges ==
  \E i \in Id, r \in Recipient, k \in Kind :
    /\ row[i][r][k] = "failed" /\ <<i, r, k>> \notin aged
    /\ Spend("age")
    /\ aged' = aged \cup {<<i, r, k>>}
    /\ UNCHANGED <<table, suppressed, row, snoozed, held, active, untargeted, memory,
                   task, resend, arrived, decided, owed, accepted, blind, lost>>

\* The listener applies a reload request: recipients and allowlist as a whole.
Reload ==
  /\ loaded # active
  /\ loaded' = active
  /\ UNCHANGED <<database, seen, delivered, task, resend, arrived, decided, owed,
                 accepted, blind, lost, left>>

\* An alert the resend pass got through whose row still says failed: a restart
\* forgets that it was delivered.
Unmarked(p, r) ==
  \/ /\ resend.pc = "accepted"
     /\ \E c \in resend.cur : c.posting = p /\ c.recipient = r
  \/ \E i \in Id, k \in Kind :
       table[i] = p /\ row[i][r][k] = "failed" /\ <<i, r>> \in delivered

\* The listener process dies and starts again: its memory is gone, and with it
\* every send whose outcome was not written yet.
Crash ==
  /\ Spend("crash")
  /\ seen' = {} /\ delivered' = {} /\ loaded' = active
  /\ lost' = lost \cup {p \in Posting : \E t \in Task :
                          task[t].posting = p /\ task[t].pc # "write"}
  /\ task' = [t \in Task |-> IdleTask]
  /\ resend' = IdleResend
  /\ blind' = [p \in Posting |-> [r \in Recipient |->
                 IF Unmarked(p, r) THEN blind[p][r] + 1 ELSE blind[p][r]]]
  /\ UNCHANGED <<database, arrived, decided, owed, accepted>>

-----------------------------------------------------------------------------
Write(t) ==
  \/ DropSeenText(t) \/ DropKnown(t)
  \/ \E i \in Id : PersistQuietly(t, i) \/ PersistAlert(t, i) \/ WriteRefused(t, i)

Network(t) ==
  \/ \E r \in Recipient : NotifyBlocked(t, r) \/ CallBot(t, r)
  \/ BotAccepts(t) \/ BotAnswers(t)

Resend ==
  \/ LoadCandidates
  \/ \E c \in resend.todo \cup resend.cur :
       ResendCalls(c) \/ ResendAccepted(c) \/ ResendAnswered(c) \/ MarkSent(c)

Disturb ==
  \/ \E t \in Task :
       WriteLocked(t) \/ BotRefuses(t) \/ BotTimesOut(t) \/ OutcomesLocked(t)
  \/ ResendRefused \/ MarkLocked
  \/ \E c \in resend.cur : ResendTimesOut(c)
  \/ Crash

Outside ==
  \/ \E t \in Task, p \in Posting : Receive(t, p)
  \/ \E p \in Posting, i \in Id : ScanHistorical(p, i)
  \/ \E m \in Message : DeleteMatches(m)
  \/ Edit \/ RowAges

Record(t) == RecordOutcomes(t) \/ OutcomesRefused(t)

Next ==
  \/ \E t \in Task : Write(t) \/ Network(t) \/ Record(t)
  \/ Resend \/ Reload \/ Disturb \/ Outside

Spec == Init /\ [][Next]_vars

\* The event loop runs every task that can go on, the resend pass is periodic.
Fairness ==
  /\ \A t \in Task : WF_vars(Write(t) \/ Network(t) \/ Record(t))
  /\ WF_vars(Resend)

FairSpec == Spec /\ Fairness

-----------------------------------------------------------------------------
Promise == INSTANCE AlertPromise WITH
  alerted <- [p \in Posting |-> {r \in Recipient : accepted[p][r] > 0}]

TypeOK ==
  /\ table \in [Id -> Posting \cup {NoPosting}]
  /\ suppressed \subseteq Message
  /\ row \in [Id -> [Recipient -> [Kind -> Status]]]
  /\ snoozed \in BOOLEAN /\ held \in BOOLEAN
  /\ active \subseteq Recipient
  /\ untargeted \subseteq Posting /\ aged \subseteq Id \X Recipient \X Kind
  /\ seen \subseteq Signature
  /\ delivered \subseteq Id \X Recipient
  /\ loaded \subseteq Recipient
  /\ task \in [Task -> TaskState]
  /\ resend \in ResendState
  /\ arrived \subseteq Posting /\ decided \subseteq Posting /\ lost \subseteq Posting
  /\ owed \in [Posting -> SUBSET Recipient]
  /\ accepted \in [Posting -> [Recipient -> Nat]]
  /\ blind \in [Posting -> [Recipient -> Nat]]
  /\ left \in [Disturbance -> Nat]

\* A text is only dropped as a duplicate of a posting the database knows: one that
\* failed to commit is never held back by its own mark (the forget in
\* process_message), whatever locks, repeats, deletions and restarts happen.
SeenMeansKnown ==
  \A s \in seen : \E p \in Posting : SignatureOf[p] = s /\ IsKnown(p)

\* A posting gets one verdict: through retries, catch-ups, historical scans,
\* restarts with a cold cache and deletions nobody decides again whom to alert.
VerdictIsFinal ==
  [][\A p \in decided : p \in decided' /\ owed'[p] = owed[p] /\
        \A i \in Id : table'[i] = p => table[i] = p]_vars

\* A message whose match the admin deleted never has a match again (_persist_match
\* against delete_matches, in whatever order rules, repeats and scans come).
SuppressedStaysGone ==
  \A i \in Id : table[i] # NoPosting => MessageOf[table[i]] \notin suppressed

\* No two handlers are ever in the network phase for the same posting.
SoleSender ==
  \A t, u \in Task :
    /\ task[t].pc \in {"notify", "calling", "accepted"}
    /\ task[u].pc \in {"notify", "calling", "accepted"}
    /\ task[t].posting = task[u].posting
    => t = u

\* Nobody but the people the verdict named gets an alert, through first sends and
\* resends: not who was paused, who did not want it, a snoozed, grouped, digested
\* or historical match.
OnlyOwedAreAlerted ==
  \A p \in Posting, r \in Recipient :
    accepted[p][r] > 0 => r \in owed[p] /\ r \in Wants[p]

\* The pipeline implements AlertPromise: an alert accepted by Telegram, whether by
\* the first send or by a resend, is owed to its recipient by the one verdict.
KeepsPromise == Promise!Spec

\* Telegram accepts an alert twice only after an acceptance the listener could not
\* have known of: a lost answer, or a crash before the resend was marked.
AtMostOnceUnlessBlind ==
  \A p \in Posting, r \in Recipient : accepted[p][r] <= 1 + blind[p][r]

\* A delivery row says sent only of an alert that Telegram accepted.
SentIsHonest ==
  \A i \in Id, r \in Recipient, k \in Kind :
    table[i] # NoPosting /\ row[i][r][k] = "sent" => accepted[table[i]][r] > 0

\* A person an alert is owed to has a row for it once its handler is done, unless
\* the write of the outcomes was lost or the admin deleted the match: no recipient
\* is forgotten between the verdict and the outcomes.
OutcomeAccounted ==
  \A p \in decided, r \in Recipient :
    r \in owed[p] =>
      \/ p \in lost
      \/ MessageOf[p] \in suppressed
      \/ \E t \in Task : task[t].posting = p /\ task[t].pc \in {"notify", "calling", "accepted"}
      \/ \E i \in Id : table[i] = p /\ row[i][r][KindOf(p)] # "none"

\* The same offer in two groups is one alert for a person and a channel, as long as
\* every call and every write succeeds and handlers do not overlap: what is grouped
\* is what a committed row says was sent (_already_notified_group_match_exists).
OneAlertPerOffer ==
  (\A d \in {"refuse", "timeout", "lock", "crash"} : left[d] = Budget[d]) =>
    \A p, q \in Posting, r \in Recipient :
      /\ p # q /\ OfferOf[p] = OfferOf[q] /\ OfferOf[p] # NoOffer
      /\ TargetHit[p] = TargetHit[q]
      => accepted[p][r] = 0 \/ accepted[q][r] = 0

\* A failed alert does not stay failed: the resend pass gets it through, unless it
\* is deleted, older than RESEND_MAX_AGE (delivery_retry.py:68,79), a target alert
\* whose rule lost its target price (95-96), or held back by a snooze, the digest or
\* a recipient that is paused or not yet loaded.
FailedIsResent ==
  \A i \in Id, r \in Recipient, k \in {"immediate", "target"} :
    row[i][r][k] = "failed" ~>
      \/ row[i][r][k] # "failed"
      \/ table[i] = NoPosting
      \/ r \notin active \cap loaded
      \/ <<i, r, k>> \in aged
      \/ k = "immediate" /\ (snoozed \/ held)
      \/ k = "target" /\ table[i] \in untargeted

\* A handler that took a message over comes to an end: no recipient, answer or
\* retry holds it for ever.
HandlerFinishes ==
  \A t \in Task : task[t].pc # "idle" ~> task[t].pc = "idle"

=============================================================================
