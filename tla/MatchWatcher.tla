---------------------------- MODULE MatchWatcher ----------------------------
(***************************************************************************)
(* How a match the listener writes becomes an event of the live feed: the   *)
(* api process reads the shared table every two seconds                     *)
(* (apps/api/app/match_watcher.py).  The listener writes the match first    *)
(* and its delivery later; a scan of the history writes both at once; the   *)
(* panel deletes rows, whose ids SQLite gives out again.                    *)
(*                                                                         *)
(* What the broker does with the events is the business of EventStream.     *)
(***************************************************************************)
EXTENDS Integers, Sequences, FiniteSets, SequencesExt

CONSTANTS
  MaxId,       \* bound: the highest row id
  MaxTracked,  \* published matches the watcher still compares (MAX_TRACKED)
  MaxHeld,     \* matches it holds back (MAX_PENDING)
  BatchLimit,  \* new rows one poll takes (BATCH_LIMIT)
  MaxBirths,   \* bound: matches ever written
  MaxDeletes, MaxFailures, MaxRestarts  \* bounds on deletions and on what fails

ASSUME WatcherAssumption ==
  /\ MaxId \in Nat \ {0} /\ MaxTracked \in Nat \ {0} /\ MaxHeld \in Nat \ {0}
  /\ BatchLimit \in Nat \ {0}
  /\ MaxBirths \in Nat /\ MaxDeletes \in Nat /\ MaxFailures \in Nat /\ MaxRestarts \in Nat

Row == 1..MaxId

VARIABLES
  \* the database
  match,     \* the match of a row: its birth number, how it was written, its deliveries
  births,    \* matches written so far
  \* the watcher
  lastSeen,  \* _last_seen_id, NoCursor before the first poll
  held,      \* _pending: whether the grace period of a row it holds back is over
  tracked,   \* _published: the rows it compares, oldest first, with their signatures
  polling,   \* no, read (the new ids, not yet their rows), or hung in its thread
  outbox,    \* the events a poll has returned, to be published by the event loop
  \* history and bounds
  owed,      \* live matches written above the cursor of a watcher that runs
  told,      \* events published
  lost,      \* events lost when the building of one failed, nothing of their match told since
  deletes, failures, restarts

watcher == <<lastSeen, held, tracked, polling, outbox>>
bounds == <<deletes, failures, restarts>>
vars == <<match, births, lastSeen, held, tracked, polling, outbox, owed, told,
          lost, deletes, failures, restarts>>

NoCursor == -1
\* No delivery, or what its rows say; unsent for failed, grouped and waiting for the
\* digest, which are not told apart.
Status == {"none", "unsent", "sent", "historical"}
Absent == [birth |-> 0, origin |-> "none", status |-> "none"]
Match == [birth : 0..MaxBirths, origin : {"none", "live", "history"},
          status : Status]
Signatures == [status : Status, at : 0..MaxBirths]
Event == [row : Row, birth : 0..MaxBirths, signature : Signatures]

Exists(r) == match[r] # Absent
Highest == Max({0} \cup {r \in Row : Exists(r)})

\* _signature: the deliveries of a row; only a sent one has a time of its own, by
\* which a new match under an old id differs.
Signature(r) == [status |-> match[r].status,
                 at |-> IF match[r].status = "sent" THEN match[r].birth ELSE 0]
HasDelivery(r) == match[r].status # "none"
HistoricalOnly_Never(r) == FALSE
HistoricalOnly(r) == match[r].status = "historical"
EventFor(r) == [row |-> r, birth |-> match[r].birth, signature |-> Signature(r)]

Init ==
  /\ match = [r \in Row |-> Absent] /\ births = 0
  /\ lastSeen = NoCursor /\ held = [r \in Row |-> "no"] /\ tracked = <<>>
  /\ polling = "no" /\ outbox = <<>>
  /\ owed = {} /\ told = {} /\ lost = {}
  /\ deletes = 0 /\ failures = 0 /\ restarts = 0

-----------------------------------------------------------------------------
(* The listener and the panel *)

\* A new match takes the row after the highest one.  A scan of the history writes the
\* deliveries of the eligible recipients with it, if there is one.
Write(origin, status) ==
  LET r == Highest + 1 IN
  /\ r <= MaxId /\ births < MaxBirths
  /\ births' = births + 1
  /\ match' = [match EXCEPT ![r] = [birth |-> births + 1, origin |-> origin, status |-> status]]
  /\ owed' = IF origin = "live" /\ lastSeen # NoCursor /\ r > lastSeen
             THEN owed \cup {births + 1} ELSE owed
  /\ UNCHANGED <<watcher, told, lost, bounds>>

\* A live match has no delivery yet, or it is grouped or waits for the digest.
Persist == Write("live", "none") \/ Write("live", "unsent")
Scan == Write("history", "historical") \/ Write("history", "none")

\* The outcome of a live match's delivery, or of an unsent one that the resend pass or
\* the digest sent.
RecordOutcome(r) ==
  /\ match[r].origin = "live" /\ match[r].status \in {"none", "unsent"}
  /\ \E s \in {"unsent", "sent"} \ {match[r].status} :
       match' = [match EXCEPT ![r].status = s]
  /\ UNCHANGED <<births, watcher, owed, told, lost, bounds>>

Delete(r) ==
  /\ Exists(r)
  /\ deletes < MaxDeletes /\ deletes' = deletes + 1
  /\ match' = [match EXCEPT ![r] = Absent]
  /\ owed' = owed \ {match[r].birth}
  /\ UNCHANGED <<births, watcher, told, lost, failures, restarts>>

-----------------------------------------------------------------------------
(* A poll: the new ids, then their rows, in a thread; then the events. *)

Free == polling = "no" /\ outbox = <<>>

FirstPoll ==
  /\ Free /\ lastSeen = NoCursor
  /\ lastSeen' = Highest
  /\ UNCHANGED <<match, births, held, tracked, polling, outbox, owed, told, lost, bounds>>

\* The new rows are held.  Over the cap the oldest is marked as due, over and over: its
\* entry stays where it is, so that the loop that waits for fewer entries never ends.
HeldNow(h) == {r \in Row : h[r] # "no"}
Oldest(h) == Min(HeldNow(h))
OverCap(h) == Cardinality(HeldNow(h)) > MaxHeld
Batch(rows) == {r \in rows : Cardinality({k \in rows : k < r}) < BatchLimit}
LastOf_Highest(rows) == Highest
LastOf(rows) == Max(rows)
Look ==
  LET new == {r \in Row : Exists(r) /\ r > lastSeen}
      now == [r \in Row |-> IF r \in Batch(new) THEN "waiting" ELSE held[r]]
  IN
  /\ Free /\ lastSeen # NoCursor
  /\ \/ /\ new = {}
        /\ polling' = "read" /\ UNCHANGED <<lastSeen, held>>
     \/ /\ new # {} /\ ~OverCap(now)
        /\ polling' = "read" /\ lastSeen' = LastOf(Batch(new)) /\ held' = now
     \/ /\ new # {} /\ OverCap(now)
        /\ polling' = "hung" /\ lastSeen' = LastOf(Batch(new))
        /\ held' = [now EXCEPT ![Oldest(now)] = "due"]
  /\ UNCHANGED <<match, births, tracked, outbox, owed, told, lost, bounds>>

\* What a poll does with a row it holds.  A row that is gone has no delivery either.
Drops(r) == held[r] # "no" /\ (HistoricalOnly(r) \/ (held[r] = "due" /\ ~Exists(r)))
Ready(r) == HasDelivery(r) \/ held[r] = "due"
Emits(r) == held[r] # "no" /\ ~Drops(r) /\ Exists(r) /\ Ready(r)
\* A row it has published is compared with what it published.
Changed_LateOnly(t) ==
  Exists(t.row) /\ ~Emits(t.row) /\ t.signature.status = "none" /\ HasDelivery(t.row)
Changed(t) ==
  /\ Exists(t.row) /\ ~Emits(t.row)
  /\ Signature(t.row) # t.signature /\ ~HistoricalOnly(t.row)

\* _remember: to the end of the rows it compares, the oldest leaving over the cap.
WithRow(s, e) == Append(SelectSeq(s, LAMBDA t : t.row # e.row), [row |-> e.row, signature |-> e.signature])
Capped_Not(s) == s
Capped(s) == IF Len(s) > MaxTracked THEN Tail(s) ELSE s
Remembered_Once(s, e) == IF \E i \in DOMAIN s : s[i].row = e.row THEN s ELSE Capped(WithRow(s, e))
Remembered(s, e) == Capped(WithRow(s, e))

\* The rows to publish: those held, by id, then those that changed, in their order.
Publishable ==
  SelectSeq([i \in 1..MaxId |-> i], Emits)
  \o LET changed == SelectSeq(tracked, Changed) IN [i \in DOMAIN changed |-> changed[i].row]
Events == LET rows == Publishable IN [i \in DOMAIN rows |-> EventFor(rows[i])]

Judge ==
  /\ polling = "read" /\ polling' = "no"
  /\ held' = [r \in Row |-> IF Drops(r) \/ Emits(r) THEN "no" ELSE held[r]]
  /\ outbox' = Events
  /\ tracked' = FoldLeft(Remembered, tracked, Events)
  /\ UNCHANGED <<match, births, lastSeen, owed, told, lost, bounds>>

\* The rows cannot be read: what is held stays so, and the next poll reads it.
ReadFailsKeeping(h) ==
  /\ polling = "read" /\ polling' = "no"
  /\ failures < MaxFailures /\ failures' = failures + 1
  /\ held' = h
  /\ UNCHANGED <<match, births, lastSeen, tracked, outbox, owed, told, lost, deletes, restarts>>
ReadFails_Forgets == ReadFailsKeeping([r \in Row |-> "no"])
ReadFails == ReadFailsKeeping(held)

\* The statement that builds an event fails: those before it were remembered and are
\* never published, and the row it was for is held no longer.  A row that was told
\* before keeps its old signature, so that the next poll tries it again.
JudgeFails ==
  \E i \in DOMAIN Events :
    LET done == SubSeq(Events, 1, i - 1)
        row == Events[i].row
        gone == {Events[k].row : k \in 1..i} \cup {r \in Row : Drops(r) /\ (Emits(row) => r < row)}
    IN
    /\ polling = "read" /\ polling' = "no"
    /\ failures < MaxFailures /\ failures' = failures + 1
    /\ held' = [r \in Row |-> IF r \in gone THEN "no" ELSE held[r]]
    /\ tracked' = FoldLeft(Remembered, tracked, done)
    /\ lost' = lost \cup ToSet(done) \cup {e \in {Events[i]} : held[row] # "no"}
    /\ UNCHANGED <<match, births, lastSeen, outbox, owed, told, deletes, restarts>>

Publish ==
  /\ outbox # <<>>
  /\ told' = told \cup ToSet(outbox)
  /\ outbox' = <<>>
  /\ lost' = {e \in lost : \A n \in ToSet(outbox) : n.birth # e.birth}
  /\ UNCHANGED <<match, births, lastSeen, held, tracked, polling, owed, bounds>>

\* The grace period of the rows held first is over.
GraceOver ==
  \E r \in Row :
    /\ held[r] = "waiting"
    /\ \A k \in 1..r - 1 : held[k] # "waiting"
    /\ held' = [held EXCEPT ![r] = "due"]
    /\ UNCHANGED <<match, births, lastSeen, tracked, polling, outbox, owed, told, lost, bounds>>

\* The api process restarts; a new watcher starts at the last row.
Restart ==
  /\ restarts < MaxRestarts /\ restarts' = restarts + 1
  /\ lastSeen' = NoCursor /\ held' = [r \in Row |-> "no"] /\ tracked' = <<>>
  /\ polling' = "no" /\ outbox' = <<>>
  /\ owed' = {}
  /\ UNCHANGED <<match, births, told, lost, deletes, failures>>

Next ==
  \/ Persist \/ Scan \/ \E r \in Row : RecordOutcome(r) \/ Delete(r)
  \/ FirstPoll \/ Look \/ Judge \/ ReadFails \/ JudgeFails \/ Publish \/ GraceOver \/ Restart

Spec == Init /\ [][Next]_vars

\* The loop polls every two seconds and time passes.  The listener may never record
\* the outcome of a match.
Fairness ==
  /\ WF_vars(FirstPoll) /\ WF_vars(Look) /\ WF_vars(Judge) /\ WF_vars(Publish)
  /\ WF_vars(GraceOver)
FairSpec == Spec /\ Fairness

-----------------------------------------------------------------------------
(* Properties *)

\* Every variable keeps its type, and what the watcher compares stays bounded.
TypeOK ==
  /\ match \in [Row -> Match] /\ births \in 0..MaxBirths
  /\ lastSeen \in Row \cup {0, NoCursor}
  /\ held \in [Row -> {"no", "waiting", "due"}]
  /\ tracked \in Seq([row : Row, signature : Signatures]) /\ Len(tracked) <= MaxTracked
  /\ polling \in {"no", "read", "hung"}
  /\ outbox \in Seq(Event) /\ Len(outbox) <= MaxId
  /\ owed \subseteq 1..MaxBirths /\ told \subseteq Event /\ lost \subseteq Event
  /\ deletes \in 0..MaxDeletes /\ failures \in 0..MaxFailures /\ restarts \in 0..MaxRestarts

\* Old messages are not news: what a scan of the history found never jumps to the top
\* of the feed (match_watcher.py:15-18), as long as somebody was to receive it.
HistoryIsNotNews == \A e \in told \cup ToSet(outbox) : e.signature.status # "historical"

\* No change of a card is told twice: neither the tracking's cap, nor a poll that
\* failed half way, nor a restart makes the watcher repeat itself.
ToldOnce ==
  [][outbox' # outbox /\ outbox' # <<>>
       => ToSet(outbox') \cap told = {}]_vars

\* The news of a live match: told, or of a match that is gone.
Told(b) == \E e \in told : e.birth = b
\* Every live match written above the cursor of a running watcher is published in the
\* end, with its outcome or, after the grace period, without one, and a failed read is
\* retried (match_watcher.py:217-222).  Excused are the matches whose own event was
\* lost because the building of one failed, and all of them once the poll hangs.
Lost(b) == \E e \in lost : e.birth = b
Hung == polling = "hung"
NewsIsPublished ==
  \A b \in 1..MaxBirths : (b \in owed) ~> (Told(b) \/ b \notin owed \/ Lost(b) \/ Hung)

\* What match_watcher.py:168 says: over the cap the watcher stops holding the oldest
\* instead of growing, so that a match is published however many are held.
HeldIsReleased ==
  \A b \in 1..MaxBirths : (b \in owed) ~> (Told(b) \/ b \notin owed \/ Lost(b))

\* The card of a match that is still tracked shows its last outcome in the end, failed
\* reads included, unless its row is one that the watcher remembers of a match before
\* it, its own last event was lost because the building of one failed, or the poll hangs.
Shown(r) == \E e \in told : e.birth = match[r].birth /\ e.signature = Signature(r)
Tracked(r) == \E i \in DOMAIN tracked : tracked[i].row = r
Reused(r) == \E e \in told \cup lost : e.row = r /\ e.birth # match[r].birth
OutcomeIsShown ==
  \A r \in Row : (Tracked(r) /\ match[r].origin = "live")
                   ~> (Shown(r) \/ ~Tracked(r) \/ Reused(r) \/ Lost(match[r].birth) \/ Hung)
=============================================================================
