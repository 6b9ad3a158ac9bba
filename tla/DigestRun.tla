------------------------------ MODULE DigestRun ------------------------------
(***************************************************************************)
(* The daily digest: apps/api/app/digest.py, the scheduler of the listener   *)
(* that calls it, and BotNotifier.notify_digest.  A match that is held for   *)
(* the digest has a delivery row per recipient; a run sends each recipient   *)
(* the TopN cheapest of its pending rows and skips the others.               *)
(*                                                                         *)
(* One listener runs, and its event loop gives up control only while a call  *)
(* to the Bot API is under way; the panel, in another process, edits and     *)
(* deletes between any two steps.  Days are named modulo Days, and a day is  *)
(* not named again while a run of it is under way.                           *)
(***************************************************************************)
EXTENDS Integers, FiniteSets, FiniteSetsExt

CONSTANTS
  Recipient,
  TopN,      \* DigestSettings.top_n
  Days,      \* days are 0..Days - 1, over and over
  MaxId,     \* bound: row ids of the match table
  MaxBirths, \* bound: matches ever held for the digest
  Faults, Deletions, Edits  \* bounds: how often each kind of disturbance happens

\* A fault is a call or a commit that fails, or a restart of the listener.
Disturbance == {"fault", "delete", "edit"}
Budget ==
  [d \in Disturbance |-> CASE d = "fault" -> Faults [] d = "delete" -> Deletions [] d = "edit" -> Edits]

ASSUME DigestAssumption ==
  /\ TopN \in Nat \ {0} /\ Days \in Nat \ {0, 1}
  /\ MaxId \in Nat /\ MaxBirths \in Nat
  /\ Faults \in Nat /\ Deletions \in Nat /\ Edits \in Nat

VARIABLES
  \* the database
  table,    \* match rows: the birth number of the match, 0 for none
  births,   \* matches written so far, all at one price: the oldest comes first
  row,      \* recipient -> match id -> status of the delivery
  ran,      \* digest_run: the days that have a row
  enabled,  \* DigestSettings.enabled, with mute_individual
  active,   \* recipients that are active and allowlisted
  common,   \* recipients with notify_common
  \* the listener
  allowed,  \* the allowlist of the notifier
  run,      \* the run under way
  today,
  \* history and bounds
  got,      \* recipient -> match -> digests with it that Telegram accepted
  digests,  \* recipient -> day -> digests of that day that Telegram accepted
  tried,    \* recipient -> matches of a call that started, or of a run cut off before it
  swapped,  \* matches that took the id of one a plan held
  left      \* what is left of Budget

database == <<table, births, row, ran, enabled, active, common>>
history == <<got, digests, tried, swapped>>
vars == <<table, births, row, ran, enabled, active, common, allowed, run, today,
          got, digests, tried, swapped, left>>

Id == 1..MaxId
Birth == 1..MaxBirths
Day == 0..Days - 1
Status == {"none", "pending", "digest_attempted", "digest_skipped", "sent"}
Entry == [id : Id, birth : Birth]
NoPlan == [top |-> {}, over |-> {}]
IdleRun == [pc |-> "idle", day |-> 0, todo |-> {}, cur |-> {},
            plan |-> [r \in Recipient |-> NoPlan]]

Spend(d) == left[d] > 0 /\ left' = [left EXCEPT ![d] = @ - 1]

Init ==
  /\ table = [i \in Id |-> 0] /\ births = 0
  /\ row = [r \in Recipient |-> [i \in Id |-> "none"]]
  /\ ran = {} /\ enabled = TRUE /\ active = Recipient /\ common = Recipient
  /\ allowed = Recipient /\ run = IdleRun /\ today = 0
  /\ got = [r \in Recipient |-> [b \in Birth |-> 0]]
  /\ digests = [r \in Recipient |-> [d \in Day |-> 0]]
  /\ tried = [r \in Recipient |-> {}] /\ swapped = {}
  /\ left = Budget

-----------------------------------------------------------------------------
(* Around the run *)

\* The event loop is free: nothing runs, or a call to the Bot API is awaited.
LoopFree == run.pc \in {"idle", "calling", "accepted"}

Planned(r) == {e.id : e \in run.plan[r].top \cup run.plan[r].over}

\* The pipeline holds a match for the digest, for some of the recipients it knows.
Hold ==
  \E i \in Id, R \in SUBSET (active \cap common \cap allowed) :
    /\ LoopFree /\ enabled
    /\ births < MaxBirths /\ R # {}
    /\ i = 1 + Max({0} \cup {j \in Id : table[j] # 0})
    /\ table' = [table EXCEPT ![i] = births + 1]
    /\ births' = births + 1
    /\ row' = [r \in Recipient |-> [row[r] EXCEPT ![i] = IF r \in R THEN "pending" ELSE "none"]]
    /\ swapped' = IF \E r \in Recipient : i \in Planned(r) THEN swapped \cup {births + 1} ELSE swapped
    /\ UNCHANGED <<ran, enabled, active, common, allowed, run, today, got, digests, tried, left>>

\* delete_matches: the match and its deliveries.
Delete(i) ==
  /\ table[i] # 0 /\ Spend("delete")
  /\ table' = [table EXCEPT ![i] = 0]
  /\ row' = [r \in Recipient |-> [row[r] EXCEPT ![i] = "none"]]
  /\ UNCHANGED <<births, ran, enabled, active, common, allowed, run, today, history>>

Toggled(S, r) == IF r \in S THEN S \ {r} ELSE S \cup {r}
Edit ==
  /\ Spend("edit")
  /\ \/ enabled' = ~enabled /\ UNCHANGED <<active, common>>
     \/ \E r \in Recipient : active' = Toggled(active, r) /\ UNCHANGED <<enabled, common>>
     \/ \E r \in Recipient : common' = Toggled(common, r) /\ UNCHANGED <<enabled, active>>
  /\ UNCHANGED <<table, births, row, ran, allowed, run, today, history>>

\* The listener applies the rules: the allowlist as a whole.
Reload ==
  /\ LoopFree /\ allowed # active
  /\ allowed' = active
  /\ UNCHANGED <<database, run, today, history, left>>

\* The date is read when a tick begins: that it changes while nothing is awaited is
\* not told apart from a change right after.
NewDay ==
  LET next == (today + 1) % Days IN
  /\ LoopFree
  /\ run.pc # "idle" => run.day # next
  /\ today' = next
  /\ ran' = ran \ {next}
  /\ digests' = [r \in Recipient |-> [digests[r] EXCEPT ![next] = 0]]
  /\ UNCHANGED <<table, births, row, enabled, active, common, allowed, run, got, tried, swapped, left>>

-----------------------------------------------------------------------------
(* run_digest_once *)

\* The scheduler finds the digest due; the row of the day comes first.
Due_Always == enabled
Due == enabled /\ today \notin ran
Tick ==
  /\ run.pc = "idle" /\ Due
  /\ ran' = ran \cup {today}
  /\ run' = [IdleRun EXCEPT !.pc = "plan", !.day = today]
  /\ UNCHANGED <<table, births, row, enabled, active, common, allowed, today, history, left>>

\* load_pending_queue, cheapest first, cut after TopN.
Queue(r) == {e \in Entry : table[e.id] = e.birth /\ row[r][e.id] = "pending"}
Top(r) == {e \in Queue(r) : Cardinality({f \in Queue(r) : f.birth < e.birth}) < TopN}
Reachable_Unambiguous ==
  {r \in active \cap common \cap allowed :
     Queue(r) # {} /\ \A i \in Id : row[r][i] # "digest_attempted"}
Reachable == {r \in active \cap common \cap allowed : Queue(r) # {}}
Plan ==
  /\ run.pc = "plan"
  /\ run' = [run EXCEPT !.pc = "next", !.todo = Reachable,
               !.plan = [r \in Recipient |->
                  IF r \in Reachable THEN [top |-> Top(r), over |-> Queue(r) \ Top(r)]
                                     ELSE NoPlan]]
  /\ UNCHANGED <<database, allowed, today, history, left>>

\* _mark_deliveries: the rows of one recipient that are in the expected state.
Marked(r, entries, from, to) ==
  [i \in Id |-> IF row[r][i] = from /\ \E e \in entries : e.id = i THEN to ELSE row[r][i]]

\* The reservation of one recipient's rows, committed before its call.
Reserve(r) ==
  /\ run.pc = "next" /\ r \in run.todo
  /\ row' = [row EXCEPT ![r] =
       [i \in Id |->
          IF \E e \in run.plan[r].over : e.id = i
          THEN Marked(r, run.plan[r].over, "pending", "digest_skipped")[i]
          ELSE Marked(r, run.plan[r].top, "pending", "digest_attempted")[i]]]
  /\ run' = [run EXCEPT !.pc = "reserved", !.todo = @ \ {r}, !.cur = {r}]
  /\ UNCHANGED <<table, births, ran, enabled, active, common, allowed, today, history, left>>

\* The matches the rows of a plan stand for now.
Standing(r) == {table[i] : i \in Planned(r)} \ {0}

\* On to the next recipient: the plan of this one is not looked at again.
Leave(r) == run' = [run EXCEPT !.pc = "next", !.cur = {}, !.plan[r] = NoPlan]

CallBot(r) ==
  /\ run.pc = "reserved" /\ r \in run.cur /\ r \in allowed
  /\ run' = [run EXCEPT !.pc = "calling"]
  /\ tried' = [tried EXCEPT ![r] = @ \cup Standing(r)]
  /\ UNCHANGED <<database, allowed, today, got, digests, swapped, left>>

\* The chat left the allowlist while an earlier recipient's call was awaited: the
\* reservation is taken back.
Reverted_TopOnly(r) == Marked(r, run.plan[r].top, "digest_attempted", "pending")
Reverted(r) ==
  [i \in Id |->
     IF \E e \in run.plan[r].over : e.id = i
     THEN Marked(r, run.plan[r].over, "digest_skipped", "pending")[i]
     ELSE Marked(r, run.plan[r].top, "digest_attempted", "pending")[i]]
TakeBack(r) ==
  /\ run.pc = "reserved" /\ r \in run.cur /\ r \notin allowed
  /\ row' = [row EXCEPT ![r] = Reverted(r)]
  /\ Leave(r)
  /\ UNCHANGED <<table, births, ran, enabled, active, common, allowed, today, history, left>>

BotAccepts(r) ==
  /\ run.pc = "calling" /\ r \in run.cur
  /\ run' = [run EXCEPT !.pc = "accepted"]
  /\ got' = [got EXCEPT ![r] = [b \in Birth |->
       IF \E e \in run.plan[r].top : e.birth = b THEN @[b] + 1 ELSE @[b]]]
  /\ digests' = [digests EXCEPT ![r][run.day] = @ + 1]
  /\ UNCHANGED <<database, allowed, today, tried, swapped, left>>

\* The answer: the attempted rows become sent.
BotAnswers(r) ==
  /\ run.pc = "accepted" /\ r \in run.cur
  /\ row' = [row EXCEPT ![r] = Marked(r, run.plan[r].top, "digest_attempted", "sent")]
  /\ Leave(r)
  /\ UNCHANGED <<table, births, ran, enabled, active, common, allowed, today, history, left>>

\* The call raises, before Telegram has the message or after: the rows stay attempted.
AfterFailure_Retry(r) == Marked(r, run.plan[r].top, "digest_attempted", "pending")
AfterFailure_Sent(r) == Marked(r, run.plan[r].top, "digest_attempted", "sent")
AfterFailure_Failed(r) == Marked(r, run.plan[r].top, "digest_attempted", "failed")
AfterFailure(r) == row[r]
BotFails(r) ==
  /\ run.pc \in {"calling", "accepted"} /\ r \in run.cur /\ Spend("fault")
  /\ row' = [row EXCEPT ![r] = AfterFailure(r)]
  /\ Leave(r)
  /\ UNCHANGED <<table, births, ran, enabled, active, common, allowed, today, history>>

Finish ==
  /\ run.pc = "next" /\ run.todo = {}
  /\ run' = IdleRun
  /\ UNCHANGED <<database, allowed, today, history, left>>

\* The run ends where it is: what is reserved and not called yet stays reserved.
CutOff ==
  /\ tried' = [r \in Recipient |-> IF run.pc = "reserved" /\ r \in run.cur
                                   THEN tried[r] \cup Standing(r) ELSE tried[r]]
  /\ run' = IdleRun

\* A commit finds the database locked for too long: the exception ends the run.
CommitFails ==
  /\ \/ run.pc = "next" /\ run.todo # {}
     \/ run.pc = "reserved" /\ run.cur \cap allowed = {}
     \/ run.pc = "accepted"
  /\ Spend("fault")
  /\ CutOff
  /\ UNCHANGED <<database, allowed, today, got, digests, swapped>>

\* The listener dies and starts again.
Crash ==
  /\ Spend("fault")
  /\ CutOff /\ allowed' = active
  /\ UNCHANGED <<database, today, got, digests, swapped>>

Step ==
  \/ Plan \/ Finish
  \/ \E r \in Recipient : Reserve(r) \/ CallBot(r) \/ TakeBack(r) \/ BotAccepts(r) \/ BotAnswers(r)

Next ==
  \/ Tick \/ Step
  \/ \E r \in Recipient : BotFails(r)
  \/ CommitFails \/ Crash
  \/ Hold \/ Edit \/ Reload \/ NewDay \/ \E i \in Id : Delete(i)

Spec == Init /\ [][Next]_vars

\* The scheduler polls, calls end, and days pass.
Fairness == WF_vars(Tick) /\ WF_vars(Step) /\ WF_vars(NewDay)
FairSpec == Spec /\ Fairness

-----------------------------------------------------------------------------
(* Properties *)

\* Every variable keeps its type.
TypeOK ==
  /\ table \in [Id -> 0..MaxBirths] /\ births \in 0..MaxBirths
  /\ row \in [Recipient -> [Id -> Status]]
  /\ ran \subseteq Day /\ enabled \in BOOLEAN /\ today \in Day
  /\ active \subseteq Recipient /\ common \subseteq Recipient /\ allowed \subseteq Recipient
  /\ run \in [pc : {"idle", "plan", "next", "reserved", "calling", "accepted"}, day : Day,
              todo : SUBSET Recipient, cur : SUBSET Recipient,
              plan : [Recipient -> [top : SUBSET Entry, over : SUBSET Entry]]]
  /\ got \in [Recipient -> [Birth -> Nat]] /\ digests \in [Recipient -> [Day -> Nat]]
  /\ tried \in [Recipient -> SUBSET Birth] /\ swapped \subseteq Birth
  /\ left \in [Disturbance -> Nat]

\* Nobody gets a match in two digests, on this or any later day, whatever answers are
\* lost and wherever the listener dies (digest.py:245-250).
ItemAtMostOnce == \A r \in Recipient, b \in Birth : got[r][b] <= 1

\* Nobody gets two digests for a day: the row of the day is there before anything is
\* sent, and outlives a run that was cut off.
OneDigestADay == \A r \in Recipient, d \in Day : digests[r][d] <= 1

\* A row says sent only of a match whose digest Telegram accepted, unless the match
\* took the id of one that was deleted while it was planned.
SentIsHonest ==
  \A r \in Recipient, i \in Id :
    row[r][i] = "sent" => got[r][table[i]] > 0 \/ table[i] \in swapped

\* A known local block leaves the whole queue of the recipient pending, the rows that
\* did not fit included: nothing is attempted or skipped for which no call was
\* started, unless the listener was stopped on the way back.
BlockedStaysPending ==
  \A r \in Recipient, i \in Id :
    row[r][i] \in {"digest_attempted", "digest_skipped"} =>
      \/ table[i] \in tried[r]
      \/ run.pc = "reserved" /\ r \in run.cur

\* What waits for the digest does not wait for ever while the digest is on and its
\* recipient wants it: a run that was cut off leaves it to the next day.
QueueIsTaken ==
  \A r \in Recipient, i \in Id :
    row[r][i] = "pending" ~>
      row[r][i] # "pending" \/ ~enabled \/ r \notin active \cap common \cap allowed
=============================================================================
