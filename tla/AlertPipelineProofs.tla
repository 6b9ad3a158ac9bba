------------------------- MODULE AlertPipelineProofs -------------------------
(***************************************************************************)
(* Theorems about AlertPipeline, for every set of postings, people and      *)
(* tasks and every budget of disturbances: its types, what its retries and   *)
(* steps keep, and who is alerted, how often, and what the delivery rows say *)
(* of it.  The accounting of outcomes holds whatever the admin deletes.  The *)
(* rest of the last part holds until the first deletion: an outcome written  *)
(* after it may land on the next holder of the row id.                       *)
(***************************************************************************)
EXTENDS AlertPipeline, TLAPS

\* The task of no handler is a task.
LEMMA IdleTaskType == IdleTask \in TaskState
BY PipelineAssumption DEF IdleTask, TaskState, NoOutcome, Status, Id

\* The resend pass at rest is one of its states.
LEMMA IdleResendType == IdleResend \in ResendState
BY DEF IdleResend, ResendState

\* Outcomes written as delivery rows leave a table of deliveries.
LEMMA WithRowsType ==
  ASSUME TypeOK, NEW i \in Id, NEW R \in SUBSET Recipient, NEW k,
         NEW s \in [Recipient -> Status]
  PROVE  WithRows(i, R, k, s) \in [Id -> [Recipient -> [Kind -> Status]]]
BY DEF WithRows, TypeOK

\* A handler done with a recipient is still a task.
LEMMA SettledType ==
  ASSUME TypeOK, NEW t \in Task, NEW r \in Recipient, NEW s \in Status
  PROVE  Settled(t, r, s) \in TaskState
<1> DEFINE out == [task[t].out EXCEPT ![r] = s]
<1>1. task[t] \in TaskState
  BY DEF TypeOK
<1>2. out \in [Recipient -> Status]
  BY <1>1 DEF TaskState
<1>3. task[t].todo \ {r} \in SUBSET Recipient
  BY <1>1 DEF TaskState
<1> HIDE DEF out
<1>4. 0 \in 0..(NotifyAttempts - 1)
  BY PipelineAssumption
<1>5. [task[t] EXCEPT !.pc = "notify", !.todo = task[t].todo \ {r},
                      !.cur = NoRecipient, !.tries = 0, !.out = out] \in TaskState
  BY <1>1, <1>2, <1>3, <1>4 DEF TaskState
<1> QED
  BY <1>5 DEF Settled, out

\* Spending leaves the budget a budget.
LEMMA SpendType ==
  ASSUME TypeOK, NEW d \in Disturbance, Spend(d)
  PROVE  left' \in [Disturbance -> Nat]
BY DEF Spend, TypeOK

\* The types hold at the start.
LEMMA InitType == Init => TypeOK
<1> SUFFICES ASSUME Init PROVE TypeOK
  OBVIOUS
<1>1. row \in [Id -> [Recipient -> [Kind -> Status]]]
  BY DEF Init, NoRow, Status
<1>2. task \in [Task -> TaskState] /\ resend \in ResendState
  BY IdleTaskType, IdleResendType DEF Init
<1>3. /\ accepted \in [Posting -> [Recipient -> Nat]]
      /\ blind \in [Posting -> [Recipient -> Nat]]
      /\ left \in [Disturbance -> Nat]
  BY PipelineAssumption DEF Init
<1>4. QED
  BY <1>1, <1>2, <1>3 DEF Init, TypeOK

\* The conjuncts of TypeOK about the handlers, the resend pass, the delivery rows
\* and the rest, for the steps that leave most of them alone.
StoreType ==
  /\ table \in [Id -> Posting \cup {NoPosting}]
  /\ suppressed \subseteq Message
  /\ row \in [Id -> [Recipient -> [Kind -> Status]]]
  /\ snoozed \in BOOLEAN /\ held \in BOOLEAN
  /\ active \subseteq Recipient
  /\ untargeted \subseteq Posting /\ aged \subseteq Id \X Recipient \X Kind
MemoryType ==
  /\ seen \subseteq Signature
  /\ delivered \subseteq Id \X Recipient
  /\ loaded \subseteq Recipient
TaskType == task \in [Task -> TaskState]
ResendType == resend \in ResendState
HistoryType ==
  /\ arrived \subseteq Posting /\ decided \subseteq Posting /\ lost \subseteq Posting
  /\ owed \in [Posting -> SUBSET Recipient]
  /\ accepted \in [Posting -> [Recipient -> Nat]]
  /\ blind \in [Posting -> [Recipient -> Nat]]
  /\ left \in [Disturbance -> Nat]

\* Type correctness, part by part.
LEMMA TypeParts ==
  TypeOK <=> StoreType /\ MemoryType /\ TaskType /\ ResendType /\ HistoryType
BY DEF TypeOK, StoreType, MemoryType, TaskType, ResendType, HistoryType

\* The same of the next state.
LEMMA TypePartsPrimed ==
  TypeOK' <=> StoreType' /\ MemoryType' /\ TaskType' /\ ResendType' /\ HistoryType'
BY DEF TypeOK, StoreType, MemoryType, TaskType, ResendType, HistoryType

\* A task beyond "idle" has a posting, one in the network phase the id of its
\* match, and one that calls the bot a recipient.
NetworkPhase == {"notify", "calling", "accepted"}
Occupied(v) ==
  /\ v.pc # "idle" => v.posting \in Posting
  /\ v.pc \in NetworkPhase => v.id \in Id
  /\ v.pc \in {"calling", "accepted"} => v.cur \in Recipient
AllOccupied == \A t \in Task : Occupied(task[t])

\* A task at rest owes nothing to AllOccupied.
LEMMA IdleOccupied == Occupied(IdleTask)
BY DEF Occupied, IdleTask, NetworkPhase

\* A step that moves one task to a well-formed state keeps all tasks well-formed.
LEMMA MoveTask ==
  ASSUME TypeOK, AllOccupied, NEW t \in Task, NEW v \in TaskState, Occupied(v),
         task' = [task EXCEPT ![t] = v]
  PROVE  TaskType' /\ AllOccupied'
<1>1. task \in [Task -> TaskState]
  BY DEF TypeOK
<1>2. task' \in [Task -> TaskState]
  BY <1>1
<1>3. ASSUME NEW u \in Task PROVE Occupied(task'[u])
  BY <1>1, <1>3 DEF AllOccupied
<1>4. QED
  BY <1>2, <1>3 DEF TaskType, AllOccupied, Occupied

\* A message starts a handler: types.
LEMMA ReceiveType ==
  ASSUME TypeOK, AllOccupied, NEW t \in Task, NEW p \in Posting, Receive(t, p)
  PROVE  TypeOK' /\ AllOccupied'
<1> DEFINE v == [IdleTask EXCEPT !.pc = "write", !.posting = p, !.todo = loaded]
<1>1. v \in TaskState
  BY PipelineAssumption, IdleTaskType DEF TypeOK, TaskState
<1>2. Occupied(v)
  BY DEF Occupied, IdleTask, NetworkPhase
<1>3. TaskType' /\ AllOccupied'
  <2> HIDE DEF v
  <2> QED BY <1>1, <1>2, MoveTask DEF Receive, v
<1>4. left' \in [Disturbance -> Nat]
  BY SpendType DEF Receive, TypeOK, Disturbance
<1>5. StoreType' /\ MemoryType' /\ ResendType' /\ HistoryType'
  BY <1>4, TypeParts DEF Receive, StoreType, MemoryType, ResendType, HistoryType,
                         database, memory
<1>6. QED
  BY <1>3, <1>5, TypePartsPrimed

\* Frames: what a step leaves alone keeps its type.
LEMMA Frames ==
  ASSUME TypeOK
  PROVE  /\ UNCHANGED database => StoreType'
         /\ UNCHANGED memory => MemoryType'
         /\ UNCHANGED task /\ AllOccupied => TaskType' /\ AllOccupied'
         /\ UNCHANGED resend => ResendType'
<1>1. StoreType /\ MemoryType /\ TaskType /\ ResendType
  BY TypeParts
<1>2. UNCHANGED database => StoreType'
  BY <1>1 DEF database, StoreType
<1>3. UNCHANGED memory => MemoryType'
  BY <1>1 DEF memory, MemoryType
<1>4. UNCHANGED task /\ AllOccupied => TaskType' /\ AllOccupied'
  BY <1>1 DEF TaskType, AllOccupied
<1>5. UNCHANGED resend => ResendType'
  BY <1>1 DEF ResendType
<1>6. QED
  BY <1>2, <1>3, <1>4, <1>5

\* A task that ends is idle again.
LEMMA EndTask ==
  ASSUME TypeOK, AllOccupied, NEW t \in Task, task' = [task EXCEPT ![t] = IdleTask]
  PROVE  TaskType' /\ AllOccupied'
BY IdleTaskType, IdleOccupied, MoveTask

\* A message that ends in the write phase: types.
LEMMA DropType ==
  ASSUME TypeOK, AllOccupied, NEW t \in Task, DropSeenText(t) \/ DropKnown(t)
  PROVE  TypeOK' /\ AllOccupied'
<1>1. task[t].posting \in Posting
  BY DEF AllOccupied, Occupied, DropSeenText, DropKnown
<1>2. TaskType' /\ AllOccupied'
  BY EndTask DEF DropSeenText, DropKnown
<1>3. MemoryType'
  BY <1>1, Frames, PipelineAssumption DEF DropSeenText, DropKnown, MemoryType, TypeOK
<1>4. StoreType' /\ ResendType'
  BY Frames DEF DropSeenText, DropKnown
<1>5. HistoryType'
  BY DEF DropSeenText, DropKnown, HistoryType, TypeOK
<1>6. QED
  BY <1>2, <1>3, <1>4, <1>5, TypePartsPrimed

\* What every persisted match has in common: types.
LEMMA PersistTypes ==
  ASSUME TypeOK, AllOccupied, NEW t \in Task, NEW i \in Id,
         NEW alerted \in SUBSET Recipient, IsNew(t), Persist(t, i, alerted)
  PROVE  StoreType' /\ MemoryType' /\ ResendType' /\ HistoryType'
<1> DEFINE p == task[t].posting
           R == Eligible(task[t].todo, p)
           b == Bookkeeping(p)
<1>1. p \in Posting
  BY DEF IsNew, AllOccupied, Occupied
<1>2. R \in SUBSET Recipient
  BY DEF Eligible, TypeOK
<1>3. b.status \in Status
  BY DEF Bookkeeping, Status
<1>4. row' \in [Id -> [Recipient -> [Kind -> Status]]]
  <2>1. [r \in Recipient |-> b.status] \in [Recipient -> Status]
    BY <1>3
  <2>2. row' = WithRows(i, R, b.kind, [r \in Recipient |-> b.status])
    BY DEF Persist
  <2> HIDE DEF R, b
  <2>3. QED
    BY <1>2, <2>1, <2>2, WithRowsType
<1>5. StoreType'
  BY <1>1, <1>4 DEF Persist, StoreType, TypeOK, settings
<1>6. MemoryType'
  <2>1. SignatureOf[p] \in Signature
    BY <1>1, PipelineAssumption
  <2>2. seen' = seen \cup {SignatureOf[p]} /\ UNCHANGED <<delivered, loaded>>
    BY DEF Persist
  <2>3. QED
    BY <2>1, <2>2 DEF MemoryType, TypeOK
<1>7. ResendType' /\ HistoryType'
  BY <1>1 DEF Persist, ResendType, HistoryType, TypeOK
<1>8. QED
  BY <1>5, <1>6, <1>7

\* A match that alerts nobody now: types.
LEMMA PersistQuietlyType ==
  ASSUME TypeOK, AllOccupied, NEW t \in Task, NEW i \in Id, PersistQuietly(t, i)
  PROVE  TypeOK' /\ AllOccupied'
<1>1. StoreType' /\ MemoryType' /\ ResendType' /\ HistoryType'
  BY PersistTypes DEF PersistQuietly
<1>2. TaskType' /\ AllOccupied'
  BY EndTask DEF PersistQuietly
<1>3. QED
  BY <1>1, <1>2, TypePartsPrimed

\* A match that goes on to the network phase: types.
LEMMA PersistAlertType ==
  ASSUME TypeOK, AllOccupied, NEW t \in Task, NEW i \in Id, PersistAlert(t, i)
  PROVE  TypeOK' /\ AllOccupied'
<1> DEFINE R == Eligible(task[t].todo, task[t].posting)
           v == [task[t] EXCEPT !.pc = "notify", !.id = i, !.todo = R]
<1>1. R \in SUBSET Recipient
  BY DEF Eligible, TypeOK
<1>2. StoreType' /\ MemoryType' /\ ResendType' /\ HistoryType'
  BY <1>1, PersistTypes DEF PersistAlert
<1>3. task[t] \in TaskState /\ task[t].posting \in Posting
  BY DEF TypeOK, PersistAlert, IsNew, AllOccupied, Occupied
<1>4. v \in TaskState
  <2> HIDE DEF R
  <2> QED BY <1>1, <1>3 DEF TaskState
<1>5. Occupied(v)
  BY <1>3 DEF Occupied, TaskState, NetworkPhase
<1>6. task' = [task EXCEPT ![t] = v]
  BY DEF PersistAlert, TypeOK
<1>7. TaskType' /\ AllOccupied'
  <2> HIDE DEF v
  <2> QED BY <1>4, <1>5, <1>6, MoveTask
<1>8. QED
  BY <1>2, <1>7, TypePartsPrimed

\* A commit the unique index refuses: types.
LEMMA WriteRefusedType ==
  ASSUME TypeOK, AllOccupied, NEW t \in Task, NEW i \in Id, WriteRefused(t, i)
  PROVE  TypeOK' /\ AllOccupied'
<1>1. TaskType' /\ AllOccupied'
  BY EndTask DEF WriteRefused
<1>2. StoreType' /\ MemoryType' /\ ResendType'
  BY Frames DEF WriteRefused
<1>3. HistoryType'
  BY DEF WriteRefused, HistoryType, TypeOK
<1>4. QED
  BY <1>1, <1>2, <1>3, TypePartsPrimed

\* A commit that meets a lock: types.
LEMMA WriteLockedType ==
  ASSUME TypeOK, AllOccupied, NEW t \in Task, WriteLocked(t)
  PROVE  TypeOK' /\ AllOccupied'
<1>1. TaskType' /\ AllOccupied'
  BY EndTask, Frames DEF WriteLocked
<1>2. left' \in [Disturbance -> Nat]
  BY SpendType DEF WriteLocked, Disturbance
<1>3. StoreType' /\ MemoryType' /\ ResendType'
  BY Frames DEF WriteLocked
<1>4. HistoryType'
  BY <1>2 DEF WriteLocked, HistoryType, TypeOK
<1>5. QED
  BY <1>1, <1>3, <1>4, TypePartsPrimed

\* A recipient the notifier will not call has one of the known reasons.
LEMMA BlockReasonType ==
  ASSUME NEW i, NEW r PROVE BlockReason(i, r) \in Status
BY DEF BlockReason, Status

\* A task turning away from a recipient stays in the network phase.
LEMMA SettledOccupied ==
  ASSUME TypeOK, AllOccupied, NEW t \in Task, NEW r \in Recipient, NEW s \in Status,
         task[t].pc \in NetworkPhase
  PROVE  Occupied(Settled(t, r, s))
<1>1. /\ Settled(t, r, s).pc = "notify"
      /\ Settled(t, r, s).posting = task[t].posting
      /\ Settled(t, r, s).id = task[t].id
  BY DEF Settled, TypeOK, TaskState
<1>2. task[t].posting \in Posting /\ task[t].id \in Id
  BY DEF AllOccupied, Occupied, NetworkPhase
<1>3. QED
  BY <1>1, <1>2 DEF Occupied

\* A recipient passed over: types.
LEMMA NotifyBlockedType ==
  ASSUME TypeOK, AllOccupied, NEW t \in Task, NEW r \in Recipient, NotifyBlocked(t, r)
  PROVE  TypeOK' /\ AllOccupied'
<1> DEFINE v == Settled(t, r, BlockReason(task[t].id, r))
<1>1. v \in TaskState
  BY BlockReasonType, SettledType
<1>2. Occupied(v)
  BY BlockReasonType, SettledOccupied DEF NotifyBlocked, Turn, NetworkPhase
<1>3. TaskType' /\ AllOccupied'
  <2>1. task' = [task EXCEPT ![t] = v]
    BY DEF NotifyBlocked
  <2> HIDE DEF v
  <2>2. QED BY <1>1, <1>2, <2>1, MoveTask
<1>4. StoreType' /\ MemoryType' /\ ResendType'
  BY Frames DEF NotifyBlocked
<1>5. HistoryType'
  BY DEF NotifyBlocked, HistoryType, TypeOK
<1>6. QED
  BY <1>3, <1>4, <1>5, TypePartsPrimed

\* A call to the bot starts: types.
LEMMA CallBotType ==
  ASSUME TypeOK, AllOccupied, NEW t \in Task, NEW r \in Recipient, CallBot(t, r)
  PROVE  TypeOK' /\ AllOccupied'
<1> DEFINE v == [task[t] EXCEPT !.pc = "calling", !.cur = r]
<1>1. task[t] \in TaskState /\ task[t].posting \in Posting /\ task[t].id \in Id
  BY DEF TypeOK, CallBot, Turn, AllOccupied, Occupied, NetworkPhase
<1>2. v \in TaskState
  BY <1>1 DEF TaskState
<1>3. Occupied(v)
  BY <1>1 DEF Occupied, TaskState, NetworkPhase
<1>4. TaskType' /\ AllOccupied'
  <2>1. task' = [task EXCEPT ![t] = v]
    BY DEF CallBot, TypeOK
  <2> HIDE DEF v
  <2>2. QED BY <1>2, <1>3, <2>1, MoveTask
<1>5. StoreType' /\ MemoryType' /\ ResendType'
  BY Frames DEF CallBot
<1>6. HistoryType'
  BY DEF CallBot, HistoryType, TypeOK
<1>7. QED
  BY <1>4, <1>5, <1>6, TypePartsPrimed

\* Telegram has the message: types.
LEMMA BotAcceptsType ==
  ASSUME TypeOK, AllOccupied, NEW t \in Task, BotAccepts(t)
  PROVE  TypeOK' /\ AllOccupied'
<1> DEFINE v == [task[t] EXCEPT !.pc = "accepted"]
<1>1. /\ task[t] \in TaskState /\ task[t].posting \in Posting
      /\ task[t].id \in Id /\ task[t].cur \in Recipient
  BY DEF TypeOK, BotAccepts, AllOccupied, Occupied, NetworkPhase
<1>2. v \in TaskState
  BY <1>1 DEF TaskState
<1>3. Occupied(v)
  BY <1>1 DEF Occupied, TaskState, NetworkPhase
<1>4. TaskType' /\ AllOccupied'
  <2>1. task' = [task EXCEPT ![t] = v]
    BY DEF BotAccepts, TypeOK
  <2> HIDE DEF v
  <2>2. QED BY <1>2, <1>3, <2>1, MoveTask
<1>5. StoreType' /\ MemoryType' /\ ResendType'
  BY Frames DEF BotAccepts
<1>6. HistoryType'
  BY <1>1 DEF BotAccepts, HistoryType, TypeOK
<1>7. QED
  BY <1>4, <1>5, <1>6, TypePartsPrimed

\* Its answer arrives: types.
LEMMA BotAnswersType ==
  ASSUME TypeOK, AllOccupied, NEW t \in Task, BotAnswers(t)
  PROVE  TypeOK' /\ AllOccupied'
<1> DEFINE r == task[t].cur
           v == Settled(t, r, "sent")
<1>1. r \in Recipient /\ task[t].id \in Id
  BY DEF BotAnswers, AllOccupied, Occupied, NetworkPhase
<1>2. v \in TaskState /\ Occupied(v)
  BY <1>1, SettledType, SettledOccupied DEF BotAnswers, NetworkPhase, Status
<1>3. TaskType' /\ AllOccupied'
  <2>1. task' = [task EXCEPT ![t] = v]
    BY DEF BotAnswers
  <2> HIDE DEF v
  <2>2. QED BY <1>2, <2>1, MoveTask
<1>4. StoreType' /\ ResendType'
  BY Frames DEF BotAnswers
<1>5. MemoryType' /\ HistoryType'
  BY <1>1 DEF BotAnswers, MemoryType, HistoryType, TypeOK
<1>6. QED
  BY <1>3, <1>4, <1>5, TypePartsPrimed

\* A failed attempt: another one, or the recipient is given up.
LEMMA AttemptFailsType ==
  ASSUME TypeOK, AllOccupied, NEW t \in Task, AttemptFails(t),
         task[t].pc \in {"calling", "accepted"}
  PROVE  TaskType' /\ AllOccupied'
<1> DEFINE again == [task[t] EXCEPT !.pc = "notify", !.tries = task[t].tries + 1]
           over == Settled(t, task[t].cur, "failed")
<1>1. /\ task[t] \in TaskState /\ task[t].posting \in Posting
      /\ task[t].id \in Id /\ task[t].cur \in Recipient
  BY DEF TypeOK, AllOccupied, Occupied, NetworkPhase
<1>2. over \in TaskState /\ Occupied(over)
  BY <1>1, SettledType, SettledOccupied DEF NetworkPhase, Status
<1>3. CASE task[t].tries + 1 < NotifyAttempts
  <2>1. task[t].tries + 1 \in 0..(NotifyAttempts - 1)
    BY <1>1, <1>3, PipelineAssumption DEF TaskState
  <2>2. again \in TaskState
    BY <1>1, <2>1 DEF TaskState
  <2>3. Occupied(again)
    BY <1>1 DEF Occupied, TaskState, NetworkPhase
  <2>4. task' = [task EXCEPT ![t] = again]
    BY <1>3 DEF AttemptFails, TypeOK
  <2> HIDE DEF again
  <2>5. QED
    BY <2>2, <2>3, <2>4, MoveTask
<1>4. CASE ~(task[t].tries + 1 < NotifyAttempts)
  <2>1. task' = [task EXCEPT ![t] = over]
    BY <1>4 DEF AttemptFails, TypeOK
  <2> HIDE DEF over
  <2>2. QED
    BY <1>2, <2>1, MoveTask
<1>5. QED
  BY <1>3, <1>4

\* The two ways an attempt fails: types.
LEMMA AttemptsType ==
  ASSUME TypeOK, AllOccupied, NEW t \in Task, BotRefuses(t) \/ BotTimesOut(t)
  PROVE  TypeOK' /\ AllOccupied'
<1>1. task[t].posting \in Posting /\ task[t].cur \in Recipient
  BY DEF BotRefuses, BotTimesOut, AllOccupied, Occupied, NetworkPhase
<1>2. TaskType' /\ AllOccupied'
  BY AttemptFailsType DEF BotRefuses, BotTimesOut
<1>3. StoreType' /\ MemoryType' /\ ResendType'
  BY Frames DEF BotRefuses, BotTimesOut
<1>4. left' \in [Disturbance -> Nat]
  BY SpendType DEF BotRefuses, BotTimesOut, Disturbance
<1>5. HistoryType'
  <2>1. CASE BotRefuses(t)
    BY <2>1, <1>4 DEF BotRefuses, HistoryType, TypeOK
  <2>2. CASE BotTimesOut(t)
    <3>1. blind' \in [Posting -> [Recipient -> Nat]]
      BY <2>2, <1>1 DEF BotTimesOut, TypeOK
    <3>2. QED
      BY <3>1, <2>2, <1>4 DEF BotTimesOut, HistoryType, TypeOK
  <2>3. QED
    BY <2>1, <2>2
<1>6. QED
  BY <1>2, <1>3, <1>5, TypePartsPrimed

\* The outcomes are written: types.
LEMMA RecordOutcomesType ==
  ASSUME TypeOK, AllOccupied, NEW t \in Task, RecordOutcomes(t)
  PROVE  TypeOK' /\ AllOccupied'
<1>1. task[t] \in TaskState /\ task[t].id \in Id
  BY DEF TypeOK, RecordOutcomes, NetworkDone, AllOccupied, Occupied, NetworkPhase
<1>2. TaskType' /\ AllOccupied'
  BY EndTask DEF RecordOutcomes
<1>3. row' \in [Id -> [Recipient -> [Kind -> Status]]]
  <2>1. Outcomes(t) \in SUBSET Recipient /\ task[t].out \in [Recipient -> Status]
    BY <1>1 DEF Outcomes, TaskState
  <2>2. QED
    BY <1>1, <2>1, WithRowsType DEF RecordOutcomes
<1>4. StoreType'
  BY <1>3 DEF RecordOutcomes, StoreType, TypeOK, settings
<1>5. MemoryType' /\ ResendType'
  BY Frames DEF RecordOutcomes
<1>6. HistoryType'
  BY DEF RecordOutcomes, HistoryType, TypeOK
<1>7. QED
  BY <1>2, <1>4, <1>5, <1>6, TypePartsPrimed

\* The outcomes cannot be written: types.
LEMMA OutcomesGoneType ==
  ASSUME TypeOK, AllOccupied, NEW t \in Task, OutcomesLocked(t) \/ OutcomesRefused(t)
  PROVE  TypeOK' /\ AllOccupied'
<1>1. task[t].posting \in Posting
  BY DEF OutcomesLocked, OutcomesRefused, NetworkDone, AllOccupied, Occupied
<1>2. TaskType' /\ AllOccupied'
  BY EndTask DEF OutcomesLocked, OutcomesRefused
<1>3. StoreType' /\ MemoryType' /\ ResendType'
  BY Frames DEF OutcomesLocked, OutcomesRefused
<1>4. left' \in [Disturbance -> Nat]
  BY SpendType DEF OutcomesLocked, OutcomesRefused, Disturbance, TypeOK
<1>5. HistoryType'
  BY <1>1, <1>4 DEF OutcomesLocked, OutcomesRefused, HistoryType, TypeOK
<1>6. QED
  BY <1>2, <1>3, <1>5, TypePartsPrimed

\* The resend pass moves on: types.
LEMMA NextCandidateType ==
  ASSUME NEW todo \in SUBSET Candidate, NextCandidate(todo)
  PROVE  ResendType'
<1>1. [pc |-> "notify", todo |-> todo, cur |-> {}] \in ResendState
  BY DEF ResendState
<1>2. QED
  BY <1>1, IdleResendType DEF NextCandidate, ResendType

\* The steps of the resend pass.
LEMMA ResendTypes ==
  ASSUME TypeOK, AllOccupied,
         LoadCandidates \/ \E c \in resend.todo \cup resend.cur :
           ResendCalls(c) \/ ResendAccepted(c) \/ ResendAnswered(c) \/ MarkSent(c)
  PROVE  TypeOK' /\ AllOccupied'
<1>0. resend \in ResendState
  BY DEF TypeOK
<1>1. CASE LoadCandidates
  <2>1. ResendType'
    BY <1>0, <1>1 DEF LoadCandidates, ResendType, ResendState, Resendable
  <2>2. StoreType' /\ MemoryType' /\ TaskType' /\ AllOccupied'
    BY <1>1, Frames DEF LoadCandidates
  <2>3. HistoryType'
    BY <1>1 DEF LoadCandidates, HistoryType, TypeOK
  <2>4. QED
    BY <2>1, <2>2, <2>3, TypePartsPrimed
<1>2. ASSUME NEW c \in resend.todo \cup resend.cur,
             ResendCalls(c) \/ ResendAccepted(c) \/ ResendAnswered(c) \/ MarkSent(c)
      PROVE  TypeOK' /\ AllOccupied'
  <2>1. /\ c \in Candidate /\ c.posting \in Posting /\ c.recipient \in Recipient
        /\ c.id \in Id
    BY <1>0 DEF ResendState, Candidate
  <2>2. CASE ResendCalls(c)
    <3>1. resend.todo \ {c} \in SUBSET Candidate /\ {c} \in SUBSET Candidate
      BY <1>0, <2>1 DEF ResendState
    <3>2. ResendType'
      <4>1. CASE NextCandidate(resend.todo \ {c})
        BY <3>1, <4>1, NextCandidateType
      <4>2. CASE \E s \in {"mark", "calling"} :
                   resend' = [pc |-> s, todo |-> resend.todo \ {c}, cur |-> {c}]
        BY <3>1, <4>2 DEF ResendType, ResendState
      <4>3. QED
        BY <2>2, <4>1, <4>2 DEF ResendCalls
    <3>3. StoreType' /\ MemoryType' /\ TaskType' /\ AllOccupied'
      BY <2>2, Frames DEF ResendCalls
    <3>4. HistoryType'
      BY <2>2 DEF ResendCalls, HistoryType, TypeOK
    <3>5. QED
      BY <3>2, <3>3, <3>4, TypePartsPrimed
  <2>3. CASE ResendAccepted(c)
    <3>1. ResendType'
      BY <1>0, <2>3 DEF ResendAccepted, ResendType, ResendState
    <3>2. StoreType' /\ MemoryType' /\ TaskType' /\ AllOccupied'
      BY <2>3, Frames DEF ResendAccepted
    <3>3. HistoryType'
      BY <2>1, <2>3 DEF ResendAccepted, HistoryType, TypeOK
    <3>4. QED
      BY <3>1, <3>2, <3>3, TypePartsPrimed
  <2>4. CASE ResendAnswered(c)
    <3>1. ResendType'
      BY <1>0, <2>4 DEF ResendAnswered, ResendType, ResendState
    <3>2. StoreType' /\ TaskType' /\ AllOccupied'
      BY <2>4, Frames DEF ResendAnswered
    <3>3. MemoryType' /\ HistoryType'
      BY <2>1, <2>4 DEF ResendAnswered, MemoryType, HistoryType, TypeOK
    <3>4. QED
      BY <3>1, <3>2, <3>3, TypePartsPrimed
  <2>5. CASE MarkSent(c)
    <3>1. ResendType'
      <4>1. NextCandidate(resend.todo)
        BY <2>5 DEF MarkSent
      <4>2. QED
        BY <1>0, <4>1, NextCandidateType DEF ResendState
    <3>2. row' \in [Id -> [Recipient -> [Kind -> Status]]]
      <4>1. [r \in Recipient |-> "sent"] \in [Recipient -> Status]
        BY DEF Status
      <4>2. WithRows(c.id, {c.recipient}, c.kind, [r \in Recipient |-> "sent"])
              \in [Id -> [Recipient -> [Kind -> Status]]]
        BY <2>1, <4>1, WithRowsType
      <4>3. QED
        BY <2>5, <4>2 DEF MarkSent, TypeOK
    <3>3. StoreType'
      BY <2>5, <3>2 DEF MarkSent, StoreType, TypeOK, settings
    <3>4. MemoryType' /\ TaskType' /\ AllOccupied'
      BY <2>5, Frames DEF MarkSent
    <3>5. HistoryType'
      BY <2>5 DEF MarkSent, HistoryType, TypeOK
    <3>6. QED
      BY <3>1, <3>3, <3>4, <3>5, TypePartsPrimed
  <2>6. QED
    BY <1>2, <2>2, <2>3, <2>4, <2>5
<1>3. QED
  BY <1>1, <1>2

\* The disturbances of the resend pass, and a restart.
LEMMA ResendDisturbedType ==
  ASSUME TypeOK, AllOccupied,
         ResendRefused \/ MarkLocked \/ \E c \in resend.cur : ResendTimesOut(c)
  PROVE  TypeOK' /\ AllOccupied'
<1>0. resend \in ResendState /\ resend.todo \in SUBSET Candidate
  BY DEF TypeOK, ResendState
<1>1. left' \in [Disturbance -> Nat]
  BY SpendType DEF ResendRefused, MarkLocked, ResendTimesOut, Disturbance
<1>2. StoreType' /\ MemoryType' /\ TaskType' /\ AllOccupied'
  BY Frames DEF ResendRefused, MarkLocked, ResendTimesOut
<1>3. ResendType'
  BY <1>0, NextCandidateType, IdleResendType
     DEF ResendRefused, MarkLocked, ResendTimesOut, ResendType
<1>4. CASE ResendRefused \/ MarkLocked
  BY <1>1, <1>2, <1>3, <1>4, TypePartsPrimed
     DEF ResendRefused, MarkLocked, HistoryType, TypeOK
<1>5. ASSUME NEW c \in resend.cur, ResendTimesOut(c)
      PROVE  TypeOK' /\ AllOccupied'
  <2>1. c.posting \in Posting /\ c.recipient \in Recipient
    BY <1>0, <1>5 DEF ResendState, Candidate
  <2>2. blind' \in [Posting -> [Recipient -> Nat]]
    BY <1>5, <2>1 DEF ResendTimesOut, TypeOK
  <2>3. HistoryType'
    BY <1>1, <1>5, <2>2 DEF ResendTimesOut, HistoryType, TypeOK
  <2>4. QED
    BY <1>2, <1>3, <2>3, TypePartsPrimed
<1>6. QED
  BY <1>4, <1>5

\* The process dies: types.
LEMMA CrashType ==
  ASSUME TypeOK, AllOccupied, Crash
  PROVE  TypeOK' /\ AllOccupied'
<1>1. TaskType' /\ AllOccupied' /\ ResendType'
  BY IdleTaskType, IdleResendType, IdleOccupied
     DEF Crash, TaskType, AllOccupied, ResendType
<1>2. StoreType'
  BY Frames DEF Crash
<1>3. MemoryType'
  BY DEF Crash, MemoryType, TypeOK
<1>4. blind' \in [Posting -> [Recipient -> Nat]]
  BY DEF Crash, TypeOK
<1>5. left' \in [Disturbance -> Nat]
  BY SpendType DEF Crash, Disturbance
<1>6. HistoryType'
  BY <1>4, <1>5 DEF Crash, HistoryType, TypeOK
<1>7. QED
  BY <1>1, <1>2, <1>3, <1>6, TypePartsPrimed

\* The historical scan, the panel and the reload.
LEMMA OutsideType ==
  ASSUME TypeOK, AllOccupied,
         \/ \E p \in Posting, i \in Id : ScanHistorical(p, i)
         \/ \E m \in Message : DeleteMatches(m)
         \/ Edit \/ RowAges \/ Reload
  PROVE  TypeOK' /\ AllOccupied'
<1>1. ASSUME NEW p \in Posting, NEW i \in Id, ScanHistorical(p, i)
      PROVE  TypeOK' /\ AllOccupied'
  <2>1. row' \in [Id -> [Recipient -> [Kind -> Status]]]
    <3>1. /\ [r \in Recipient |-> "historical"] \in [Recipient -> Status]
          /\ Eligible(loaded, p) \in SUBSET Recipient
      BY DEF Status, Eligible, TypeOK
    <3>2. QED
      BY <1>1, <3>1, WithRowsType DEF ScanHistorical
  <2>2. StoreType'
    BY <1>1, <2>1 DEF ScanHistorical, StoreType, TypeOK, settings
  <2>3. MemoryType' /\ TaskType' /\ AllOccupied' /\ ResendType'
    BY <1>1, Frames DEF ScanHistorical
  <2>4. HistoryType'
    BY <1>1, SpendType DEF ScanHistorical, HistoryType, TypeOK, Disturbance
  <2>5. QED
    BY <2>2, <2>3, <2>4, TypePartsPrimed
<1>2. ASSUME NEW m \in Message, DeleteMatches(m)
      PROVE  TypeOK' /\ AllOccupied'
  <2>1. StoreType'
    BY <1>2 DEF DeleteMatches, StoreType, TypeOK, settings, NoRow, Status
  <2>2. MemoryType' /\ TaskType' /\ AllOccupied' /\ ResendType'
    BY <1>2, Frames DEF DeleteMatches
  <2>3. HistoryType'
    BY <1>2, SpendType DEF DeleteMatches, HistoryType, TypeOK, Disturbance
  <2>4. QED
    BY <2>1, <2>2, <2>3, TypePartsPrimed
<1>3. CASE Edit
  <2>1. StoreType'
    BY <1>3 DEF Edit, StoreType, TypeOK
  <2>2. MemoryType' /\ TaskType' /\ AllOccupied' /\ ResendType'
    BY <1>3, Frames DEF Edit
  <2>3. HistoryType'
    BY <1>3, SpendType DEF Edit, HistoryType, TypeOK, Disturbance
  <2>4. QED
    BY <2>1, <2>2, <2>3, TypePartsPrimed
<1>4. CASE Reload
  <2>1. StoreType' /\ TaskType' /\ AllOccupied' /\ ResendType'
    BY <1>4, Frames DEF Reload
  <2>2. MemoryType' /\ HistoryType'
    BY <1>4 DEF Reload, MemoryType, HistoryType, TypeOK
  <2>3. QED
    BY <2>1, <2>2, TypePartsPrimed
<1>5. CASE RowAges
  <2>1. StoreType'
    BY <1>5 DEF RowAges, StoreType, TypeOK
  <2>2. MemoryType' /\ TaskType' /\ AllOccupied' /\ ResendType'
    BY <1>5, Frames DEF RowAges
  <2>3. HistoryType'
    BY <1>5, SpendType DEF RowAges, HistoryType, TypeOK, Disturbance
  <2>4. QED
    BY <2>1, <2>2, <2>3, TypePartsPrimed
<1>6. QED
  BY <1>1, <1>2, <1>3, <1>4, <1>5

\* Every step keeps the types.
LEMMA NextType ==
  ASSUME TypeOK, AllOccupied, [Next]_vars
  PROVE  TypeOK' /\ AllOccupied'
<1>1. ASSUME NEW t \in Task, Write(t)
      PROVE  TypeOK' /\ AllOccupied'
  BY <1>1, DropType, PersistQuietlyType, PersistAlertType, WriteRefusedType DEF Write
<1>2. ASSUME NEW t \in Task, Network(t)
      PROVE  TypeOK' /\ AllOccupied'
  BY <1>2, NotifyBlockedType, CallBotType, BotAcceptsType, BotAnswersType DEF Network
<1>3. ASSUME NEW t \in Task, Record(t)
      PROVE  TypeOK' /\ AllOccupied'
  BY <1>3, RecordOutcomesType, OutcomesGoneType DEF Record
<1>4. CASE Resend
  BY <1>4, ResendTypes DEF Resend
<1>5. CASE Disturb
  BY <1>5, WriteLockedType, AttemptsType, OutcomesGoneType, ResendDisturbedType,
     CrashType DEF Disturb
<1>6. CASE Outside \/ Reload
  BY <1>6, ReceiveType, OutsideType DEF Outside
<1>7. CASE UNCHANGED vars
  <2>1. StoreType' /\ MemoryType' /\ TaskType' /\ AllOccupied' /\ ResendType'
    BY <1>7, Frames DEF vars, database, memory
  <2>2. HistoryType'
    BY <1>7 DEF vars, HistoryType, TypeOK
  <2>3. QED
    BY <2>1, <2>2, TypePartsPrimed
<1>8. QED
  BY <1>1, <1>2, <1>3, <1>4, <1>5, <1>6, <1>7 DEF Next

\* No handler runs at the start.
LEMMA InitOccupied == Init => AllOccupied
BY IdleOccupied DEF Init, AllOccupied

\* Type correctness: handlers, resend pass, rows and memory keep their shape, and a
\* handler that calls the bot always has a posting, a match id and a recipient.
THEOREM TypeCorrect == Spec => [](TypeOK /\ AllOccupied)
<1>1. Init => TypeOK /\ AllOccupied
  BY InitType, InitOccupied
<1>2. TypeOK /\ AllOccupied /\ [Next]_vars => (TypeOK /\ AllOccupied)'
  BY NextType
<1>3. QED
  BY <1>1, <1>2, PTL DEF Spec

-----------------------------------------------------------------------------
(* The identity of matches.  IInv strengthens the four safety properties: the  *)
(* database knows every posting that has a verdict, each match row has one,    *)
(* no posting has two rows, and who sends an alert sends a decided posting.    *)

Verdicts ==
  /\ \A p \in decided : IsKnown(p)
  /\ \A i \in Id : table[i] # NoPosting => table[i] \in decided
  /\ \A i, j \in Id : table[i] = table[j] /\ table[i] # NoPosting => i = j
Sends(t) == task[t].pc \in NetworkPhase
Senders == \A t \in Task : Sends(t) => task[t].posting \in decided

IInv ==
  /\ TypeOK /\ AllOccupied
  /\ Verdicts /\ Senders
  /\ SuppressedStaysGone /\ SeenMeansKnown /\ SoleSender

\* What a step may do to the matches: nothing, add one row, remove a message.
Keeps == UNCHANGED <<table, suppressed, decided, owed>>
Adds(p, i) ==
  /\ ~IsKnown(p)
  /\ IsNextId(i)
  /\ table' = [table EXCEPT ![i] = p]
  /\ decided' = decided \cup {p}
  /\ suppressed' = suppressed
  /\ \A q \in Posting \ {p} : owed'[q] = owed[q]
Removes(m) ==
  /\ table' = [i \in Id |-> IF table[i] # NoPosting /\ MessageOf[table[i]] = m
                              THEN NoPosting ELSE table[i]]
  /\ suppressed' = suppressed \cup {m}
  /\ UNCHANGED <<decided, owed>>

\* Persisting adds a row for a posting that was not known, at a free id.
LEMMA PersistAdds ==
  ASSUME TypeOK, AllOccupied, NEW t \in Task, NEW i \in Id, IsNew(t),
         NEW alerted \in SUBSET Recipient, Persist(t, i, alerted)
  PROVE  /\ task[t].posting \in Posting
         /\ Adds(task[t].posting, i)
<1>1. task[t].posting \in Posting
  BY DEF IsNew, AllOccupied, Occupied
<1>2. QED
  BY <1>1 DEF Persist, IsNew, Adds, TypeOK

\* Every step keeps the matches, adds one that was not known, or deletes a message
\* and leaves its tombstone.
LEMMA MatchSteps ==
  ASSUME TypeOK, AllOccupied, [Next]_vars
  PROVE  \/ Keeps
         \/ \E p \in Posting, i \in Id : Adds(p, i)
         \/ \E m \in Message : Removes(m)
<1>1. ASSUME NEW t \in Task, Write(t)
      PROVE  Keeps \/ \E p \in Posting, i \in Id : Adds(p, i)
  <2>1. CASE DropSeenText(t) \/ DropKnown(t)
    BY <2>1 DEF DropSeenText, DropKnown, Keeps, database
  <2>2. ASSUME NEW i \in Id, PersistQuietly(t, i)
        PROVE  \E p \in Posting : Adds(p, i)
    BY <2>2, PersistAdds DEF PersistQuietly
  <2>3. ASSUME NEW i \in Id, PersistAlert(t, i)
        PROVE  \E p \in Posting : Adds(p, i)
    <3>1. Eligible(task[t].todo, task[t].posting) \in SUBSET Recipient
      BY DEF Eligible, TypeOK
    <3>2. QED
      BY <2>3, <3>1, PersistAdds DEF PersistAlert
  <2>4. ASSUME NEW i \in Id, WriteRefused(t, i)
        PROVE  Keeps
    BY <2>4 DEF WriteRefused, Keeps, database
  <2>5. QED
    BY <1>1, <2>1, <2>2, <2>3, <2>4 DEF Write
<1>2. ASSUME NEW t \in Task, Network(t) \/ Record(t)
      PROVE  Keeps
  BY <1>2 DEF Network, NotifyBlocked, CallBot, BotAccepts, BotAnswers, Record,
              RecordOutcomes, OutcomesRefused, Keeps, database
<1>3. CASE Resend
  BY <1>3 DEF Resend, LoadCandidates, ResendCalls, ResendAccepted, ResendAnswered,
              MarkSent, Keeps, database
<1>4. CASE Disturb
  BY <1>4 DEF Disturb, WriteLocked, BotRefuses, BotTimesOut, OutcomesLocked,
              ResendRefused, MarkLocked, ResendTimesOut, Crash, Keeps, database
<1>5. ASSUME NEW p \in Posting, NEW i \in Id, ScanHistorical(p, i)
      PROVE  Adds(p, i)
  BY <1>5 DEF ScanHistorical, Adds
<1>6. ASSUME NEW m \in Message, DeleteMatches(m)
      PROVE  Removes(m)
  BY <1>6 DEF DeleteMatches, Removes
<1>7. CASE Reload \/ Edit \/ RowAges \/ \E t \in Task, p \in Posting : Receive(t, p)
  BY <1>7 DEF Reload, Edit, RowAges, Receive, Keeps, database
<1>8. CASE UNCHANGED vars
  BY <1>8 DEF vars, Keeps
<1>9. QED
  BY <1>1, <1>2, <1>3, <1>4, <1>5, <1>6, <1>7, <1>8 DEF Next, Outside

\* A row id that is handed out is free.
LEMMA NextIdFree ==
  ASSUME TypeOK, NEW i \in Id, IsNextId(i) PROVE table[i] = NoPosting
BY DEF IsNextId, Id

\* Over the three: every row has a verdict, no posting has two, no tombstone a row.
LEMMA MatchesKept ==
  ASSUME TypeOK, AllOccupied, TypeOK', Verdicts, SuppressedStaysGone, [Next]_vars
  PROVE  /\ Verdicts' /\ SuppressedStaysGone'
         /\ decided \subseteq decided'
         /\ \A p \in Posting : IsKnown(p) => IsKnown(p)'
         /\ \A p \in decided :
              owed'[p] = owed[p] /\ \A i \in Id : table'[i] = p => table[i] = p
<1>1. CASE Keeps
  BY <1>1 DEF Keeps, Verdicts, SuppressedStaysGone, IsKnown
<1>2. ASSUME NEW p \in Posting, NEW i \in Id, Adds(p, i)
      PROVE  /\ Verdicts' /\ SuppressedStaysGone'
             /\ decided \subseteq decided'
             /\ \A q \in Posting : IsKnown(q) => IsKnown(q)'
             /\ \A q \in decided :
                  owed'[q] = owed[q] /\ \A j \in Id : table'[j] = q => table[j] = q
  <2>1. table[i] = NoPosting
    BY <1>2, NextIdFree DEF Adds
  <2>2. p \notin decided /\ p # NoPosting
    BY <1>2, PipelineAssumption DEF Adds, Verdicts
  <2>3. \A j \in Id : table'[j] = IF j = i THEN p ELSE table[j]
    BY <1>2 DEF Adds, TypeOK
  <2>4. decided' = decided \cup {p} /\ suppressed' = suppressed
    BY <1>2 DEF Adds
  <2>5. \A q \in Posting : IsKnown(q) => IsKnown(q)'
    BY <2>1, <2>3, <2>4, PipelineAssumption DEF IsKnown
  <2>6. MessageOf[p] \notin suppressed /\ \A j \in Id : table[j] # p
    BY <1>2 DEF Adds, IsKnown
  <2>7. IsKnown(p)'
    BY <2>3 DEF IsKnown
  <2>8. Verdicts'
    BY <2>2, <2>3, <2>4, <2>5, <2>6, <2>7 DEF Verdicts, TypeOK
  <2>9. SuppressedStaysGone'
    BY <2>3, <2>4, <2>6 DEF SuppressedStaysGone
  <2>10. \A q \in decided :
           owed'[q] = owed[q] /\ \A j \in Id : table'[j] = q => table[j] = q
    BY <1>2, <2>2, <2>3 DEF Adds, TypeOK
  <2>11. QED
    BY <2>4, <2>5, <2>8, <2>9, <2>10
<1>3. ASSUME NEW m \in Message, Removes(m)
      PROVE  /\ Verdicts' /\ SuppressedStaysGone'
             /\ decided \subseteq decided'
             /\ \A q \in Posting : IsKnown(q) => IsKnown(q)'
             /\ \A q \in decided :
                  owed'[q] = owed[q] /\ \A j \in Id : table'[j] = q => table[j] = q
  <2>1. /\ suppressed' = suppressed \cup {m} /\ decided' = decided /\ owed' = owed
        /\ \A j \in Id : table'[j] = IF table[j] # NoPosting /\ MessageOf[table[j]] = m
                                       THEN NoPosting ELSE table[j]
    BY <1>3 DEF Removes
  <2>2. \A q \in Posting : IsKnown(q) => IsKnown(q)'
    BY <2>1, PipelineAssumption DEF IsKnown
  <2>3. Verdicts'
    BY <2>1, <2>2 DEF Verdicts, TypeOK
  <2>4. SuppressedStaysGone'
    BY <2>1 DEF SuppressedStaysGone
  <2>5. QED
    BY <2>1, <2>2, <2>3, <2>4, PipelineAssumption DEF TypeOK
<1>4. QED
  BY <1>1, <1>2, <1>3, MatchSteps

\* The cache only gains the signature of a posting the database knows afterwards.
LEMMA SeenKept ==
  ASSUME TypeOK, AllOccupied, TypeOK', Verdicts, SuppressedStaysGone, SeenMeansKnown,
         [Next]_vars
  PROVE  SeenMeansKnown'
<1>1. \A p \in Posting : IsKnown(p) => IsKnown(p)'
  BY MatchesKept
<1>2. SUFFICES \/ seen' \subseteq seen
               \/ \E p \in Posting : seen' = seen \cup {SignatureOf[p]} /\ IsKnown(p)'
  BY <1>1 DEF SeenMeansKnown
<1>3. ASSUME NEW t \in Task, DropKnown(t)
      PROVE  \E p \in Posting : seen' = seen \cup {SignatureOf[p]} /\ IsKnown(p)'
  BY <1>1, <1>3 DEF DropKnown, AllOccupied, Occupied
<1>4. ASSUME NEW t \in Task, NEW i \in Id, IsNew(t),
             NEW alerted \in SUBSET Recipient, Persist(t, i, alerted)
      PROVE  \E p \in Posting : seen' = seen \cup {SignatureOf[p]} /\ IsKnown(p)'
  <2>1. PICK p \in Posting : p = task[t].posting
    BY <1>4 DEF IsNew, AllOccupied, Occupied
  <2>2. seen' = seen \cup {SignatureOf[p]} /\ table' = [table EXCEPT ![i] = p]
    BY <1>4, <2>1 DEF Persist
  <2>3. IsKnown(p)'
    BY <2>2 DEF IsKnown, TypeOK
  <2>4. QED
    BY <2>2, <2>3
<1>5. ASSUME NEW t \in Task, Write(t)
      PROVE  \/ seen' \subseteq seen
             \/ \E p \in Posting : seen' = seen \cup {SignatureOf[p]} /\ IsKnown(p)'
  <2>1. CASE DropSeenText(t)
    BY <2>1 DEF DropSeenText, memory
  <2>2. CASE DropKnown(t)
    BY <1>3, <2>2
  <2>3. ASSUME NEW i \in Id, PersistQuietly(t, i)
        PROVE  \E p \in Posting : seen' = seen \cup {SignatureOf[p]} /\ IsKnown(p)'
    BY <1>4, <2>3 DEF PersistQuietly
  <2>4. ASSUME NEW i \in Id, PersistAlert(t, i)
        PROVE  \E p \in Posting : seen' = seen \cup {SignatureOf[p]} /\ IsKnown(p)'
    <3>1. Eligible(task[t].todo, task[t].posting) \in SUBSET Recipient
      BY DEF Eligible, TypeOK
    <3>2. QED
      BY <1>4, <2>4, <3>1 DEF PersistAlert
  <2>5. ASSUME NEW i \in Id, WriteRefused(t, i)
        PROVE  seen' \subseteq seen
    BY <2>5 DEF WriteRefused, memory
  <2>6. QED
    BY <1>5, <2>1, <2>2, <2>3, <2>4, <2>5 DEF Write
<1>6. ASSUME NEW t \in Task, Network(t) \/ Record(t)
      PROVE  seen' \subseteq seen
  BY <1>6 DEF Network, NotifyBlocked, CallBot, BotAccepts, BotAnswers, Record,
              RecordOutcomes, OutcomesRefused, memory
<1>7. CASE Resend
  BY <1>7 DEF Resend, LoadCandidates, ResendCalls, ResendAccepted, ResendAnswered,
              MarkSent, memory
<1>8. CASE Disturb
  BY <1>8 DEF Disturb, WriteLocked, BotRefuses, BotTimesOut, OutcomesLocked,
              ResendRefused, MarkLocked, ResendTimesOut, Crash, memory
<1>9. CASE Outside \/ Reload
  BY <1>9 DEF Outside, Receive, ScanHistorical, DeleteMatches, Edit, RowAges, Reload, memory
<1>10. CASE UNCHANGED vars
  BY <1>10 DEF vars
<1>11. QED
  BY <1>5, <1>6, <1>7, <1>8, <1>9, <1>10 DEF Next

\* A step leaves the senders as they are, lets one turn into a non-sender or go on
\* with its posting, or makes a task the sender of a posting that had no verdict.
GoesOn(t) ==
  \A u \in Task :
    /\ u # t => task'[u] = task[u]
    /\ Sends(u)' => Sends(u) /\ task'[u].posting = task[u].posting
Starts(t) ==
  /\ \A u \in Task \ {t} : task'[u] = task[u]
  /\ task'[t].posting \notin decided
  /\ task'[t].posting \in decided'

\* A handler that is in the network phase afterwards was in it before, for its posting.
LEMMA MoveSender ==
  ASSUME TypeOK, NEW t \in Task, NEW v, task' = [task EXCEPT ![t] = v],
         v.pc \in NetworkPhase => Sends(t) /\ v.posting = task[t].posting
  PROVE  GoesOn(t)
<1>1. task'[t] = v /\ \A u \in Task : u # t => task'[u] = task[u]
  BY DEF TypeOK
<1>2. SUFFICES ASSUME NEW u \in Task, Sends(u)'
               PROVE  Sends(u) /\ task'[u].posting = task[u].posting
  BY <1>1 DEF GoesOn
<1>3. task'[u].pc \in NetworkPhase
  BY <1>2 DEF Sends
<1>4. CASE u = t
  BY <1>1, <1>3, <1>4
<1>5. CASE u # t
  BY <1>1, <1>3, <1>5 DEF Sends
<1>6. QED
  BY <1>4, <1>5

\* So it is for a handler that ends,
LEMMA EndSender ==
  ASSUME TypeOK, NEW t \in Task, task' = [task EXCEPT ![t] = IdleTask]
  PROVE  GoesOn(t)
<1>1. IdleTask.pc \notin NetworkPhase
  BY DEF IdleTask, NetworkPhase
<1>2. PICK v : v.pc \notin NetworkPhase /\ task' = [task EXCEPT ![t] = v]
  BY <1>1
<1>3. QED
  BY <1>2, MoveSender

\* for the steps of the network phase,
LEMMA SameSender ==
  ASSUME TypeOK, AllOccupied, NEW t \in Task,
         \/ \E r \in Recipient : NotifyBlocked(t, r) \/ CallBot(t, r)
         \/ BotAccepts(t) \/ BotAnswers(t) \/ BotRefuses(t) \/ BotTimesOut(t)
  PROVE  GoesOn(t)
<1>1. task[t] \in TaskState /\ Sends(t)
  BY DEF TypeOK, Sends, NetworkPhase, NotifyBlocked, CallBot, Turn, BotAccepts,
         BotAnswers, BotRefuses, BotTimesOut
<1>2. \A r, s : Settled(t, r, s).posting = task[t].posting
  BY <1>1 DEF Settled, TaskState
<1>3. PICK v : task' = [task EXCEPT ![t] = v] /\ v.posting = task[t].posting
  <2>1. CASE \E r \in Recipient : NotifyBlocked(t, r)
    BY <1>2, <2>1 DEF NotifyBlocked
  <2>2. CASE \E r \in Recipient : CallBot(t, r)
    <3>1. PICK r \in Recipient : task' = [task EXCEPT ![t] =
                                   [task[t] EXCEPT !.pc = "calling", !.cur = r]]
      BY <2>2 DEF CallBot, TypeOK
    <3>2. [task[t] EXCEPT !.pc = "calling", !.cur = r].posting = task[t].posting
      BY <1>1 DEF TaskState
    <3>3. QED
      BY <3>1, <3>2
  <2>3. CASE BotAccepts(t)
    <3>1. task' = [task EXCEPT ![t] = [task[t] EXCEPT !.pc = "accepted"]]
      BY <2>3 DEF BotAccepts, TypeOK
    <3>2. [task[t] EXCEPT !.pc = "accepted"].posting = task[t].posting
      BY <1>1 DEF TaskState
    <3>3. QED
      BY <3>1, <3>2
  <2>4. CASE BotAnswers(t)
    BY <1>2, <2>4 DEF BotAnswers
  <2>5. CASE AttemptFails(t)
    <3>1. [task[t] EXCEPT !.pc = "notify", !.tries = @ + 1].posting = task[t].posting
      BY <1>1 DEF TaskState
    <3>2. QED
      BY <1>2, <2>5, <3>1 DEF AttemptFails
  <2>6. QED
    BY <2>1, <2>2, <2>3, <2>4, <2>5 DEF BotRefuses, BotTimesOut
<1>4. QED
  BY <1>1, <1>3, MoveSender

\* and a handler that enters the phase has a posting that was not known before.
LEMMA StartSender ==
  ASSUME TypeOK, AllOccupied, Verdicts, NEW t \in Task, NEW i \in Id, PersistAlert(t, i)
  PROVE  Starts(t)
<1>1. PICK p \in Posting : p = task[t].posting
  BY DEF PersistAlert, IsNew, AllOccupied, Occupied
<1>2. ~IsKnown(p) /\ decided' = decided \cup {p}
  BY <1>1 DEF PersistAlert, IsNew, Persist
<1>3. task[t] \in TaskState
  BY DEF TypeOK
<1>4. PICK v : task' = [task EXCEPT ![t] = v] /\ v.posting = p
  <2>1. PICK R : task' = [task EXCEPT ![t] = [task[t] EXCEPT !.pc = "notify",
                                                             !.id = i, !.todo = R]]
    BY DEF PersistAlert, TypeOK
  <2>2. [task[t] EXCEPT !.pc = "notify", !.id = i, !.todo = R].posting = p
    BY <1>1, <1>3 DEF TaskState
  <2>3. QED
    BY <2>1, <2>2
<1>5. task'[t].posting = p /\ \A u \in Task \ {t} : task'[u] = task[u]
  BY <1>4 DEF TypeOK
<1>6. QED
  BY <1>2, <1>5 DEF Starts, Verdicts

\* Every step does one of these, or ends all handlers.
LEMMA SenderSteps ==
  ASSUME TypeOK, AllOccupied, Verdicts, [Next]_vars
  PROVE  \/ UNCHANGED task
         \/ \E t \in Task : GoesOn(t) \/ Starts(t)
         \/ task' = [t \in Task |-> IdleTask]
<1>1. ASSUME NEW t \in Task, Write(t)
      PROVE  GoesOn(t) \/ Starts(t)
  BY <1>1, EndSender, StartSender
     DEF Write, DropSeenText, DropKnown, PersistQuietly, WriteRefused
<1>2. ASSUME NEW t \in Task, Network(t)
      PROVE  GoesOn(t)
  BY <1>2, SameSender DEF Network
<1>3. ASSUME NEW t \in Task, Record(t)
      PROVE  GoesOn(t)
  BY <1>3, EndSender DEF Record, RecordOutcomes, OutcomesRefused
<1>4. CASE Resend \/ Reload \/ UNCHANGED vars
  BY <1>4 DEF Resend, LoadCandidates, ResendCalls, ResendAccepted, ResendAnswered,
              MarkSent, Reload, vars
<1>5. ASSUME NEW t \in Task,
             WriteLocked(t) \/ BotRefuses(t) \/ BotTimesOut(t) \/ OutcomesLocked(t)
      PROVE  UNCHANGED task \/ GoesOn(t)
  BY <1>5, EndSender, SameSender DEF WriteLocked, OutcomesLocked
<1>6. CASE Disturb
  BY <1>5, <1>6 DEF Disturb, ResendRefused, MarkLocked, ResendTimesOut, Crash
<1>7. ASSUME NEW t \in Task, NEW p \in Posting, Receive(t, p)
      PROVE  GoesOn(t)
  <2>1. PICK v : /\ v = [IdleTask EXCEPT !.pc = "write", !.posting = p, !.todo = loaded]
                 /\ task' = [task EXCEPT ![t] = v]
    BY <1>7 DEF Receive
  <2>2. v.pc \notin NetworkPhase
    BY <2>1 DEF IdleTask, NetworkPhase
  <2>3. QED
    BY <2>1, <2>2, MoveSender
<1>8. CASE Outside
  BY <1>7, <1>8 DEF Outside, ScanHistorical, DeleteMatches, Edit, RowAges
<1>9. QED
  BY <1>1, <1>2, <1>3, <1>4, <1>6, <1>8 DEF Next

\* Every step keeps the senders apart.
LEMMA SendersKept ==
  ASSUME TypeOK, AllOccupied, Verdicts, Senders, SoleSender,
         decided \subseteq decided', [Next]_vars
  PROVE  Senders' /\ SoleSender'
<1>1. SoleSender <=> \A t, u \in Task :
        Sends(t) /\ Sends(u) /\ task[t].posting = task[u].posting => t = u
  BY DEF SoleSender, Sends, NetworkPhase
<1>2. SoleSender' <=> \A t, u \in Task :
        Sends(t)' /\ Sends(u)' /\ task'[t].posting = task'[u].posting => t = u
  BY DEF SoleSender, Sends, NetworkPhase
<1>3. CASE UNCHANGED task
  BY <1>1, <1>2, <1>3 DEF Senders, Sends
<1>4. ASSUME NEW t \in Task, GoesOn(t)
      PROVE  Senders' /\ SoleSender'
  <2>1. \A u \in Task : Sends(u)' => Sends(u) /\ task'[u].posting = task[u].posting
    BY <1>4 DEF GoesOn
  <2>2. Senders'
    BY <2>1 DEF Senders
  <2>3. QED
    BY <1>1, <1>2, <2>1, <2>2
<1>5. ASSUME NEW t \in Task, Starts(t)
      PROVE  Senders' /\ SoleSender'
  <2>1. \A u \in Task \ {t} : /\ Sends(u)' => Sends(u)
                               /\ task'[u] = task[u]
    BY <1>5 DEF Starts, Sends
  <2>2. \A u \in Task \ {t} : Sends(u)' => task'[u].posting \in decided
    BY <2>1 DEF Senders
  <2>3. Senders'
    BY <1>5, <2>2 DEF Senders, Starts
  <2>4. \A u \in Task \ {t} : Sends(u)' => task'[u].posting # task'[t].posting
    BY <1>5, <2>2 DEF Starts
  <2>5. QED
    BY <1>1, <1>2, <2>1, <2>3, <2>4
<1>6. CASE task' = [t \in Task |-> IdleTask]
  <2>1. \A t \in Task : ~Sends(t)'
    BY <1>6 DEF Sends, IdleTask, NetworkPhase
  <2>2. QED
    BY <1>2, <2>1 DEF Senders
<1>7. QED
  BY <1>3, <1>4, <1>5, <1>6, SenderSteps

\* The invariant holds at the start.
LEMMA InitIdentity == Init => IInv
<1> SUFFICES ASSUME Init PROVE IInv
  OBVIOUS
<1>1. TypeOK /\ AllOccupied
  BY InitType, InitOccupied
<1>2. Verdicts /\ SuppressedStaysGone /\ SeenMeansKnown
  BY DEF Init, Verdicts, SuppressedStaysGone, SeenMeansKnown
<1>3. Senders /\ SoleSender
  BY DEF Init, Senders, Sends, SoleSender, IdleTask, NetworkPhase
<1>4. QED
  BY <1>1, <1>2, <1>3 DEF IInv

\* Every step keeps it.
LEMMA NextIdentity == IInv /\ [Next]_vars => IInv'
<1> SUFFICES ASSUME IInv, [Next]_vars PROVE IInv'
  OBVIOUS
<1>1. TypeOK' /\ AllOccupied'
  BY NextType DEF IInv
<1>2. Verdicts' /\ SuppressedStaysGone' /\ decided \subseteq decided'
  BY <1>1, MatchesKept DEF IInv
<1>3. SeenMeansKnown'
  BY <1>1, SeenKept DEF IInv
<1>4. Senders' /\ SoleSender'
  BY <1>2, SendersKept DEF IInv
<1>5. QED
  BY <1>1, <1>2, <1>3, <1>4 DEF IInv

\* It is an invariant.
LEMMA Identity == Spec => []IInv
<1>1. QED
  BY InitIdentity, NextIdentity, PTL DEF Spec

\* However locks, repeats, deletions, crashes and row ids go, the cache never drops
\* the text of a posting that the database does not know.
THEOREM SeenIsKnown == Spec => []SeenMeansKnown
<1>1. IInv => SeenMeansKnown
  BY DEF IInv
<1>2. QED
  BY <1>1, Identity, PTL

\* A message whose matches were deleted never gets a match again.
THEOREM SuppressedGone == Spec => []SuppressedStaysGone
<1>1. IInv => SuppressedStaysGone
  BY DEF IInv
<1>2. QED
  BY <1>1, Identity, PTL

\* At most one handler of the process is calling the bot for a posting.
THEOREM OneSender == Spec => []SoleSender
<1>1. IInv => SoleSender
  BY DEF IInv
<1>2. QED
  BY <1>1, Identity, PTL

\* A verdict is never taken back, taken again or given a second match row.
THEOREM OneVerdict == Spec => VerdictIsFinal
<1> DEFINE Final == \A p \in decided : p \in decided' /\ owed'[p] = owed[p] /\
                      \A i \in Id : table'[i] = p => table[i] = p
<1>1. IInv /\ IInv' /\ [Next]_vars => [Final]_vars
  <2> SUFFICES ASSUME IInv, IInv', [Next]_vars PROVE Final
    OBVIOUS
  <2>1. /\ decided \subseteq decided'
        /\ \A p \in decided :
             owed'[p] = owed[p] /\ \A i \in Id : table'[i] = p => table[i] = p
    BY MatchesKept DEF IInv
  <2>2. QED
    BY <2>1
<1>2. QED
  BY <1>1, Identity, PTL DEF Spec, VerdictIsFinal

-----------------------------------------------------------------------------
(* Who is alerted, how often, and what the delivery rows say of it             *)

\* What a handler holds of its recipients: those it has an outcome for, and that it
\* keeps to the verdict, to its own match row, and to one recipient at a time.
Answered(v) == {r \in Recipient : v.out[r] # "none"}
Addressed(v) ==
  v.pc \in NetworkPhase =>
    /\ MessageOf[v.posting] \notin suppressed => table[v.id] = v.posting
    /\ owed[v.posting] = v.todo \cup Answered(v)
    /\ v.todo \cap Answered(v) = {}
    /\ v.pc \in {"calling", "accepted"} => v.cur \in v.todo
AllAddressed == \A t \in Task : Addressed(task[t])

\* A verdict names people who want the alert; without one nothing is owed.
OwedInv ==
  \A p \in Posting : owed[p] \subseteq Wants[p] /\ (p \notin decided => owed[p] = {})

\* Before the network phase no handler has an outcome.
Blank(v) == v.pc = "write" => v.out = NoOutcome
AllBlank == \A t \in Task : Blank(task[t])

\* The invariant of the accounting.
AccountInv == IInv /\ AllAddressed /\ AllBlank /\ OwedInv /\ OutcomeAccounted

\* One cell of the delivery table after rows were added.
LEMMA WithRowsAt ==
  ASSUME TypeOK, NEW i \in Id, NEW R, NEW k, NEW s,
         NEW j \in Id, NEW r \in Recipient, NEW q \in Kind
  PROVE  WithRows(i, R, k, s)[j][r][q] =
           IF j = i /\ r \in R /\ q = k THEN s[r] ELSE row[j][r][q]
BY DEF WithRows, TypeOK

\* Where no row is in the way, added rows take the place of none.
LEMMA NoCollision ==
  ASSUME NEW i \in Id, NEW R \in SUBSET Recipient, NEW k \in Kind, ~Collides(i, R, k)
  PROVE  \A r \in R : row[i][r][k] = "none"
BY DEF Collides

\* The candidates of the resend pass are rows of deliveries.
LEMMA CandidateType ==
  ASSUME TypeOK, NEW c \in resend.todo \cup resend.cur
  PROVE  /\ c \in Candidate /\ c.id \in Id /\ c.posting \in Posting
         /\ c.recipient \in Recipient /\ c.kind \in Kind
BY DEF TypeOK, ResendState, Candidate

\* A match that is kept keeps every delivery row it has.
RowsStay ==
  \A i \in Id, r \in Recipient, k \in Kind :
    table[i] # NoPosting /\ row[i][r][k] # "none" =>
      \/ MessageOf[table[i]] \in suppressed'
      \/ table'[i] = table[i] /\ row'[i][r][k] # "none"

\* So it is where the rows stay as they are,
LEMMA SameRowsStay ==
  ASSUME TypeOK, UNCHANGED row,
         \A i \in Id : table[i] # NoPosting => table'[i] = table[i]
  PROVE  RowsStay
BY DEF RowsStay

\* and where some are added that do not collide.
LEMMA AddedRowsStay ==
  ASSUME TypeOK, NEW i \in Id, NEW R \in SUBSET Recipient, NEW k, NEW s,
         ~Collides(i, R, k), row' = WithRows(i, R, k, s),
         \A j \in Id : table[j] # NoPosting => table'[j] = table[j]
  PROVE  RowsStay
<1> SUFFICES ASSUME NEW j \in Id, NEW r \in Recipient, NEW q \in Kind,
                    table[j] # NoPosting, row[j][r][q] # "none"
             PROVE  row'[j][r][q] # "none"
  BY DEF RowsStay
<1>1. ~(j = i /\ r \in R /\ q = k)
  BY DEF Collides
<1>2. QED
  BY <1>1, WithRowsAt

\* Every step lets the rows of matches stay.
LEMMA NextRowsStay ==
  ASSUME IInv, [Next]_vars
  PROVE  RowsStay
<1>1. TypeOK /\ AllOccupied
  BY DEF IInv
<1>2. ASSUME NEW t \in Task, NEW i \in Id, NEW alerted \in SUBSET Recipient,
             IsNew(t), Persist(t, i, alerted)
      PROVE  RowsStay
  <2> DEFINE R == Eligible(task[t].todo, task[t].posting)
             b == Bookkeeping(task[t].posting)
  <2>1. /\ ~Collides(i, R, b.kind)
        /\ row' = WithRows(i, R, b.kind, [r \in Recipient |-> b.status])
    BY <1>2 DEF Persist
  <2>2. R \in SUBSET Recipient
    BY <1>1 DEF Eligible, TypeOK
  <2>3. table[i] = NoPosting
    BY <1>1, <1>2, NextIdFree DEF Persist
  <2>4. \A j \in Id : table[j] # NoPosting => table'[j] = table[j]
    BY <1>1, <1>2, <2>3 DEF Persist, TypeOK
  <2> HIDE DEF R, b
  <2>5. QED
    BY <1>1, <2>1, <2>2, <2>4, AddedRowsStay
<1>3. ASSUME NEW t \in Task, Write(t)
      PROVE  RowsStay
  <2>1. CASE DropSeenText(t) \/ DropKnown(t)
    BY <1>1, <2>1, SameRowsStay DEF DropSeenText, DropKnown, database
  <2>2. ASSUME NEW i \in Id, PersistQuietly(t, i) PROVE RowsStay
    BY <1>2, <2>2 DEF PersistQuietly
  <2>3. ASSUME NEW i \in Id, PersistAlert(t, i) PROVE RowsStay
    <3>1. Eligible(task[t].todo, task[t].posting) \in SUBSET Recipient
      BY <1>1 DEF Eligible, TypeOK
    <3>2. QED
      BY <1>2, <2>3, <3>1 DEF PersistAlert
  <2>4. ASSUME NEW i \in Id, WriteRefused(t, i) PROVE RowsStay
    BY <1>1, <2>4, SameRowsStay DEF WriteRefused, database
  <2>5. QED
    BY <1>3, <2>1, <2>2, <2>3, <2>4 DEF Write
<1>4. ASSUME NEW t \in Task, Network(t)
      PROVE  RowsStay
  BY <1>1, <1>4, SameRowsStay
     DEF Network, NotifyBlocked, CallBot, BotAccepts, BotAnswers, database
<1>5. ASSUME NEW t \in Task, Record(t)
      PROVE  RowsStay
  <2>1. CASE RecordOutcomes(t)
    <3>1. task[t].id \in Id
      BY <1>1, <2>1 DEF RecordOutcomes, NetworkDone, AllOccupied, Occupied, NetworkPhase
    <3>2. Outcomes(t) \in SUBSET Recipient
      BY DEF Outcomes
    <3>3. QED
      BY <1>1, <2>1, <3>1, <3>2, AddedRowsStay DEF RecordOutcomes, OutcomeCollides
  <2>2. CASE OutcomesRefused(t)
    BY <1>1, <2>2, SameRowsStay DEF OutcomesRefused, database
  <2>3. QED
    BY <1>5, <2>1, <2>2 DEF Record
<1>6. CASE Resend
  <2>1. ASSUME NEW c \in resend.todo \cup resend.cur, MarkSent(c)
        PROVE  RowsStay
    <3> SUFFICES ASSUME NEW j \in Id, NEW r \in Recipient, NEW q \in Kind,
                        row[j][r][q] # "none"
                 PROVE  row'[j][r][q] # "none" /\ table' = table
      BY DEF RowsStay
    <3>1. c.id \in Id
      BY <1>1, CandidateType
    <3>2. CASE UNCHANGED row
      BY <2>1, <3>2 DEF MarkSent
    <3>3. CASE row' = WithRows(c.id, {c.recipient}, c.kind, [x \in Recipient |-> "sent"])
      BY <1>1, <2>1, <3>1, <3>3, WithRowsAt DEF MarkSent
    <3>4. QED
      BY <2>1, <3>2, <3>3 DEF MarkSent
  <2>2. QED
    BY <1>1, <1>6, <2>1, SameRowsStay
       DEF Resend, LoadCandidates, ResendCalls, ResendAccepted, ResendAnswered, database
<1>7. CASE Disturb
  BY <1>1, <1>7, SameRowsStay
     DEF Disturb, WriteLocked, BotRefuses, BotTimesOut, OutcomesLocked, ResendRefused,
         MarkLocked, ResendTimesOut, Crash, database
<1>8. ASSUME NEW p \in Posting, NEW i \in Id, ScanHistorical(p, i)
      PROVE  RowsStay
  <2>1. Eligible(loaded, p) \in SUBSET Recipient
    BY <1>1 DEF Eligible, TypeOK
  <2>2. \A j \in Id : table[j] # NoPosting => table'[j] = table[j]
    BY <1>1, <1>8, NextIdFree DEF ScanHistorical, TypeOK
  <2>3. QED
    BY <1>1, <1>8, <2>1, <2>2, AddedRowsStay DEF ScanHistorical
<1>9. ASSUME NEW m \in Message, DeleteMatches(m)
      PROVE  RowsStay
  BY <1>1, <1>9 DEF DeleteMatches, RowsStay, TypeOK
<1>10. CASE Reload \/ Edit \/ RowAges \/ UNCHANGED vars \/ \E t \in Task, p \in Posting : Receive(t, p)
  BY <1>1, <1>10, SameRowsStay DEF Reload, Edit, RowAges, Receive, vars, database
<1>11. QED
  BY <1>3, <1>4, <1>5, <1>6, <1>7, <1>8, <1>9, <1>10 DEF Next, Outside

\* Every step keeps the match of a row, unless its message is deleted, the deletions
\* and the losses there were, and the verdicts.
LEMMA TableStays ==
  ASSUME IInv, [Next]_vars
  PROVE  /\ suppressed \subseteq suppressed'
         /\ \A i \in Id : table[i] # NoPosting =>
              table'[i] = table[i] \/ MessageOf[table[i]] \in suppressed'
         /\ decided \subseteq decided' /\ \A p \in decided : owed'[p] = owed[p]
<1>1. TypeOK /\ AllOccupied
  BY DEF IInv
<1>2. decided \subseteq decided' /\ \A p \in decided : owed'[p] = owed[p]
  <2>1. TypeOK' /\ Verdicts /\ SuppressedStaysGone
    BY NextIdentity DEF IInv
  <2>2. QED
    BY <1>1, <2>1, MatchesKept
<1>3. CASE Keeps
  BY <1>2, <1>3 DEF Keeps
<1>4. ASSUME NEW p \in Posting, NEW i \in Id, Adds(p, i)
      PROVE  /\ suppressed' = suppressed
             /\ \A j \in Id : table[j] # NoPosting => table'[j] = table[j]
  BY <1>1, <1>4, NextIdFree DEF Adds, TypeOK
<1>5. ASSUME NEW m \in Message, Removes(m)
      PROVE  /\ suppressed \subseteq suppressed'
             /\ \A i \in Id : table[i] # NoPosting =>
                  table'[i] = table[i] \/ MessageOf[table[i]] \in suppressed'
  BY <1>1, <1>5 DEF Removes, TypeOK
<1>6. QED
  BY <1>1, <1>2, <1>3, <1>4, <1>5, MatchSteps

\* A handler that is left alone stays addressed.
LEMMA AddressedStays ==
  ASSUME IInv, [Next]_vars, NEW u \in Task, Addressed(task[u]), UNCHANGED task[u]
  PROVE  Addressed(task[u])'
<1>1. task[u].pc \in NetworkPhase => task[u].posting \in decided
  BY DEF IInv, Senders, Sends
<1>2. task[u].pc \in NetworkPhase => task[u].id \in Id /\ task[u].posting \in Posting
  BY DEF IInv, AllOccupied, Occupied, NetworkPhase
<1>3. owed'[task[u].posting] = owed[task[u].posting] \/ task[u].pc \notin NetworkPhase
  BY <1>1, TableStays
<1>4. task[u].pc \in NetworkPhase /\ MessageOf[task[u].posting] \notin suppressed' =>
        table'[task[u].id] = task[u].posting
  BY <1>2, TableStays, PipelineAssumption DEF Addressed
<1>5. QED
  BY <1>3, <1>4 DEF Addressed, Answered

\* What a step does to the handlers: nothing, the end of one (with its outcomes
\* written, lost, or none to write), a step of one inside its network phase, a
\* new sender, or the end of all.
Ends(t) ==
  /\ \A u \in Task \ {t} : task'[u] = task[u]
  /\ task'[t].pc \notin NetworkPhase /\ Blank(task'[t])
  /\ Sends(t) => task[t].posting \in lost' \/ RecordOutcomes(t)
Advances(t) ==
  /\ \A u \in Task \ {t} : task'[u] = task[u]
  /\ Sends(t) /\ task'[t].pc \in NetworkPhase
  /\ task'[t].posting = task[t].posting /\ task'[t].id = task[t].id
  /\ Addressed(task'[t])
EndsAll ==
  /\ \A u \in Task : task'[u] = IdleTask
  /\ \A u \in Task : Sends(u) => task[u].posting \in lost'

\* A handler that becomes v, for the lemmas that follow.
LEMMA TaskBecomes ==
  ASSUME TypeOK, NEW t \in Task, NEW v, task' = [task EXCEPT ![t] = v]
  PROVE  task'[t] = v /\ \A u \in Task \ {t} : task'[u] = task[u]
BY DEF TypeOK

\* A handler that turns to a recipient, or tries one again, keeps what it holds.
LEMMA TurnAdvances ==
  ASSUME TypeOK, NEW t \in Task, Addressed(task[t]), Sends(t), NEW v,
         task' = [task EXCEPT ![t] = v], v.pc \in NetworkPhase,
         v.posting = task[t].posting, v.id = task[t].id,
         v.todo = task[t].todo, v.out = task[t].out,
         v.pc \in {"calling", "accepted"} => v.cur \in task[t].todo
  PROVE  Advances(t)
<1>1. Addressed(v)
  BY DEF Addressed, Answered, Sends
<1>2. QED
  BY <1>1, TaskBecomes DEF Advances

\* A handler that is done with a recipient it still had to tell has one more outcome.
LEMMA SettledFields ==
  ASSUME TypeOK, NEW t \in Task, NEW r \in Recipient, NEW s \in Status
  PROVE  LET v == Settled(t, r, s) IN
         /\ v.pc = "notify" /\ v.posting = task[t].posting /\ v.id = task[t].id
         /\ v.todo = task[t].todo \ {r}
         /\ v.out = [task[t].out EXCEPT ![r] = s]
         /\ v.cur = NoRecipient
BY DEF Settled, TypeOK, TaskState

LEMMA SettledAdvances ==
  ASSUME TypeOK, NEW t \in Task, Addressed(task[t]), Sends(t),
         NEW r \in task[t].todo, NEW s \in Status \ {"none"},
         task' = [task EXCEPT ![t] = Settled(t, r, s)]
  PROVE  Advances(t)
<1> DEFINE v == Settled(t, r, s)
<1>1. task[t] \in TaskState /\ r \in Recipient
  BY DEF TypeOK, TaskState
<1>2. /\ v.pc = "notify" /\ v.posting = task[t].posting /\ v.id = task[t].id
      /\ v.todo = task[t].todo \ {r}
      /\ v.out = [task[t].out EXCEPT ![r] = s]
  BY <1>1, SettledFields
<1>3. task'[t] = v /\ \A u \in Task \ {t} : task'[u] = task[u]
  BY TaskBecomes
<1> HIDE DEF v
<1>4. Answered(v) = Answered(task[t]) \cup {r}
  BY <1>1, <1>2 DEF Answered, TaskState
<1>5. Addressed(v)
  BY <1>2, <1>4 DEF Addressed, Sends, NetworkPhase
<1>6. QED
  BY <1>2, <1>3, <1>5 DEF Advances, NetworkPhase

\* Every step of the network phase advances its handler.
LEMMA NetworkAdvances ==
  ASSUME TypeOK, AllOccupied, NEW t \in Task, Addressed(task[t]),
         Network(t) \/ BotRefuses(t) \/ BotTimesOut(t)
  PROVE  Advances(t)
<1>1. task[t] \in TaskState /\ Sends(t)
  BY DEF TypeOK, Sends, NetworkPhase, Network, NotifyBlocked, CallBot, Turn,
         BotAccepts, BotAnswers, BotRefuses, BotTimesOut
<1>2. ASSUME NEW r \in Recipient, NotifyBlocked(t, r)
      PROVE  Advances(t)
  <2>1. /\ r \in task[t].todo
        /\ BlockReason(task[t].id, r) \in Status \ {"none"}
        /\ task' = [task EXCEPT ![t] = Settled(t, r, BlockReason(task[t].id, r))]
    BY <1>2, BlockReasonType DEF NotifyBlocked, Turn
  <2>2. PICK s \in Status \ {"none"} : task' = [task EXCEPT ![t] = Settled(t, r, s)]
    BY <2>1
  <2>3. QED
    BY <1>1, <2>1, <2>2, SettledAdvances
<1>3. ASSUME NEW r \in Recipient, CallBot(t, r)
      PROVE  Advances(t)
  <2> DEFINE v == [task[t] EXCEPT !.pc = "calling", !.cur = r]
  <2>1. /\ v.pc = "calling" /\ v.posting = task[t].posting /\ v.id = task[t].id
        /\ v.todo = task[t].todo /\ v.out = task[t].out /\ v.cur = r
    BY <1>1 DEF TaskState
  <2>2. task' = [task EXCEPT ![t] = v] /\ r \in task[t].todo
    BY <1>3 DEF CallBot, Turn, TypeOK
  <2> HIDE DEF v
  <2>3. QED
    BY <1>1, <2>1, <2>2, TurnAdvances DEF NetworkPhase
<1>4. CASE BotAccepts(t)
  <2> DEFINE v == [task[t] EXCEPT !.pc = "accepted"]
  <2>1. /\ v.pc = "accepted" /\ v.posting = task[t].posting /\ v.id = task[t].id
        /\ v.todo = task[t].todo /\ v.out = task[t].out /\ v.cur = task[t].cur
    BY <1>1 DEF TaskState
  <2>2. task' = [task EXCEPT ![t] = v] /\ task[t].pc = "calling"
    BY <1>4 DEF BotAccepts, TypeOK
  <2> HIDE DEF v
  <2>3. task[t].cur \in task[t].todo
    BY <2>2 DEF Addressed, NetworkPhase
  <2>4. QED
    BY <1>1, <2>1, <2>2, <2>3, TurnAdvances DEF NetworkPhase
<1>5. CASE BotAnswers(t)
  <2>1. task[t].cur \in task[t].todo
    BY <1>5 DEF BotAnswers, Addressed, NetworkPhase
  <2>2. task' = [task EXCEPT ![t] = Settled(t, task[t].cur, "sent")]
    BY <1>5 DEF BotAnswers
  <2>3. QED
    BY <1>1, <2>1, <2>2, SettledAdvances DEF Status
<1>6. CASE BotRefuses(t) \/ BotTimesOut(t)
  <2> DEFINE v == [task[t] EXCEPT !.pc = "notify", !.tries = task[t].tries + 1]
  <2>1. task[t].cur \in task[t].todo
    BY <1>6 DEF BotRefuses, BotTimesOut, Addressed, NetworkPhase
  <2>2. \/ task' = [task EXCEPT ![t] = v]
        \/ task' = [task EXCEPT ![t] = Settled(t, task[t].cur, "failed")]
    BY <1>6 DEF BotRefuses, BotTimesOut, AttemptFails
  <2>3. /\ v.pc = "notify" /\ v.posting = task[t].posting /\ v.id = task[t].id
        /\ v.todo = task[t].todo /\ v.out = task[t].out
    BY <1>1 DEF TaskState
  <2> HIDE DEF v
  <2>4. CASE task' = [task EXCEPT ![t] = v]
    BY <1>1, <2>3, <2>4, TurnAdvances DEF NetworkPhase
  <2>5. CASE task' = [task EXCEPT ![t] = Settled(t, task[t].cur, "failed")]
    BY <1>1, <2>1, <2>5, SettledAdvances DEF Status
  <2>6. QED
    BY <2>2, <2>4, <2>5
<1>7. QED
  BY <1>2, <1>3, <1>4, <1>5, <1>6 DEF Network

\* A handler that stops is not a sender any more.
LEMMA StopEnds ==
  ASSUME TypeOK, NEW t \in Task, NEW v, task' = [task EXCEPT ![t] = v],
         v.pc \notin NetworkPhase, Blank(v),
         Sends(t) => task[t].posting \in lost' \/ RecordOutcomes(t)
  PROVE  Ends(t)
BY TaskBecomes DEF Ends

\* Every step does one of these to the handlers.
LEMMA TaskSteps ==
  ASSUME IInv, AllAddressed, [Next]_vars
  PROVE  \/ UNCHANGED task
         \/ \E t \in Task : Ends(t) \/ Advances(t)
         \/ \E t \in Task, i \in Id : PersistAlert(t, i)
         \/ EndsAll
<1>1. TypeOK /\ AllOccupied
  BY DEF IInv
<1>2. IdleTask.pc \notin NetworkPhase /\ Blank(IdleTask)
  BY DEF IdleTask, NetworkPhase, Blank
<1>3. PICK idle : idle = IdleTask
  OBVIOUS
<1>4. ASSUME NEW t \in Task, task[t].pc = "write", task' = [task EXCEPT ![t] = IdleTask]
      PROVE  Ends(t)
  BY <1>1, <1>2, <1>3, <1>4, StopEnds DEF Sends, NetworkPhase
<1>5. ASSUME NEW t \in Task, Write(t)
      PROVE  Ends(t) \/ \E i \in Id : PersistAlert(t, i)
  BY <1>4, <1>5 DEF Write, DropSeenText, DropKnown, PersistQuietly, WriteRefused, IsNew
<1>6. ASSUME NEW t \in Task, Record(t) \/ OutcomesLocked(t)
      PROVE  Ends(t)
  <2>1. task' = [task EXCEPT ![t] = idle]
    BY <1>3, <1>6 DEF Record, RecordOutcomes, OutcomesRefused, OutcomesLocked
  <2>2. task[t].posting \in lost' \/ RecordOutcomes(t)
    BY <1>6 DEF Record, OutcomesRefused, OutcomesLocked
  <2>3. QED
    BY <1>1, <1>2, <1>3, <2>1, <2>2, StopEnds
<1>7. ASSUME NEW t \in Task, NEW p \in Posting, Receive(t, p)
      PROVE  Ends(t)
  <2>1. PICK v : /\ v = [IdleTask EXCEPT !.pc = "write", !.posting = p, !.todo = loaded]
                 /\ task' = [task EXCEPT ![t] = v]
    BY <1>7 DEF Receive
  <2>2. v.pc \notin NetworkPhase /\ Blank(v)
    BY <2>1 DEF IdleTask, NetworkPhase, Blank
  <2>3. ~Sends(t)
    BY <1>7 DEF Receive, Sends, NetworkPhase
  <2>4. QED
    BY <1>1, <2>1, <2>2, <2>3, StopEnds
<1>8. ASSUME NEW t \in Task, WriteLocked(t)
      PROVE  UNCHANGED task \/ Ends(t)
  BY <1>4, <1>8 DEF WriteLocked
<1>9. CASE Crash
  <2>1. \A u \in Task : task'[u] = IdleTask
    BY <1>9 DEF Crash
  <2>2. ASSUME NEW u \in Task, Sends(u)
        PROVE  task[u].posting \in lost'
    <3>1. task[u].posting \in Posting /\ task[u].pc # "write"
      BY <1>1, <2>2 DEF AllOccupied, Occupied, Sends, NetworkPhase
    <3>2. QED
      BY <1>9, <3>1 DEF Crash
  <2>3. QED
    BY <2>1, <2>2 DEF EndsAll
<1>10. CASE Disturb
  <2>1. ASSUME NEW t \in Task, BotRefuses(t) \/ BotTimesOut(t)
        PROVE  Advances(t)
    BY <1>1, <2>1, NetworkAdvances DEF AllAddressed
  <2>2. QED
    BY <1>6, <1>8, <1>9, <1>10, <2>1 DEF Disturb, ResendRefused, MarkLocked, ResendTimesOut
<1>11. ASSUME NEW t \in Task, Network(t)
       PROVE  Advances(t)
  BY <1>1, <1>11, NetworkAdvances DEF AllAddressed
<1>12. CASE Resend \/ Reload \/ UNCHANGED vars
  BY <1>12 DEF Resend, LoadCandidates, ResendCalls, ResendAccepted, ResendAnswered,
               MarkSent, Reload, vars
<1>13. CASE Outside
  BY <1>7, <1>13 DEF Outside, ScanHistorical, DeleteMatches, Edit, RowAges
<1>14. QED
  BY <1>5, <1>6, <1>10, <1>11, <1>12, <1>13 DEF Next

\* A handler that goes on to the network phase holds the row it wrote, and has
\* everybody its verdict names still to tell.
LEMMA StartAddressed ==
  ASSUME IInv, NEW t \in Task, NEW i \in Id, PersistAlert(t, i),
         task[t].out = NoOutcome
  PROVE  /\ Addressed(task[t])'
         /\ \A u \in Task \ {t} : task'[u] = task[u]
         /\ task'[t].out = NoOutcome /\ task'[t].id = i /\ task'[t].pc = "notify"
         /\ task'[t].posting = task[t].posting
<1> DEFINE R == Eligible(task[t].todo, task[t].posting)
           v == [task[t] EXCEPT !.pc = "notify", !.id = i, !.todo = R]
<1>1. TypeOK /\ AllOccupied /\ task[t] \in TaskState
  BY DEF IInv, TypeOK
<1>2. task[t].posting \in Posting
  BY <1>1 DEF PersistAlert, IsNew, AllOccupied, Occupied
<1>3. /\ v.pc = "notify" /\ v.posting = task[t].posting /\ v.id = i
      /\ v.todo = R /\ v.out = NoOutcome
  BY <1>1 DEF TaskState
<1>4. task' = [task EXCEPT ![t] = v]
  BY <1>1 DEF PersistAlert, TypeOK
<1>5. /\ table' = [table EXCEPT ![i] = task[t].posting]
      /\ owed' = [owed EXCEPT ![task[t].posting] = R]
  BY DEF PersistAlert, Persist
<1>6. table'[i] = task[t].posting /\ owed'[task[t].posting] = R
  BY <1>1, <1>2, <1>5 DEF TypeOK
<1> HIDE DEF v, R
<1>7. task'[t] = v /\ \A u \in Task \ {t} : task'[u] = task[u]
  BY <1>1, <1>4, TaskBecomes
<1>8. Answered(v) = {}
  BY <1>3 DEF Answered, NoOutcome
<1>9. Addressed(task[t])'
  BY <1>3, <1>6, <1>7, <1>8 DEF Addressed, Answered
<1>10. QED
  BY <1>3, <1>7, <1>9

LEMMA NextBlank ==
  ASSUME IInv, AllBlank, AllAddressed, [Next]_vars
  PROVE  AllBlank'
<1>1. TypeOK /\ AllOccupied
  BY DEF IInv
<1>2. Blank(IdleTask)
  BY DEF Blank, IdleTask
<1>3. CASE UNCHANGED task
  BY <1>3 DEF AllBlank
<1>4. ASSUME NEW t \in Task, Advances(t)
      PROVE  AllBlank'
  BY <1>4 DEF Advances, AllBlank, Blank, NetworkPhase
<1>5. ASSUME NEW t \in Task, NEW i \in Id, PersistAlert(t, i)
      PROVE  AllBlank'
  <2>1. task[t].out = NoOutcome
    BY <1>5 DEF PersistAlert, IsNew, AllBlank, Blank
  <2>2. QED
    BY <1>5, <2>1, StartAddressed DEF AllBlank, Blank
<1>6. CASE EndsAll
  BY <1>2, <1>6 DEF EndsAll, AllBlank
<1>7. ASSUME NEW t \in Task, Ends(t)
      PROVE  AllBlank'
  BY <1>7 DEF Ends, AllBlank, Blank
<1>8. QED
  BY <1>3, <1>4, <1>5, <1>6, <1>7, TaskSteps

\* Every handler keeps to its verdict.
LEMMA NextAddressed ==
  ASSUME IInv, AllBlank, AllAddressed, [Next]_vars
  PROVE  AllAddressed'
<1>1. \A u \in Task : UNCHANGED task[u] => Addressed(task[u])'
  BY AddressedStays DEF AllAddressed
<1>2. CASE UNCHANGED task
  BY <1>1, <1>2 DEF AllAddressed
<1>3. ASSUME NEW t \in Task, Ends(t)
      PROVE  AllAddressed'
  <2>1. Addressed(task[t])'
    BY <1>3 DEF Ends, Addressed
  <2>2. QED
    BY <1>1, <1>3, <2>1 DEF Ends, AllAddressed
<1>4. ASSUME NEW t \in Task, Advances(t)
      PROVE  AllAddressed'
  <2>1. task[t].posting \in decided /\ task[t].id \in Id /\ task[t].posting \in Posting
    BY <1>4 DEF Advances, IInv, Senders, Sends, AllOccupied, Occupied, NetworkPhase
  <2>2. owed'[task[t].posting] = owed[task[t].posting]
    BY <2>1, TableStays
  <2>3. MessageOf[task[t].posting] \notin suppressed' =>
          table'[task[t].id] = task[t].posting
    BY <1>4, <2>1, TableStays, PipelineAssumption DEF Advances, AllAddressed, Addressed, Sends
  <2>4. Addressed(task[t])'
    BY <1>4, <2>2, <2>3 DEF Advances, Addressed, Answered
  <2>5. QED
    BY <1>1, <1>4, <2>4 DEF Advances, AllAddressed
<1>5. ASSUME NEW t \in Task, NEW i \in Id, PersistAlert(t, i)
      PROVE  AllAddressed'
  <2>1. task[t].out = NoOutcome
    BY <1>5 DEF PersistAlert, IsNew, AllBlank, Blank
  <2>2. QED
    BY <1>1, <1>5, <2>1, StartAddressed DEF AllAddressed
<1>6. CASE EndsAll
  BY <1>6 DEF EndsAll, AllAddressed, Addressed, IdleTask, NetworkPhase
<1>7. QED
  BY <1>2, <1>3, <1>4, <1>5, <1>6, TaskSteps

\* Verdicts are reached by a handler, for nobody or for the people who want the
\* alert, or by a scan of the history, for nobody.
LEMMA VerdictSteps ==
  ASSUME IInv, OwedInv, [Next]_vars
  PROVE  \/ UNCHANGED <<decided, owed>>
         \/ \E p \in Posting \ decided :
              decided' = decided \cup {p} /\ owed' = [owed EXCEPT ![p] = {}]
         \/ \E t \in Task, i \in Id :
              /\ PersistAlert(t, i)
              /\ task[t].posting \in Posting \ decided
              /\ decided' = decided \cup {task[t].posting}
              /\ owed' = [owed EXCEPT ![task[t].posting] =
                            Eligible(task[t].todo, task[t].posting)]
<1>1. TypeOK /\ AllOccupied /\ Verdicts
  BY DEF IInv
<1>2. ASSUME NEW t \in Task, IsNew(t)
      PROVE  task[t].posting \in Posting \ decided
  BY <1>1, <1>2 DEF IsNew, AllOccupied, Occupied, Verdicts
<1>3. ASSUME NEW t \in Task, Write(t)
      PROVE  \/ UNCHANGED <<decided, owed>>
             \/ \E p \in Posting \ decided :
                  decided' = decided \cup {p} /\ owed' = [owed EXCEPT ![p] = {}]
             \/ \E i \in Id :
                  /\ PersistAlert(t, i)
                  /\ task[t].posting \in Posting \ decided
                  /\ decided' = decided \cup {task[t].posting}
                  /\ owed' = [owed EXCEPT ![task[t].posting] =
                                Eligible(task[t].todo, task[t].posting)]
  <2>1. CASE DropSeenText(t) \/ DropKnown(t)
    BY <2>1 DEF DropSeenText, DropKnown
  <2>2. ASSUME NEW i \in Id, PersistQuietly(t, i)
        PROVE  /\ task[t].posting \in Posting \ decided
               /\ decided' = decided \cup {task[t].posting}
               /\ owed' = [owed EXCEPT ![task[t].posting] = {}]
    BY <1>2, <2>2 DEF PersistQuietly, Persist
  <2>3. ASSUME NEW i \in Id, PersistAlert(t, i)
        PROVE  /\ task[t].posting \in Posting \ decided
               /\ decided' = decided \cup {task[t].posting}
               /\ owed' = [owed EXCEPT ![task[t].posting] =
                             Eligible(task[t].todo, task[t].posting)]
    BY <1>2, <2>3 DEF PersistAlert, Persist
  <2>4. ASSUME NEW i \in Id, WriteRefused(t, i)
        PROVE  UNCHANGED <<decided, owed>>
    BY <2>4 DEF WriteRefused
  <2>5. QED
    BY <1>3, <2>1, <2>2, <2>3, <2>4 DEF Write
<1>4. ASSUME NEW t \in Task, Network(t) \/ Record(t)
      PROVE  UNCHANGED <<decided, owed>>
  BY <1>4 DEF Network, NotifyBlocked, CallBot, BotAccepts, BotAnswers, Record,
              RecordOutcomes, OutcomesRefused
<1>5. CASE Resend
  BY <1>5 DEF Resend, LoadCandidates, ResendCalls, ResendAccepted, ResendAnswered, MarkSent
<1>6. CASE Disturb
  BY <1>6 DEF Disturb, WriteLocked, BotRefuses, BotTimesOut, OutcomesLocked,
              ResendRefused, MarkLocked, ResendTimesOut, Crash
<1>7. ASSUME NEW p \in Posting, NEW i \in Id, ScanHistorical(p, i)
      PROVE  /\ p \in Posting \ decided
             /\ decided' = decided \cup {p} /\ owed' = [owed EXCEPT ![p] = {}]
  <2>1. p \notin decided /\ decided' = decided \cup {p} /\ owed' = owed
    BY <1>1, <1>7 DEF ScanHistorical, Verdicts
  <2>2. owed[p] = {}
    BY <2>1 DEF OwedInv
  <2>3. QED
    BY <1>1, <2>1, <2>2 DEF TypeOK
<1>8. CASE Reload \/ Edit \/ RowAges \/ UNCHANGED vars \/ (\E m \in Message : DeleteMatches(m))
             \/ \E t \in Task, p \in Posting : Receive(t, p)
  BY <1>8 DEF Reload, Edit, RowAges, DeleteMatches, Receive, vars
<1>9. QED
  BY <1>3, <1>4, <1>5, <1>6, <1>7, <1>8 DEF Next, Outside

\* What is owed is wanted.
LEMMA NextOwed ==
  ASSUME IInv, OwedInv, [Next]_vars
  PROVE  OwedInv'
<1>1. TypeOK
  BY DEF IInv
<1>2. CASE UNCHANGED <<decided, owed>>
  BY <1>2 DEF OwedInv
<1>3. ASSUME NEW p \in Posting \ decided, decided' = decided \cup {p},
             NEW R \in SUBSET Wants[p], owed' = [owed EXCEPT ![p] = R]
      PROVE  OwedInv'
  BY <1>1, <1>3 DEF OwedInv, TypeOK
<1>4. \A t \in Task : Eligible(task[t].todo, task[t].posting) \subseteq Wants[task[t].posting]
  BY DEF Eligible
<1>5. QED
  BY <1>2, <1>3, <1>4, VerdictSteps

\* A sender goes on with its posting, has its outcomes written, or loses them.
LEMMA SenderStays ==
  ASSUME IInv, AllAddressed, [Next]_vars, NEW t \in Task, Sends(t)
  PROVE  \/ Sends(t)' /\ task'[t].posting = task[t].posting
         \/ task[t].posting \in lost'
         \/ RecordOutcomes(t)
<1>1. CASE UNCHANGED task
  BY <1>1 DEF Sends
<1>2. ASSUME NEW u \in Task, Ends(u) \/ Advances(u)
      PROVE  \/ Sends(t)' /\ task'[t].posting = task[t].posting
             \/ task[t].posting \in lost'
             \/ RecordOutcomes(t)
  <2>1. CASE u = t
    BY <1>2, <2>1 DEF Ends, Advances, Sends
  <2>2. CASE u # t
    BY <1>2, <2>2 DEF Ends, Advances, Sends
  <2>3. QED
    BY <2>1, <2>2
<1>3. ASSUME NEW u \in Task, NEW i \in Id, PersistAlert(u, i)
      PROVE  Sends(t)' /\ task'[t].posting = task[t].posting
  <2>1. u # t
    BY <1>3 DEF PersistAlert, IsNew, Sends, NetworkPhase
  <2>2. task'[t] = task[t]
    BY <1>3, <2>1 DEF PersistAlert, IInv, TypeOK
  <2>3. QED
    BY <2>2 DEF Sends
<1>4. CASE EndsAll
  BY <1>4 DEF EndsAll
<1>5. QED
  BY <1>1, <1>2, <1>3, <1>4, TaskSteps

\* The losses there were stay known.
LEMMA LossesStay == [Next]_vars => lost \subseteq lost'
<1> SUFFICES ASSUME [Next]_vars PROVE lost \subseteq lost'
  OBVIOUS
<1>1. ASSUME NEW t \in Task, Write(t) \/ Network(t) \/ Record(t)
      PROVE  lost \subseteq lost'
  BY <1>1 DEF Write, DropSeenText, DropKnown, PersistQuietly, PersistAlert, Persist,
              WriteRefused, Network, NotifyBlocked, CallBot, BotAccepts, BotAnswers,
              Record, RecordOutcomes, OutcomesRefused
<1>2. CASE Resend
  BY <1>2 DEF Resend, LoadCandidates, ResendCalls, ResendAccepted, ResendAnswered, MarkSent
<1>3. CASE Disturb
  BY <1>3 DEF Disturb, WriteLocked, BotRefuses, BotTimesOut, OutcomesLocked,
              ResendRefused, MarkLocked, ResendTimesOut, Crash
<1>4. CASE Reload \/ Outside \/ UNCHANGED vars
  BY <1>4 DEF Reload, Outside, Edit, RowAges, DeleteMatches, Receive, ScanHistorical, vars
<1>5. QED
  BY <1>1, <1>2, <1>3, <1>4 DEF Next

\* One person and one posting: the promise of OutcomeAccounted.
Accounted(p, r) ==
  \/ p \in lost
  \/ MessageOf[p] \in suppressed
  \/ \E t \in Task : task[t].posting = p /\ task[t].pc \in NetworkPhase
  \/ \E i \in Id : table[i] = p /\ row[i][r][KindOf(p)] # "none"

\* The kind of an alert is one of the channels.
LEMMA KindType == \A p \in Posting : KindOf(p) \in {"immediate", "target"}
BY DEF KindOf

\* Outcomes that are written account for everybody the verdict named.
LEMMA RecordAccounts ==
  ASSUME IInv, NEW t \in Task, Addressed(task[t]), RecordOutcomes(t),
         NEW p, p = task[t].posting, NEW r \in owed[p]
  PROVE  Accounted(p, r)'
<1>0. PICK i : i = task[t].id
  OBVIOUS
<1>1. TypeOK /\ p \in Posting /\ i \in Id /\ task[t].out \in [Recipient -> Status]
  BY <1>0 DEF IInv, RecordOutcomes, NetworkDone, AllOccupied, Occupied, NetworkPhase, TypeOK,
         TaskState
<1>2. r \in Outcomes(t)
  BY DEF Addressed, RecordOutcomes, NetworkDone, NetworkPhase, Answered, Outcomes
<1>3. r \in Recipient /\ task[t].out[r] # "none"
  BY <1>2 DEF Outcomes
<1>4. row' = WithRows(i, Outcomes(t), KindOf(p), task[t].out)
  BY <1>0 DEF RecordOutcomes
<1>5. KindOf(p) \in Kind
  BY <1>1, KindType DEF Kind
<1>6. row'[i][r][KindOf(p)] # "none"
  BY <1>1, <1>2, <1>3, <1>4, <1>5, WithRowsAt
<1>7. table' = table /\ suppressed' = suppressed
  BY DEF RecordOutcomes
<1>8. MessageOf[p] \in suppressed \/ table[i] = p
  BY <1>0 DEF Addressed, RecordOutcomes, NetworkDone, NetworkPhase
<1>9. KindOf(p)' = KindOf(p)
  BY DEF KindOf
<1>10. QED
  BY <1>1, <1>6, <1>7, <1>8, <1>9 DEF Accounted

\* The accounting is kept by every step.
LEMMA NextAccounted ==
  ASSUME AccountInv, [Next]_vars
  PROVE  OutcomeAccounted'
<1>1. IInv /\ TypeOK /\ AllAddressed /\ AllBlank /\ OwedInv
  BY DEF AccountInv, IInv
<1>2. \A p \in decided, r \in Recipient : r \in owed[p] => Accounted(p, r)
  BY DEF AccountInv, OutcomeAccounted, Accounted, NetworkPhase
<1>3. SUFFICES ASSUME NEW p \in decided', NEW r \in Recipient, r \in owed'[p]
               PROVE  Accounted(p, r)'
  BY DEF OutcomeAccounted, Accounted, NetworkPhase
<1>4. /\ suppressed \subseteq suppressed' /\ lost \subseteq lost' /\ decided \subseteq Posting
      /\ \A q \in decided : owed'[q] = owed[q]
  BY <1>1, TableStays, LossesStay DEF TypeOK
<1>5. CASE p \in decided
  <2>1. Accounted(p, r) /\ r \in owed[p]
    BY <1>2, <1>3, <1>4, <1>5
  <2>2. CASE p \in lost \/ MessageOf[p] \in suppressed
    BY <1>4, <2>2 DEF Accounted
  <2>3. ASSUME NEW t \in Task, task[t].posting = p, task[t].pc \in NetworkPhase
        PROVE  Accounted(p, r)'
    <3>1. Sends(t) /\ Addressed(task[t])
      BY <1>1, <2>3 DEF Sends, AllAddressed
    <3>2. CASE Sends(t)' /\ task'[t].posting = p
      BY <3>2 DEF Accounted, Sends
    <3>3. CASE p \in lost'
      BY <3>3 DEF Accounted
    <3>4. CASE RecordOutcomes(t)
      BY <1>1, <2>1, <2>3, <3>1, <3>4, RecordAccounts
    <3>5. QED
      BY <1>1, <2>3, <3>1, <3>2, <3>3, <3>4, SenderStays
  <2>4. ASSUME NEW i \in Id, table[i] = p, row[i][r][KindOf(p)] # "none"
        PROVE  Accounted(p, r)'
    <3>1. p \in Posting /\ p # NoPosting /\ KindOf(p) \in Kind
      BY <1>4, <1>5, KindType, PipelineAssumption DEF Kind
    <3>2. \/ MessageOf[p] \in suppressed'
          \/ table'[i] = p /\ row'[i][r][KindOf(p)] # "none"
      BY <1>1, <2>4, <3>1, NextRowsStay DEF RowsStay
    <3>3. KindOf(p)' = KindOf(p)
      BY DEF KindOf
    <3>4. QED
      BY <3>2, <3>3 DEF Accounted
  <2>5. QED
    BY <2>1, <2>2, <2>3, <2>4 DEF Accounted
<1>6. CASE p \notin decided
  <2>1. PICK t \in Task, i \in Id : PersistAlert(t, i) /\ task[t].posting = p
    <3>1. ASSUME NEW q \in Posting \ decided, decided' = decided \cup {q},
                 owed' = [owed EXCEPT ![q] = {}]
          PROVE  FALSE
      BY <1>1, <1>3, <1>6, <3>1 DEF TypeOK
    <3>2. QED
      BY <1>1, <1>3, <1>6, <3>1, VerdictSteps
  <2>2. task[t].out = NoOutcome
    BY <1>1, <2>1 DEF PersistAlert, IsNew, AllBlank, Blank
  <2>3. task'[t].posting = p /\ task'[t].pc = "notify"
    BY <1>1, <2>1, <2>2, StartAddressed
  <2>4. QED
    BY <2>3 DEF Accounted, NetworkPhase
<1>7. QED
  BY <1>5, <1>6

\* The invariant of the accounting holds at the start,
LEMMA InitAccount == Init => AccountInv
<1> SUFFICES ASSUME Init PROVE AccountInv
  OBVIOUS
<1>1. IInv
  BY InitIdentity
<1>2. AllAddressed /\ AllBlank
  BY DEF Init, AllAddressed, Addressed, AllBlank, Blank, IdleTask, NetworkPhase
<1>3. OwedInv /\ OutcomeAccounted
  BY PipelineAssumption DEF Init, OwedInv, OutcomeAccounted
<1>4. QED
  BY <1>1, <1>2, <1>3 DEF AccountInv

\* and every step keeps it.
LEMMA NextAccount == AccountInv /\ [Next]_vars => AccountInv'
<1> SUFFICES ASSUME AccountInv, [Next]_vars PROVE AccountInv'
  OBVIOUS
<1>1. IInv /\ AllAddressed /\ AllBlank /\ OwedInv
  BY DEF AccountInv
<1>2. IInv'
  BY <1>1, NextIdentity
<1>3. QED
  BY <1>1, <1>2, NextAddressed, NextBlank, NextOwed, NextAccounted DEF AccountInv

LEMMA Account == Spec => []AccountInv
BY InitAccount, NextAccount, PTL DEF Spec

\* Whoever an alert is owed to has a row for it once its handler is done, unless the
\* write was lost or the match deleted, whatever else is deleted, refused or cut off.
THEOREM NobodyForgotten == Spec => []OutcomeAccounted
<1>1. AccountInv => OutcomeAccounted
  BY DEF AccountInv
<1>2. QED
  BY <1>1, Account, PTL

-----------------------------------------------------------------------------
(* Until the first deletion.                                                  *)

Untouched == suppressed = {}

\* An acceptance of the pair that the listener knows of is still to come, or was
\* made up for by one it could not know of.
Even(p, r) == accepted[p][r] <= blind[p][r]

\* A row belongs to a match; one that was sent or failed is of the channel of its
\* alert and of somebody the alert is owed to.
RowsInv ==
  \A i \in Id, r \in Recipient, k \in Kind :
    /\ row[i][r][k] # "none" => table[i] # NoPosting
    /\ row[i][r][k] \in {"sent", "failed"} => k = KindOf(table[i]) /\ r \in owed[table[i]]

\* A handler in its network phase is ahead of its rows, has heard from Telegram what
\* it says was sent, and will only call where nothing known was accepted.
Clear(v) ==
  v.pc \in NetworkPhase => \A r \in Recipient : row[v.id][r][KindOf(v.posting)] = "none"
Heard(v) ==
  v.pc \in NetworkPhase =>
    /\ \A r \in Recipient : v.out[r] = "sent" => accepted[v.posting][r] > 0
    /\ v.pc = "accepted" => accepted[v.posting][v.cur] > 0
Counted(v) ==
  v.pc \in NetworkPhase =>
    \A r \in Recipient :
      /\ r \in v.todo /\ ~(v.pc = "accepted" /\ v.cur = r) => Even(v.posting, r)
      /\ v.out[r] = "failed" => Even(v.posting, r)
SendersInv == \A t \in Task : Clear(task[t]) /\ Heard(task[t]) /\ Counted(task[t])

\* The candidates of the resend pass are failed rows, each looked at once; the one
\* it is at was accepted or delivered as the pass says.
CandidatesInv ==
  /\ resend.pc = "idle" => resend.todo = {}
  /\ resend.pc \in {"idle", "notify"} => resend.cur = {}
  /\ \A c \in resend.cur : resend.cur = {c} /\ c \notin resend.todo
  /\ \A c \in resend.todo \cup resend.cur :
       table[c.id] = c.posting /\ row[c.id][c.recipient][c.kind] = "failed"
PassInv ==
  \A c \in resend.cur :
    /\ resend.pc = "calling" => Even(c.posting, c.recipient)
    /\ resend.pc = "accepted" => accepted[c.posting][c.recipient] > 0
    /\ resend.pc = "mark" => <<c.id, c.recipient>> \in delivered

\* What the notifier remembers was accepted.
DeliveredInv ==
  \A i \in Id, r \in Recipient :
    <<i, r>> \in delivered => table[i] # NoPosting /\ accepted[table[i]][r] > 0

\* A failed row that the notifier would call for again has no known acceptance.
FailedInv ==
  \A i \in Id, r \in Recipient, k \in Kind :
    /\ row[i][r][k] = "failed" /\ <<i, r>> \notin delivered
    /\ ~(resend.pc = "accepted" /\ \E c \in resend.cur : c.id = i /\ c.recipient = r)
    => Even(table[i], r)

DeliveryInv ==
  /\ RowsInv /\ SendersInv /\ CandidatesInv /\ PassInv /\ DeliveredInv /\ FailedInv
  /\ OnlyOwedAreAlerted /\ SentIsHonest /\ AtMostOnceUnlessBlind

\* The state before a step, as the lemmas about the steps need it.
Calm == AccountInv /\ Untouched /\ DeliveryInv

\* The parts that are used most.
LEMMA CalmParts ==
  ASSUME Calm
  PROVE  /\ TypeOK /\ AllOccupied /\ Verdicts /\ SoleSender /\ Senders
         /\ AllAddressed /\ AllBlank /\ OwedInv
         /\ DeliveryInv
         /\ \A t \in Task : Sends(t) =>
              /\ task[t].posting \in Posting /\ task[t].id \in Id
              /\ task[t].posting \in decided
              /\ table[task[t].id] = task[t].posting
              /\ owed[task[t].posting] = task[t].todo \cup Answered(task[t])
              /\ task[t].todo \cap Answered(task[t]) = {}
              /\ task[t].pc \in {"calling", "accepted"} => task[t].cur \in task[t].todo
<1>1. /\ TypeOK /\ AllOccupied /\ Verdicts /\ SoleSender /\ Senders
      /\ AllAddressed /\ AllBlank /\ OwedInv /\ DeliveryInv /\ suppressed = {}
  BY DEF Calm, AccountInv, IInv, Untouched
<1>2. ASSUME NEW t \in Task, Sends(t)
      PROVE  /\ task[t].posting \in Posting /\ task[t].id \in Id
             /\ task[t].posting \in decided /\ Addressed(task[t])
             /\ task[t].pc \in NetworkPhase
  BY <1>1, <1>2 DEF Sends, AllOccupied, Occupied, NetworkPhase, Senders, AllAddressed
<1>3. QED
  BY <1>1, <1>2 DEF Addressed

\* A failed row is of a match that no handler is sending.
LEMMA FailedNotSending ==
  ASSUME Calm, NEW i \in Id, NEW r \in Recipient, NEW k \in Kind,
         row[i][r][k] = "failed", NEW t \in Task, Sends(t)
  PROVE  task[t].posting # table[i]
<1>1. table[i] # NoPosting /\ k = KindOf(table[i])
  BY CalmParts DEF DeliveryInv, RowsInv
<1>2. SUFFICES ASSUME task[t].posting = table[i] PROVE FALSE
  OBVIOUS
<1>3. task[t].id = i
  BY <1>1, <1>2, CalmParts DEF Verdicts
<1>4. row[i][r][k] = "none"
  BY <1>1, <1>2, <1>3, CalmParts DEF DeliveryInv, SendersInv, Clear, Sends
<1>5. QED
  BY <1>4

\* A row has one match, and a match one row.
LEMMA OneRow ==
  ASSUME Calm, NEW i \in Id, NEW j \in Id, table[i] = table[j], table[i] # NoPosting
  PROVE  i = j
BY CalmParts DEF Verdicts

\* --- steps of the handlers that touch nothing else ---

SenderOK(v) == Clear(v) /\ Heard(v) /\ Counted(v)

LEMMA TasksOnly ==
  ASSUME Calm, UNCHANGED <<table, row, delivered, accepted, blind, resend, owed>>,
         \A t \in Task : SenderOK(task'[t])
  PROVE  DeliveryInv'
<1>1. DeliveryInv
  BY CalmParts
<1>2. SendersInv'
  BY DEF SendersInv, SenderOK, Clear, Heard, Counted, Even, KindOf
<1>3. RowsInv' /\ SentIsHonest'
  BY <1>1 DEF DeliveryInv, RowsInv, KindOf, SentIsHonest
<1>4. CandidatesInv' /\ PassInv' /\ DeliveredInv' /\ FailedInv'
  BY <1>1 DEF DeliveryInv, CandidatesInv, PassInv, DeliveredInv, FailedInv, Even
<1>5. OnlyOwedAreAlerted' /\ AtMostOnceUnlessBlind'
  BY <1>1 DEF DeliveryInv, OnlyOwedAreAlerted, AtMostOnceUnlessBlind
<1>6. QED
  BY <1>2, <1>3, <1>4, <1>5 DEF DeliveryInv

\* A handler that is not in its network phase says nothing.
LEMMA SilentOK == \A v : v.pc \notin NetworkPhase => SenderOK(v)
BY DEF SenderOK, Clear, Heard, Counted

\* Handlers that end, begin or stay as they are.
LEMMA EndDelivery ==
  ASSUME Calm, UNCHANGED <<table, row, delivered, accepted, blind, resend, owed>>,
         \A u \in Task : task'[u] = task[u] \/ task'[u].pc \notin NetworkPhase
  PROVE  DeliveryInv'
<1>1. \A u \in Task : SenderOK(task[u])
  BY CalmParts DEF DeliveryInv, SendersInv, SenderOK
<1>2. \A u \in Task : SenderOK(task'[u])
  BY <1>1, SilentOK
<1>3. QED
  BY <1>2, TasksOnly

\* One handler becomes v.
LEMMA MoveDelivery ==
  ASSUME Calm, UNCHANGED <<table, row, delivered, accepted, blind, resend, owed>>,
         NEW t \in Task, NEW v, SenderOK(v), task' = [task EXCEPT ![t] = v]
  PROVE  DeliveryInv'
<1>1. \A u \in Task : SenderOK(task[u])
  BY CalmParts DEF DeliveryInv, SendersInv, SenderOK
<1>2. \A u \in Task : SenderOK(task'[u])
  BY <1>1, CalmParts DEF TypeOK
<1>3. QED
  BY <1>2, TasksOnly

\* A recipient passed over: nothing is said of it that Telegram would have to confirm.
LEMMA BlockedDelivery ==
  ASSUME Calm, NEW t \in Task, NEW r \in Recipient, NotifyBlocked(t, r)
  PROVE  DeliveryInv'
<1>1. /\ Sends(t) /\ task[t].pc = "notify" /\ SenderOK(task[t]) /\ TypeOK
      /\ task[t] \in TaskState
  BY CalmParts DEF NotifyBlocked, Turn, Sends, NetworkPhase, DeliveryInv, SendersInv,
                   SenderOK, TypeOK
<1>2. PICK s \in {"not_allowlisted", "duplicate"} :
        task' = [task EXCEPT ![t] = Settled(t, r, s)]
  BY DEF NotifyBlocked, BlockReason
<1> DEFINE v == Settled(t, r, s)
<1>3. s \in Status
  BY <1>2 DEF Status
<1>4. /\ v.pc = "notify" /\ v.posting = task[t].posting /\ v.id = task[t].id
      /\ v.todo = task[t].todo \ {r} /\ v.out = [task[t].out EXCEPT ![r] = s]
  BY <1>1, <1>3, SettledFields
<1>9. task' = [task EXCEPT ![t] = v]
  BY <1>2
<1> HIDE DEF v
<1>5. \A x \in Recipient : v.out[x] \in {"sent", "failed"} => v.out[x] = task[t].out[x]
  BY <1>1, <1>2, <1>4 DEF TaskState
<1>6. SenderOK(v)
  BY <1>1, <1>4, <1>5 DEF SenderOK, Clear, Heard, Counted, NetworkPhase
<1>7. UNCHANGED <<table, row, delivered, accepted, blind, resend, owed>>
  BY DEF NotifyBlocked, database, memory
<1>8. QED
  BY <1>6, <1>7, <1>9, MoveDelivery

\* A call that starts.
LEMMA CallDelivery ==
  ASSUME Calm, NEW t \in Task, NEW r \in Recipient, CallBot(t, r)
  PROVE  DeliveryInv'
<1>1. /\ task[t].pc = "notify" /\ SenderOK(task[t]) /\ TypeOK /\ task[t] \in TaskState
  BY CalmParts DEF CallBot, Turn, DeliveryInv, SendersInv, SenderOK, TypeOK
<1>2. PICK v : v = [task[t] EXCEPT !.pc = "calling", !.cur = r]
  OBVIOUS
<1>3. /\ v.pc = "calling" /\ v.posting = task[t].posting /\ v.id = task[t].id
      /\ v.todo = task[t].todo /\ v.out = task[t].out
  BY <1>1, <1>2 DEF TaskState
<1>4. SenderOK(v)
  BY <1>1, <1>3 DEF SenderOK, Clear, Heard, Counted, NetworkPhase
<1>5. task' = [task EXCEPT ![t] = v]
  BY <1>1, <1>2 DEF CallBot, TypeOK
<1>6. UNCHANGED <<table, row, delivered, accepted, blind, resend, owed>>
  BY DEF CallBot, database, memory
<1>7. QED
  BY <1>4, <1>5, <1>6, MoveDelivery

\* What a handler becomes when its attempt failed: it is as before, or it says
\* "failed" of the recipient it called.
LEMMA AttemptBecomes ==
  ASSUME TypeOK, NEW t \in Task, task[t].cur \in Recipient, AttemptFails(t)
  PROVE  \E v :
           /\ task' = [task EXCEPT ![t] = v]
           /\ v.pc = "notify" /\ v.posting = task[t].posting /\ v.id = task[t].id
           /\ v.todo \subseteq task[t].todo
           /\ \A r \in Recipient :
                v.out[r] = task[t].out[r] \/ (v.out[r] = "failed" /\ r = task[t].cur)
<1> DEFINE again == [task[t] EXCEPT !.pc = "notify", !.tries = task[t].tries + 1]
           over(r) == Settled(t, r, "failed")
<1>1. task[t] \in TaskState
  BY DEF TypeOK
<1>2. PICK c \in Recipient : c = task[t].cur
  OBVIOUS
<1>3. task' = [task EXCEPT ![t] = again] \/ task' = [task EXCEPT ![t] = over(c)]
  BY <1>2 DEF AttemptFails
<1>4. /\ again.pc = "notify" /\ again.posting = task[t].posting /\ again.id = task[t].id
      /\ again.todo = task[t].todo /\ again.out = task[t].out
  BY <1>1 DEF TaskState
<1>a. "failed" \in Status
  BY DEF Status
<1>5. /\ over(c).pc = "notify" /\ over(c).posting = task[t].posting
      /\ over(c).id = task[t].id /\ over(c).todo = task[t].todo \ {c}
      /\ over(c).out = [task[t].out EXCEPT ![c] = "failed"]
  BY <1>a, SettledFields
<1> HIDE DEF again, over
<1>6. \A r \in Recipient :
        over(c).out[r] = task[t].out[r] \/ (over(c).out[r] = "failed" /\ r = c)
  BY <1>1, <1>5 DEF TaskState
<1>7. CASE task' = [task EXCEPT ![t] = again]
  <2> WITNESS again
  <2> QED BY <1>4, <1>7
<1>8. CASE task' = [task EXCEPT ![t] = over(c)]
  <2> WITNESS over(c)
  <2> QED BY <1>2, <1>5, <1>6, <1>8
<1>9. QED
  BY <1>3, <1>7, <1>8

\* A call that was refused.
LEMMA RefusedDelivery ==
  ASSUME Calm, NEW t \in Task, BotRefuses(t)
  PROVE  DeliveryInv'
<1>1. /\ task[t].pc = "calling" /\ Sends(t) /\ SenderOK(task[t]) /\ TypeOK
      /\ task[t].cur \in Recipient
  BY CalmParts DEF BotRefuses, Sends, NetworkPhase, DeliveryInv, SendersInv, SenderOK,
                   AllOccupied, Occupied
<1>2. PICK v :
        /\ task' = [task EXCEPT ![t] = v]
        /\ v.pc = "notify" /\ v.posting = task[t].posting /\ v.id = task[t].id
        /\ v.todo \subseteq task[t].todo
        /\ \A r \in Recipient :
             v.out[r] = task[t].out[r] \/ (v.out[r] = "failed" /\ r = task[t].cur)
  BY <1>1, AttemptBecomes DEF BotRefuses
<1>3. Even(task[t].posting, task[t].cur)
  BY <1>1, CalmParts DEF SenderOK, Counted, NetworkPhase
<1>4. SenderOK(v)
  BY <1>1, <1>2, <1>3 DEF SenderOK, Clear, Heard, Counted, NetworkPhase
<1>5. UNCHANGED <<table, row, delivered, accepted, blind, resend, owed>>
  BY DEF BotRefuses, database, memory
<1>6. QED
  BY <1>2, <1>4, <1>5, MoveDelivery

\* --- steps that count ---

\* An acceptance of an alert that is owed, of which none was known: who is alerted,
\* how often, and what else was accepted.
LEMMA OneMore ==
  ASSUME Calm, NEW p \in Posting, NEW r \in Recipient, Even(p, r), r \in owed[p],
         accepted' = [accepted EXCEPT ![p][r] = @ + 1], UNCHANGED <<blind, owed>>
  PROVE  /\ OnlyOwedAreAlerted' /\ AtMostOnceUnlessBlind'
         /\ accepted'[p][r] > 0
         /\ \A q \in Posting, x \in Recipient :
              /\ accepted[q][x] > 0 => accepted'[q][x] > 0
              /\ q # p \/ x # r => accepted'[q][x] = accepted[q][x]
<1>1. /\ accepted \in [Posting -> [Recipient -> Nat]] /\ blind \in [Posting -> [Recipient -> Nat]]
      /\ OnlyOwedAreAlerted /\ AtMostOnceUnlessBlind /\ OwedInv
  BY CalmParts DEF TypeOK, DeliveryInv
<1>2. \A q \in Posting, x \in Recipient :
        accepted'[q][x] = IF q = p /\ x = r THEN accepted[q][x] + 1 ELSE accepted[q][x]
  BY <1>1
<1>3. \A q \in Posting, x \in Recipient : accepted[q][x] \in Nat /\ blind[q][x] \in Nat
  BY <1>1
<1>4. accepted'[p][r] > 0 /\ accepted'[p][r] <= 1 + blind[p][r]
  BY <1>2, <1>3 DEF Even
<1>5. \A q \in Posting, x \in Recipient :
        /\ accepted[q][x] > 0 => accepted'[q][x] > 0
        /\ q # p \/ x # r => accepted'[q][x] = accepted[q][x]
  BY <1>2, <1>3
<1>6. OnlyOwedAreAlerted'
  BY <1>1, <1>5 DEF OnlyOwedAreAlerted, OwedInv
<1>7. AtMostOnceUnlessBlind'
  BY <1>1, <1>4, <1>5 DEF AtMostOnceUnlessBlind
<1>8. QED
  BY <1>4, <1>5, <1>6, <1>7

\* What does not count the pair, or only asks whether it was ever accepted, survives.
LEMMA AcceptedElsewhere ==
  ASSUME Calm, UNCHANGED <<table, row, delivered, blind, owed>>,
         \A q \in Posting, x \in Recipient : accepted[q][x] > 0 => accepted'[q][x] > 0
  PROVE  RowsInv' /\ DeliveredInv' /\ SentIsHonest'
<1>1. /\ RowsInv /\ DeliveredInv /\ SentIsHonest
      /\ \A i \in Id : table[i] # NoPosting => table[i] \in Posting
  BY CalmParts DEF DeliveryInv, TypeOK
<1>2. RowsInv'
  BY <1>1 DEF RowsInv, KindOf
<1>3. DeliveredInv'
  BY <1>1 DEF DeliveredInv
<1>4. SentIsHonest'
  BY <1>1 DEF SentIsHonest
<1>5. QED
  BY <1>2, <1>3, <1>4

\* Telegram accepts an alert of a handler: nobody else can be alerting its posting.
LEMMA AcceptDelivery ==
  ASSUME Calm, NEW t \in Task, BotAccepts(t)
  PROVE  DeliveryInv'
<1> DEFINE v == [task[t] EXCEPT !.pc = "accepted"]
<1>1. PICK p \in Posting, r \in Recipient : p = task[t].posting /\ r = task[t].cur
  BY CalmParts DEF BotAccepts, AllOccupied, Occupied
<1>2. /\ task[t].pc = "calling" /\ Sends(t) /\ task[t] \in TaskState
      /\ Clear(task[t]) /\ Heard(task[t]) /\ Counted(task[t])
  BY CalmParts DEF BotAccepts, Sends, NetworkPhase, DeliveryInv, SendersInv, TypeOK
<1>3. /\ r \in task[t].todo /\ r \in owed[p] /\ task[t].out[r] = "none" /\ Even(p, r)
  BY <1>1, <1>2, CalmParts DEF Counted, NetworkPhase, Answered
<1>4. /\ accepted' = [accepted EXCEPT ![p][r] = @ + 1]
      /\ UNCHANGED <<table, row, delivered, blind, owed, resend>>
  BY <1>1 DEF BotAccepts, database, memory
<1>5. /\ OnlyOwedAreAlerted' /\ AtMostOnceUnlessBlind'
      /\ accepted'[p][r] > 0
      /\ \A q \in Posting, x \in Recipient :
           /\ accepted[q][x] > 0 => accepted'[q][x] > 0
           /\ q # p \/ x # r => accepted'[q][x] = accepted[q][x]
  BY <1>3, <1>4, OneMore
<1>6. RowsInv' /\ DeliveredInv' /\ SentIsHonest'
  BY <1>4, <1>5, AcceptedElsewhere
<1>7. \A u \in Task : Sends(u) /\ u # t => task[u].posting \in Posting \ {p}
  BY <1>1, <1>2, CalmParts DEF SoleSender, Sends, NetworkPhase
<1>8. /\ v.pc = "accepted" /\ v.posting = p /\ v.id = task[t].id
      /\ v.todo = task[t].todo /\ v.out = task[t].out /\ v.cur = r
  BY <1>1, <1>2 DEF TaskState
<1>9. task' = [task EXCEPT ![t] = v]
  BY CalmParts DEF BotAccepts, TypeOK
<1> HIDE DEF v
<1>10. task'[t] = v /\ \A u \in Task \ {t} : task'[u] = task[u]
  BY <1>9, TaskBecomes, CalmParts
<1>11. SendersInv'
  <2>1. (Clear(task[t]) /\ Heard(task[t]) /\ Counted(task[t]))'
    <3>1. Clear(task[t])'
      BY <1>1, <1>2, <1>4, <1>8, <1>10 DEF Clear, NetworkPhase, KindOf
    <3>2. Heard(task[t])'
      BY <1>1, <1>2, <1>5, <1>8, <1>10 DEF Heard, NetworkPhase
    <3>3. Counted(task[t])'
      BY <1>1, <1>2, <1>3, <1>4, <1>5, <1>8, <1>10 DEF Counted, NetworkPhase, Even
    <3>4. QED
      BY <3>1, <3>2, <3>3
  <2>2. ASSUME NEW u \in Task \ {t}
        PROVE  (Clear(task[u]) /\ Heard(task[u]) /\ Counted(task[u]))'
    <3>1. Clear(task[u]) /\ Heard(task[u]) /\ Counted(task[u]) /\ task'[u] = task[u]
      BY <1>10, CalmParts DEF DeliveryInv, SendersInv
    <3>2. task[u].pc \in NetworkPhase => task[u].posting \in Posting \ {p}
      BY <1>7 DEF Sends
    <3>3. Clear(task[u])'
      BY <1>4, <3>1 DEF Clear, KindOf
    <3>4. task[u].pc = "accepted" => task[u].cur \in Recipient
      BY CalmParts DEF AllOccupied, Occupied
    <3>5. Heard(task[u])'
      BY <1>5, <3>1, <3>2, <3>4 DEF Heard
    <3>6. Counted(task[u])'
      BY <1>4, <1>5, <3>1, <3>2 DEF Counted, Even
    <3>7. QED
      BY <3>3, <3>5, <3>6
  <2>3. QED
    BY <2>1, <2>2 DEF SendersInv
<1>12. \A i \in Id, x \in Recipient, k \in Kind : row[i][x][k] = "failed" =>
         table[i] \in Posting \ {p}
  <2>1. \A i \in Id, x \in Recipient, k \in Kind : row[i][x][k] = "failed" =>
          table[i] \in Posting
    BY CalmParts DEF DeliveryInv, RowsInv, TypeOK
  <2>2. QED
    BY <1>1, <1>2, <2>1, FailedNotSending
<1>13. FailedInv'
  BY <1>4, <1>5, <1>12, CalmParts DEF DeliveryInv, FailedInv, Even
<1>14. CandidatesInv'
  BY <1>4, CalmParts DEF DeliveryInv, CandidatesInv
<1>15. PassInv'
  <2>1. ASSUME NEW c \in resend.cur
        PROVE  c.posting \in Posting \ {p} /\ c.recipient \in Recipient
    <3>1. /\ c.id \in Id /\ c.recipient \in Recipient /\ c.kind \in Kind
          /\ table[c.id] = c.posting /\ row[c.id][c.recipient][c.kind] = "failed"
      BY CandidateType, CalmParts DEF DeliveryInv, CandidatesInv
    <3>2. QED
      BY <1>12, <3>1
  <2>2. \A c \in resend.cur :
          /\ Even(c.posting, c.recipient) => Even(c.posting, c.recipient)'
          /\ accepted[c.posting][c.recipient] > 0 => accepted'[c.posting][c.recipient] > 0
    BY <1>4, <1>5, <2>1 DEF Even
  <2>3. PassInv
    BY CalmParts DEF DeliveryInv
  <2>4. QED
    BY <1>4, <2>2, <2>3 DEF PassInv
<1>16. QED
  BY <1>5, <1>6, <1>11, <1>13, <1>14, <1>15 DEF DeliveryInv

\* Its answer arrives: what the handler says was sent was accepted.
LEMMA AnswerDelivery ==
  ASSUME Calm, NEW t \in Task, BotAnswers(t)
  PROVE  DeliveryInv'
<1>1. PICK p \in Posting, r \in Recipient, i \in Id :
        p = task[t].posting /\ r = task[t].cur /\ i = task[t].id
  BY CalmParts DEF BotAnswers, AllOccupied, Occupied, NetworkPhase
<1> DEFINE v == Settled(t, r, "sent")
<1>2. /\ task[t].pc = "accepted" /\ Sends(t) /\ task[t] \in TaskState
      /\ Clear(task[t]) /\ Heard(task[t]) /\ Counted(task[t])
  BY CalmParts DEF BotAnswers, Sends, NetworkPhase, DeliveryInv, SendersInv, TypeOK
<1>3. accepted[p][r] > 0 /\ table[i] = p /\ p # NoPosting
  BY <1>1, <1>2, CalmParts, PipelineAssumption DEF Heard, NetworkPhase
<1>4. /\ delivered' = delivered \cup {<<i, r>>}
      /\ task' = [task EXCEPT ![t] = v]
      /\ UNCHANGED <<table, row, accepted, blind, resend, owed>>
  BY <1>1 DEF BotAnswers, database
<1>a. TypeOK /\ "sent" \in Status
  BY CalmParts DEF Status
<1>5. /\ v.pc = "notify" /\ v.posting = p /\ v.id = i
      /\ v.todo = task[t].todo \ {r} /\ v.out = [task[t].out EXCEPT ![r] = "sent"]
  BY <1>1, <1>a, SettledFields
<1> HIDE DEF v
<1>6. task'[t] = v /\ \A u \in Task \ {t} : task'[u] = task[u]
  BY <1>4, TaskBecomes, CalmParts
<1>7. \A x \in Recipient : v.out[x] = IF x = r THEN "sent" ELSE task[t].out[x]
  BY <1>2, <1>5 DEF TaskState
<1>8. Clear(v) /\ Heard(v) /\ Counted(v)
  BY <1>1, <1>2, <1>3, <1>5, <1>7 DEF Clear, Heard, Counted, NetworkPhase
<1>9. \A u \in Task : SenderOK(task'[u])
  BY <1>6, <1>8, CalmParts DEF SenderOK, DeliveryInv, SendersInv
<1>10. SendersInv'
  BY <1>4, <1>9 DEF SendersInv, SenderOK, Clear, Heard, Counted, Even, KindOf
<1>11. RowsInv' /\ SentIsHonest' /\ OnlyOwedAreAlerted' /\ AtMostOnceUnlessBlind'
  BY <1>4, CalmParts DEF DeliveryInv, RowsInv, KindOf, SentIsHonest, OnlyOwedAreAlerted,
                         AtMostOnceUnlessBlind
<1>12. DeliveredInv'
  <2>1. SUFFICES ASSUME NEW j \in Id, NEW x \in Recipient, <<j, x>> \in delivered'
                 PROVE  table[j] # NoPosting /\ accepted[table[j]][x] > 0
    BY <1>4 DEF DeliveredInv
  <2>2. CASE <<j, x>> \in delivered
    BY <2>2, CalmParts DEF DeliveryInv, DeliveredInv
  <2>3. CASE j = i /\ x = r
    BY <1>3, <2>3
  <2>4. QED
    BY <1>4, <2>1, <2>2, <2>3
<1>13. CandidatesInv' /\ PassInv'
  BY <1>4, CalmParts DEF DeliveryInv, CandidatesInv, PassInv, Even
<1>14. FailedInv'
  BY <1>4, CalmParts DEF DeliveryInv, FailedInv, Even
<1>15. QED
  BY <1>10, <1>11, <1>12, <1>13, <1>14 DEF DeliveryInv

\* One more acceptance the listener cannot know of: the pair is even again, and
\* what was even stays so.
LEMMA OneBlind ==
  ASSUME Calm, NEW p \in Posting, NEW r \in Recipient,
         blind' = [blind EXCEPT ![p][r] = @ + 1], UNCHANGED accepted
  PROVE  /\ Even(p, r)' /\ AtMostOnceUnlessBlind'
         /\ \A q \in Posting, x \in Recipient : Even(q, x) => Even(q, x)'
<1>1. /\ accepted \in [Posting -> [Recipient -> Nat]]
      /\ blind \in [Posting -> [Recipient -> Nat]] /\ AtMostOnceUnlessBlind
  BY CalmParts DEF TypeOK, DeliveryInv
<1>2. \A q \in Posting, x \in Recipient :
        blind'[q][x] = IF q = p /\ x = r THEN blind[q][x] + 1 ELSE blind[q][x]
  BY <1>1
<1>3. \A q \in Posting, x \in Recipient :
        /\ accepted[q][x] \in Nat /\ blind[q][x] \in Nat
        /\ accepted[q][x] <= 1 + blind[q][x]
  BY <1>1 DEF AtMostOnceUnlessBlind
<1>4. \A q \in Posting, x \in Recipient : Even(q, x) => Even(q, x)'
  BY <1>2, <1>3 DEF Even
<1>5. Even(p, r)'
  BY <1>2, <1>3 DEF Even
<1>6. AtMostOnceUnlessBlind'
  BY <1>2, <1>3 DEF AtMostOnceUnlessBlind
<1>7. QED
  BY <1>4, <1>5, <1>6

\* Its answer is lost: the handler may call again.
LEMMA TimeoutDelivery ==
  ASSUME Calm, NEW t \in Task, BotTimesOut(t)
  PROVE  DeliveryInv'
<1>1. PICK p \in Posting, r \in Recipient : p = task[t].posting /\ r = task[t].cur
  BY CalmParts DEF BotTimesOut, AllOccupied, Occupied
<1>2. /\ task[t].pc = "accepted" /\ Sends(t) /\ task[t].cur \in Recipient
      /\ Clear(task[t]) /\ Heard(task[t]) /\ Counted(task[t])
  BY <1>1, CalmParts DEF BotTimesOut, Sends, NetworkPhase, DeliveryInv, SendersInv
<1>3. PICK v :
        /\ task' = [task EXCEPT ![t] = v]
        /\ v.pc = "notify" /\ v.posting = task[t].posting /\ v.id = task[t].id
        /\ v.todo \subseteq task[t].todo
        /\ \A x \in Recipient :
             v.out[x] = task[t].out[x] \/ (v.out[x] = "failed" /\ x = task[t].cur)
  BY <1>2, AttemptBecomes, CalmParts DEF BotTimesOut
<1>4. /\ blind' = [blind EXCEPT ![p][r] = @ + 1]
      /\ UNCHANGED <<table, row, delivered, accepted, resend, owed>>
  BY <1>1 DEF BotTimesOut, database, memory
<1>5. /\ Even(p, r)' /\ AtMostOnceUnlessBlind'
      /\ \A q \in Posting, x \in Recipient : Even(q, x) => Even(q, x)'
  BY <1>4, OneBlind
<1>6. task'[t] = v /\ \A u \in Task \ {t} : task'[u] = task[u]
  BY <1>3, TaskBecomes, CalmParts
<1>7. (Clear(task[t]) /\ Heard(task[t]) /\ Counted(task[t]))'
  <2>1. Clear(task[t])' /\ Heard(task[t])'
    BY <1>1, <1>2, <1>3, <1>4, <1>6 DEF Clear, Heard, NetworkPhase, KindOf
  <2>2. Counted(task[t])'
    BY <1>1, <1>2, <1>3, <1>4, <1>5, <1>6 DEF Counted, NetworkPhase
  <2>3. QED
    BY <2>1, <2>2
<1>8. ASSUME NEW u \in Task \ {t}
      PROVE  (Clear(task[u]) /\ Heard(task[u]) /\ Counted(task[u]))'
  <2>1. Clear(task[u]) /\ Heard(task[u]) /\ Counted(task[u]) /\ task'[u] = task[u]
    BY <1>6, CalmParts DEF DeliveryInv, SendersInv
  <2>2. task[u].pc \in NetworkPhase => task[u].posting \in Posting
    BY CalmParts DEF Sends
  <2>3. Clear(task[u])' /\ Heard(task[u])'
    BY <1>4, <2>1 DEF Clear, Heard, KindOf
  <2>4. Counted(task[u])'
    BY <1>5, <2>1, <2>2 DEF Counted
  <2>5. QED
    BY <2>3, <2>4
<1>9. SendersInv'
  BY <1>7, <1>8 DEF SendersInv
<1>10. RowsInv' /\ SentIsHonest' /\ OnlyOwedAreAlerted' /\ DeliveredInv' /\ CandidatesInv'
  BY <1>4, CalmParts DEF DeliveryInv, RowsInv, KindOf, SentIsHonest, OnlyOwedAreAlerted,
                         DeliveredInv, CandidatesInv
<1>11. PassInv' /\ FailedInv'
  <2>1. \A c \in resend.cur : c.posting \in Posting /\ c.recipient \in Recipient
    BY CandidateType, CalmParts
  <2>2. \A i \in Id, x \in Recipient, k \in Kind : row[i][x][k] = "failed" => table[i] \in Posting
    BY CalmParts DEF DeliveryInv, RowsInv, TypeOK
  <2>3. PassInv'
    BY <1>4, <1>5, <2>1, CalmParts DEF DeliveryInv, PassInv
  <2>4. FailedInv'
    BY <1>4, <1>5, <2>2, CalmParts DEF DeliveryInv, FailedInv
  <2>5. QED
    BY <2>3, <2>4
<1>12. QED
  BY <1>5, <1>9, <1>10, <1>11 DEF DeliveryInv

\* --- a new match ---

\* A handler at the start of the network phase of posting p, whose match is row i.
BeginsWith(v, p, i) == v.posting = p /\ v.id = i /\ v.out = NoOutcome /\ v.pc = "notify"

\* A match that is added, with rows that are neither sent nor failed.  If a handler
\* starts to send it, the row for the channel of its alert stays free.
LEMMA AddDelivery ==
  ASSUME Calm, NEW p \in Posting, p \notin decided, NEW i \in Id, table[i] = NoPosting,
         table' = [table EXCEPT ![i] = p],
         NEW R \in SUBSET Recipient, NEW k, NEW s \in Status \ {"sent", "failed"},
         row' = WithRows(i, R, k, [r \in Recipient |-> s]),
         UNCHANGED <<delivered, accepted, blind, resend>>,
         \A q \in decided : owed'[q] = owed[q],
         \A u \in Task : \/ task'[u] = task[u]
                         \/ task'[u].pc \notin NetworkPhase
                         \/ BeginsWith(task'[u], p, i) /\ k # KindOf(p)
  PROVE  DeliveryInv'
<1>1. /\ TypeOK /\ Verdicts /\ DeliveryInv /\ OwedInv /\ p # NoPosting
      /\ table \in [Id -> Posting \cup {NoPosting}] /\ decided \subseteq Posting
  BY CalmParts, PipelineAssumption DEF TypeOK
<1>2. \A j \in Id : table'[j] = IF j = i THEN p ELSE table[j]
  BY <1>1
<1>3. \A j \in Id, r \in Recipient, q \in Kind :
        row'[j][r][q] = IF j = i /\ r \in R /\ q = k THEN s ELSE row[j][r][q]
  BY <1>1, WithRowsAt
<1>4. \A r \in Recipient, q \in Kind : row[i][r][q] = "none"
  BY <1>1 DEF DeliveryInv, RowsInv
<1>5. \A j \in Id : table[j] # NoPosting => j # i /\ table[j] # p /\ table[j] \in decided
  BY <1>1 DEF Verdicts
<1>6. \A r \in Recipient : accepted[p][r] = 0
  <2>1. owed[p] = {}
    BY <1>1 DEF OwedInv
  <2>2. \A r \in Recipient : accepted[p][r] \in Nat
    BY <1>1 DEF TypeOK
  <2>3. QED
    BY <1>1, <2>1, <2>2 DEF DeliveryInv, OnlyOwedAreAlerted
<1>7. RowsInv'
  <2>1. SUFFICES ASSUME NEW j \in Id, NEW r \in Recipient, NEW q \in Kind
                 PROVE  /\ row'[j][r][q] # "none" => table'[j] # NoPosting
                        /\ row'[j][r][q] \in {"sent", "failed"} =>
                             q = KindOf(table'[j]) /\ r \in owed'[table'[j]]
    BY DEF RowsInv, KindOf
  <2>2. CASE j = i
    BY <1>1, <1>2, <1>3, <1>4, <2>2
  <2>3. CASE j # i
    <3>1. row'[j][r][q] = row[j][r][q] /\ table'[j] = table[j]
      BY <1>2, <1>3, <2>3
    <3>2. /\ row[j][r][q] # "none" => table[j] # NoPosting
          /\ row[j][r][q] \in {"sent", "failed"} =>
               q = KindOf(table[j]) /\ r \in owed[table[j]]
      BY <1>1 DEF DeliveryInv, RowsInv
    <3>3. table[j] # NoPosting => owed'[table[j]] = owed[table[j]]
      BY <1>5
    <3>4. row[j][r][q] \in {"sent", "failed"} => row[j][r][q] # "none"
      OBVIOUS
    <3>5. QED
      BY <3>1, <3>2, <3>3, <3>4
  <2>4. QED
    BY <2>2, <2>3
<1>8. SendersInv'
  <2>1. ASSUME NEW u \in Task
        PROVE  (Clear(task[u]) /\ Heard(task[u]) /\ Counted(task[u]))'
    <3>1. CASE task'[u] = task[u]
      <4>1. Clear(task[u]) /\ Heard(task[u]) /\ Counted(task[u])
        BY <1>1 DEF DeliveryInv, SendersInv
      <4>2. Sends(u) => /\ task[u].id \in Id /\ task[u].posting \in Posting
                        /\ table[task[u].id] = task[u].posting
        BY CalmParts
      <4>3. Sends(u) => task[u].id # i
        BY <4>2, PipelineAssumption
      <4>4. \A q \in Posting : KindOf(q) \in Kind
        BY KindType DEF Kind
      <4>5. Clear(task[u])'
        BY <1>3, <3>1, <4>1, <4>2, <4>3, <4>4 DEF Clear, Sends, KindOf
      <4>6. Heard(task[u])' /\ Counted(task[u])'
        BY <3>1, <4>1 DEF Heard, Counted, Even
      <4>7. QED
        BY <4>5, <4>6
    <3>2. CASE task'[u].pc \notin NetworkPhase
      BY <3>2 DEF Clear, Heard, Counted
    <3>3. CASE BeginsWith(task'[u], p, i) /\ k # KindOf(p)
      <4>1. /\ task'[u].posting = p /\ task'[u].id = i /\ k # KindOf(p)
            /\ task'[u].out = NoOutcome /\ task'[u].pc = "notify"
        BY <3>3 DEF BeginsWith
      <4>2. KindOf(p) \in Kind
        BY KindType DEF Kind
      <4>3. Clear(task[u])'
        BY <1>3, <1>4, <4>1, <4>2 DEF Clear, KindOf
      <4>4. \A r \in Recipient : task'[u].out[r] = "none" /\ Even(p, r)'
        <5>1. \A r \in Recipient : blind[p][r] \in Nat
          BY <1>1 DEF TypeOK
        <5>2. QED
          BY <1>6, <4>1, <5>1 DEF NoOutcome, Even
      <4>5. Heard(task[u])' /\ Counted(task[u])'
        BY <4>1, <4>4 DEF Heard, Counted
      <4>6. QED
        BY <4>3, <4>5
    <3>4. QED
      BY <3>1, <3>2, <3>3
  <2>2. QED
    BY <2>1 DEF SendersInv
<1>9. CandidatesInv'
  <2>1. ASSUME NEW c \in resend.todo \cup resend.cur
        PROVE  table'[c.id] = c.posting /\ row'[c.id][c.recipient][c.kind] = "failed"
    <3>1. /\ c.id \in Id /\ c.recipient \in Recipient /\ c.kind \in Kind
          /\ table[c.id] = c.posting /\ row[c.id][c.recipient][c.kind] = "failed"
      BY <1>1, CandidateType DEF DeliveryInv, CandidatesInv
    <3>2. c.id # i
      BY <1>4, <3>1
    <3>3. QED
      BY <1>2, <1>3, <3>1, <3>2
  <2>2. QED
    BY <1>1, <2>1 DEF DeliveryInv, CandidatesInv
<1>10. PassInv' /\ AtMostOnceUnlessBlind'
  BY <1>1 DEF DeliveryInv, PassInv, Even, AtMostOnceUnlessBlind
<1>11. DeliveredInv'
  BY <1>1, <1>2, <1>5 DEF DeliveryInv, DeliveredInv
<1>12. SentIsHonest'
  <2>1. SUFFICES ASSUME NEW j \in Id, NEW r \in Recipient, NEW q \in Kind,
                        row'[j][r][q] = "sent"
                 PROVE  accepted[table'[j]][r] > 0
    BY DEF SentIsHonest
  <2>2. j # i /\ row[j][r][q] = "sent"
    BY <1>3, <1>4, <2>1
  <2>3. table[j] # NoPosting
    BY <1>1, <2>2 DEF DeliveryInv, RowsInv
  <2>4. QED
    BY <1>1, <1>2, <2>2, <2>3 DEF DeliveryInv, SentIsHonest
<1>13. FailedInv'
  <2>1. SUFFICES ASSUME NEW j \in Id, NEW r \in Recipient, NEW q \in Kind,
                        row'[j][r][q] = "failed", <<j, r>> \notin delivered,
                        ~(resend.pc = "accepted" /\
                            \E c \in resend.cur : c.id = j /\ c.recipient = r)
                 PROVE  Even(table'[j], r)
    BY DEF FailedInv, Even
  <2>2. j # i /\ row[j][r][q] = "failed"
    BY <1>3, <1>4, <2>1
  <2>3. QED
    BY <1>1, <1>2, <2>1, <2>2 DEF DeliveryInv, FailedInv
<1>14. OnlyOwedAreAlerted'
  <2>1. SUFFICES ASSUME NEW q \in Posting, NEW r \in Recipient, accepted[q][r] > 0
                 PROVE  r \in owed'[q] /\ r \in Wants[q]
    BY DEF OnlyOwedAreAlerted
  <2>2. r \in owed[q] /\ r \in Wants[q]
    BY <1>1, <2>1 DEF DeliveryInv, OnlyOwedAreAlerted
  <2>3. q \in decided
    BY <1>1, <2>2 DEF OwedInv
  <2>4. QED
    BY <2>2, <2>3
<1>15. QED
  BY <1>7, <1>8, <1>9, <1>10, <1>11, <1>12, <1>13, <1>14 DEF DeliveryInv

\* The bookkeeping of a match that is alerted is not of the channel of its alert.
LEMMA BookkeepingIsElsewhere ==
  ASSUME NEW p \in Posting
  PROVE  /\ Bookkeeping(p).status \in Status \ {"sent", "failed"}
         /\ ~Quiet(p) => Bookkeeping(p).kind # KindOf(p)
<1>1. Bookkeeping(p).status \in Status \ {"sent", "failed"}
  BY DEF Bookkeeping, Status
<1>2. ASSUME ~Quiet(p)
      PROVE  Bookkeeping(p).kind # KindOf(p)
  BY <1>2, PipelineAssumption DEF Bookkeeping, Quiet, KindOf, Echo
<1>3. QED
  BY <1>1, <1>2

\* A match that is persisted, with its alert or without.
LEMMA PersistDelivery ==
  ASSUME Calm, NEW t \in Task, NEW i \in Id, PersistQuietly(t, i) \/ PersistAlert(t, i)
  PROVE  DeliveryInv'
<1>1. PICK p \in Posting : p = task[t].posting
  BY CalmParts DEF PersistQuietly, PersistAlert, IsNew, AllOccupied, Occupied
<1>2. PICK R \in SUBSET Recipient : R = Eligible(task[t].todo, p)
  BY CalmParts DEF Eligible, TypeOK
<1>3. PICK k, s : k = Bookkeeping(p).kind /\ s = Bookkeeping(p).status
  OBVIOUS
<1>4. PICK alerted \in SUBSET Recipient :
        /\ IsNew(t) /\ Persist(t, i, alerted)
        /\ alerted = R \/ alerted = {}
  BY <1>1, <1>2 DEF PersistQuietly, PersistAlert
<1>5. p \notin decided /\ table[i] = NoPosting
  BY <1>1, <1>4, CalmParts, NextIdFree DEF Persist, IsNew, Verdicts
<1>6. /\ table' = [table EXCEPT ![i] = p]
      /\ row' = WithRows(i, R, k, [r \in Recipient |-> s])
      /\ owed' = [owed EXCEPT ![p] = alerted]
      /\ UNCHANGED <<delivered, accepted, blind, resend>>
  BY <1>1, <1>2, <1>3, <1>4 DEF Persist
<1>7. s \in Status \ {"sent", "failed"} /\ (~Quiet(p) => k # KindOf(p))
  BY <1>3, BookkeepingIsElsewhere
<1>8. \A q \in decided : owed'[q] = owed[q]
  BY <1>5, <1>6, CalmParts DEF TypeOK
<1>9. ASSUME NEW u \in Task
      PROVE  \/ task'[u] = task[u]
             \/ task'[u].pc \notin NetworkPhase
             \/ BeginsWith(task'[u], p, i) /\ k # KindOf(p)
  <2>1. CASE PersistQuietly(t, i)
    BY <2>1, CalmParts DEF PersistQuietly, IdleTask, NetworkPhase, TypeOK
  <2>2. CASE PersistAlert(t, i)
    <3>1. task[t].out = NoOutcome /\ ~Quiet(p)
      BY <1>1, <2>2, CalmParts DEF PersistAlert, IsNew, AllBlank, Blank
    <3>2. task' = [task EXCEPT ![t] = [task[t] EXCEPT !.pc = "notify", !.id = i, !.todo = R]]
      BY <1>1, <1>2, <2>2 DEF PersistAlert
    <3>3. /\ u # t => task'[u] = task[u]
          /\ u = t => BeginsWith(task'[u], p, i)
      BY <1>1, <3>1, <3>2, CalmParts DEF BeginsWith, TypeOK, TaskState
    <3>4. QED
      BY <1>7, <3>1, <3>3
  <2>3. QED
    BY <2>1, <2>2
<1>10. QED
  BY <1>5, <1>6, <1>7, <1>8, <1>9, AddDelivery

\* A match of the history.
LEMMA ScanDelivery ==
  ASSUME Calm, NEW p \in Posting, NEW i \in Id, ScanHistorical(p, i)
  PROVE  DeliveryInv'
<1>1. PICK R \in SUBSET Recipient : R = Eligible(loaded, p)
  BY CalmParts DEF Eligible, TypeOK
<1>2. p \notin decided /\ table[i] = NoPosting
  BY CalmParts, NextIdFree DEF ScanHistorical, Verdicts
<1>3. /\ table' = [table EXCEPT ![i] = p]
      /\ row' = WithRows(i, R, "immediate", [r \in Recipient |-> "historical"])
      /\ UNCHANGED <<delivered, accepted, blind, resend, owed, task>>
  BY <1>1 DEF ScanHistorical, memory
<1>4. "historical" \in Status \ {"sent", "failed"}
  BY DEF Status
<1>5. QED
  BY <1>2, <1>3, <1>4, AddDelivery

\* --- the end of a handler ---

\* The outcomes of a handler become the rows of its match for the channel of its
\* alert, of which there were none.
LEMMA RecordedRows ==
  ASSUME Calm, NEW t \in Task, RecordOutcomes(t)
  PROVE  \E p \in Posting, i \in Id, k \in Kind, out \in [Recipient -> Status] :
           /\ p = task[t].posting /\ i = task[t].id /\ k = KindOf(p) /\ out = task[t].out
           /\ table[i] = p /\ p # NoPosting
           /\ \A r \in Recipient : row[i][r][k] = "none"
           /\ \A j \in Id, r \in Recipient, q \in Kind :
                row'[j][r][q] = IF j = i /\ q = k THEN out[r] ELSE row[j][r][q]
<1>1. PICK p \in Posting, i \in Id : p = task[t].posting /\ i = task[t].id
  BY CalmParts DEF RecordOutcomes, NetworkDone, AllOccupied, Occupied, NetworkPhase
<1>2. PICK k \in Kind : k = KindOf(p)
  BY KindType DEF Kind
<1>3. PICK out \in [Recipient -> Status] : out = task[t].out
  BY CalmParts DEF TypeOK, TaskState
<1>4. task[t].pc = "notify" /\ Sends(t) /\ Clear(task[t])
  BY CalmParts DEF RecordOutcomes, NetworkDone, Sends, NetworkPhase, DeliveryInv, SendersInv
<1>5. /\ table[i] = p /\ p # NoPosting
      /\ \A r \in Recipient : row[i][r][k] = "none"
  BY <1>1, <1>2, <1>4, CalmParts, PipelineAssumption DEF Clear, NetworkPhase
<1>6. row' = WithRows(i, Outcomes(t), k, out)
  BY <1>1, <1>2, <1>3 DEF RecordOutcomes
<1>7. \A j \in Id, r \in Recipient, q \in Kind :
        row'[j][r][q] =
          IF j = i /\ r \in Outcomes(t) /\ q = k THEN out[r] ELSE row[j][r][q]
  BY <1>6, WithRowsAt, CalmParts
<1>8. \A r \in Recipient : r \notin Outcomes(t) => out[r] = "none"
  BY <1>3 DEF Outcomes
<1>9. \A j \in Id, r \in Recipient, q \in Kind :
        row'[j][r][q] = IF j = i /\ q = k THEN out[r] ELSE row[j][r][q]
  BY <1>5, <1>7, <1>8
<1>10. QED
  BY <1>1, <1>2, <1>3, <1>5, <1>9

\* The outcomes are written: what is sent was accepted, what failed is even, and no
\* row was there before.
LEMMA RecordDelivery ==
  ASSUME Calm, NEW t \in Task, RecordOutcomes(t)
  PROVE  DeliveryInv'
<1>1. PICK p \in Posting, i \in Id, k \in Kind, out \in [Recipient -> Status] :
        /\ p = task[t].posting /\ i = task[t].id /\ k = KindOf(p) /\ out = task[t].out
        /\ table[i] = p /\ p # NoPosting
        /\ \A r \in Recipient : row[i][r][k] = "none"
        /\ \A j \in Id, r \in Recipient, q \in Kind :
             row'[j][r][q] = IF j = i /\ q = k THEN out[r] ELSE row[j][r][q]
  BY RecordedRows
<1>2. k = KindOf(p) /\ out = task[t].out
  BY <1>1
<1>4. /\ task[t].pc = "notify" /\ Sends(t)
      /\ Clear(task[t]) /\ Heard(task[t]) /\ Counted(task[t])
  BY CalmParts DEF RecordOutcomes, NetworkDone, Sends, NetworkPhase, DeliveryInv, SendersInv
<1>5. /\ table[i] = p /\ p # NoPosting
      /\ \A r \in Recipient : row[i][r][k] = "none"
      /\ \A r \in Recipient : out[r] # "none" => r \in owed[p]
      /\ \A r \in Recipient : out[r] = "sent" => accepted[p][r] > 0
      /\ \A r \in Recipient : out[r] = "failed" => Even(p, r)
  BY <1>1, <1>4, CalmParts DEF Heard, Counted, NetworkPhase, Answered
<1>6. /\ task' = [task EXCEPT ![t] = IdleTask]
      /\ UNCHANGED <<table, delivered, accepted, blind, resend, owed>>
  BY DEF RecordOutcomes, memory
<1>7. \A j \in Id, r \in Recipient, q \in Kind :
        row'[j][r][q] = IF j = i /\ q = k THEN out[r] ELSE row[j][r][q]
  BY <1>1
<1>8. RowsInv'
  <2>1. RowsInv
    BY CalmParts DEF DeliveryInv
  <2>2. QED
    BY <1>2, <1>5, <1>6, <1>7, <2>1 DEF RowsInv, KindOf
<1>9. SendersInv'
  <2>1. ASSUME NEW u \in Task
        PROVE  (Clear(task[u]) /\ Heard(task[u]) /\ Counted(task[u]))'
    <3>1. CASE u = t
      <4>1. task'[u].pc \notin NetworkPhase
        BY <1>6, <3>1, CalmParts DEF TypeOK, IdleTask, NetworkPhase
      <4>2. QED
        BY <4>1 DEF Clear, Heard, Counted
    <3>2. CASE u # t
      <4>1. Clear(task[u]) /\ Heard(task[u]) /\ Counted(task[u]) /\ task'[u] = task[u]
        BY <1>6, <3>2, TaskBecomes, CalmParts DEF DeliveryInv, SendersInv
      <4>2. Sends(u) => /\ task[u].posting \in Posting /\ task[u].id \in Id
                        /\ table[task[u].id] = task[u].posting
        BY CalmParts
      <4>3. Sends(u) => task[u].posting # p
        BY <1>1, <1>4, <3>2, CalmParts DEF SoleSender, Sends, NetworkPhase
      <4>4. Sends(u) => task[u].id # i
        BY <1>5, <4>2, <4>3
      <4>5. \A q \in Posting : KindOf(q) \in Kind
        BY KindType DEF Kind
      <4>6. Clear(task[u])'
        BY <1>7, <4>1, <4>2, <4>4, <4>5 DEF Clear, Sends, KindOf
      <4>7. Heard(task[u])' /\ Counted(task[u])'
        BY <1>6, <4>1 DEF Heard, Counted, Even
      <4>8. QED
        BY <4>6, <4>7
    <3>3. QED
      BY <3>1, <3>2
  <2>2. QED
    BY <2>1 DEF SendersInv
<1>10. CandidatesInv'
  <2>1. ASSUME NEW c \in resend.todo \cup resend.cur
        PROVE  row'[c.id][c.recipient][c.kind] = "failed"
    <3>1. /\ c.id \in Id /\ c.recipient \in Recipient /\ c.kind \in Kind
          /\ row[c.id][c.recipient][c.kind] = "failed"
      BY CandidateType, CalmParts DEF DeliveryInv, CandidatesInv
    <3>2. ~(c.id = i /\ c.kind = k)
      BY <1>5, <3>1
    <3>3. QED
      BY <1>7, <3>1, <3>2
  <2>2. QED
    BY <1>6, <2>1, CalmParts DEF DeliveryInv, CandidatesInv
<1>11. PassInv' /\ DeliveredInv' /\ OnlyOwedAreAlerted' /\ AtMostOnceUnlessBlind'
  BY <1>6, CalmParts
     DEF DeliveryInv, PassInv, DeliveredInv, Even, OnlyOwedAreAlerted, AtMostOnceUnlessBlind
<1>12. FailedInv'
  <2>1. FailedInv
    BY CalmParts DEF DeliveryInv
  <2>2. QED
    BY <1>5, <1>6, <1>7, <2>1 DEF FailedInv, Even
<1>13. SentIsHonest'
  <2>1. SentIsHonest
    BY CalmParts DEF DeliveryInv
  <2>2. QED
    BY <1>5, <1>6, <1>7, <2>1 DEF SentIsHonest
<1>14. QED
  BY <1>8, <1>9, <1>10, <1>11, <1>12, <1>13 DEF DeliveryInv

\* --- the resend pass ---

\* A step of the pass alone, from where it has no acceptance unheard of.
LEMMA ResendOnly ==
  ASSUME Calm, UNCHANGED <<table, row, delivered, accepted, blind, owed, task>>,
         resend.pc # "accepted", CandidatesInv', PassInv'
  PROVE  DeliveryInv'
<1>1. DeliveryInv
  BY CalmParts
<1>2. RowsInv' /\ SendersInv' /\ DeliveredInv'
  BY <1>1 DEF DeliveryInv, RowsInv, SendersInv, DeliveredInv, Clear, Heard, Counted, Even,
              KindOf
<1>3. FailedInv'
  BY <1>1 DEF DeliveryInv, FailedInv, Even
<1>4. OnlyOwedAreAlerted' /\ SentIsHonest' /\ AtMostOnceUnlessBlind'
  BY <1>1 DEF DeliveryInv, OnlyOwedAreAlerted, SentIsHonest, AtMostOnceUnlessBlind
<1>5. QED
  BY <1>2, <1>3, <1>4 DEF DeliveryInv

\* The pass goes on to its next candidate, with the rows as they were.
LEMMA PassGoesOn ==
  ASSUME Calm, UNCHANGED <<table, row>>,
         NEW rest, rest \subseteq resend.todo,
         NextCandidate(rest)
  PROVE  CandidatesInv' /\ PassInv'
<1>1. CandidatesInv
  BY CalmParts DEF DeliveryInv
<1>2. resend'.todo = rest /\ resend'.cur = {}
  BY DEF NextCandidate, IdleResend
<1>3. resend'.pc = "idle" => resend'.todo = {}
  BY DEF NextCandidate, IdleResend
<1>4. \A c \in rest : table[c.id] = c.posting /\ row[c.id][c.recipient][c.kind] = "failed"
  BY <1>1 DEF CandidatesInv
<1>5. CandidatesInv'
  BY <1>2, <1>3, <1>4 DEF CandidatesInv
<1>6. PassInv'
  BY <1>2 DEF PassInv
<1>7. QED
  BY <1>5, <1>6

\* The pass looks up its candidates, goes on after a refusal, or gives up.
LEMMA PassDelivery ==
  ASSUME Calm, LoadCandidates \/ ResendRefused \/ MarkLocked
  PROVE  DeliveryInv'
<1>1. CASE LoadCandidates
  <2>1. /\ resend.cur = {} /\ resend \in ResendState /\ resend.pc = "idle"
    BY <1>1, CalmParts DEF LoadCandidates, DeliveryInv, CandidatesInv, TypeOK
  <2>2. /\ resend'.pc = "notify" /\ resend'.todo = Resendable /\ resend'.cur = {}
        /\ UNCHANGED <<table, row, delivered, accepted, blind, owed, task>>
    BY <1>1, <2>1 DEF LoadCandidates, ResendState, database, memory
  <2>3. CandidatesInv' /\ PassInv'
    BY <2>2 DEF CandidatesInv, PassInv, Resendable
  <2>4. QED
    BY <2>1, <2>2, <2>3, ResendOnly
<1>2. CASE ResendRefused
  <2>1. /\ resend.pc = "calling" /\ NextCandidate(resend.todo)
        /\ UNCHANGED <<table, row, delivered, accepted, blind, owed, task>>
    BY <1>2 DEF ResendRefused, database, memory
  <2>2. PICK todo : todo = resend.todo
    OBVIOUS
  <2>3. CandidatesInv' /\ PassInv'
    BY <2>1, <2>2, PassGoesOn
  <2>4. QED
    BY <2>1, <2>3, ResendOnly
<1>3. CASE MarkLocked
  <2>1. /\ resend.pc = "mark" /\ resend' = IdleResend
        /\ UNCHANGED <<table, row, delivered, accepted, blind, owed, task>>
    BY <1>3 DEF MarkLocked, database, memory
  <2>2. CandidatesInv' /\ PassInv'
    BY <2>1 DEF CandidatesInv, PassInv, IdleResend
  <2>3. QED
    BY <2>1, <2>2, ResendOnly
<1>4. QED
  BY <1>1, <1>2, <1>3

\* The pass comes to a candidate: it is passed over, known to be delivered, or called
\* for because nothing known was accepted.
LEMMA ResendCallsDelivery ==
  ASSUME Calm, NEW c \in resend.todo \cup resend.cur, ResendCalls(c)
  PROVE  DeliveryInv'
<1>0. PICK rest : rest = resend.todo \ {c}
  OBVIOUS
<1>1. /\ resend.pc = "notify" /\ c \in resend.todo
      /\ UNCHANGED <<table, row, delivered, accepted, blind, owed, task>>
  BY DEF ResendCalls, database, memory
<1>2. CandidatesInv /\ FailedInv
  BY CalmParts DEF DeliveryInv
<1>3. /\ c.id \in Id /\ c.recipient \in Recipient /\ c.kind \in Kind
      /\ table[c.id] = c.posting /\ row[c.id][c.recipient][c.kind] = "failed"
  BY <1>2, CandidateType, CalmParts DEF CandidatesInv
<1>4. CASE NextCandidate(rest)
  <2>1. CandidatesInv' /\ PassInv'
    BY <1>0, <1>1, <1>4, PassGoesOn
  <2>2. QED
    BY <1>1, <2>1, ResendOnly
<1>5. ASSUME NEW pc \in {"mark", "calling"},
             resend' = [pc |-> pc, todo |-> rest, cur |-> {c}]
      PROVE  CandidatesInv'
  <2>1. resend'.pc = pc /\ resend'.todo = rest /\ resend'.cur = {c}
    BY <1>5
  <2>2. \A d \in rest \cup {c} :
          table[d.id] = d.posting /\ row[d.id][d.recipient][d.kind] = "failed"
    BY <1>0, <1>1, <1>2 DEF CandidatesInv
  <2>3. QED
    BY <1>0, <1>1, <2>1, <2>2 DEF CandidatesInv
<1>6. CASE /\ BlockReason(c.id, c.recipient) = "duplicate"
           /\ resend' = [pc |-> "mark", todo |-> rest, cur |-> {c}]
  <2>1. <<c.id, c.recipient>> \in delivered
    BY <1>6 DEF BlockReason
  <2>2. PassInv'
    BY <1>1, <1>6, <2>1 DEF PassInv
  <2>3. QED
    BY <1>1, <1>5, <1>6, <2>2, ResendOnly
<1>7. CASE /\ BlockReason(c.id, c.recipient) = "none"
           /\ resend' = [pc |-> "calling", todo |-> rest, cur |-> {c}]
  <2>1. <<c.id, c.recipient>> \notin delivered
    BY <1>7 DEF BlockReason
  <2>2. Even(c.posting, c.recipient)
    BY <1>1, <1>2, <1>3, <2>1 DEF FailedInv
  <2>3. PassInv'
    BY <1>1, <1>7, <2>2 DEF PassInv, Even
  <2>4. QED
    BY <1>1, <1>5, <1>7, <2>3, ResendOnly
<1>8. QED
  BY <1>0, <1>4, <1>6, <1>7 DEF ResendCalls

\* Telegram accepts a resent alert: no handler is sending it, and its only other
\* rows are of the same match.
LEMMA ResendAcceptedDelivery ==
  ASSUME Calm, NEW c \in resend.todo \cup resend.cur, ResendAccepted(c)
  PROVE  DeliveryInv'
<1>1. PICK p \in Posting, r \in Recipient, i \in Id, k \in Kind :
        p = c.posting /\ r = c.recipient /\ i = c.id /\ k = c.kind
  BY CandidateType, CalmParts
<1>2. /\ resend.pc = "calling" /\ c \in resend.cur /\ resend \in ResendState
      /\ accepted' = [accepted EXCEPT ![p][r] = @ + 1]
      /\ UNCHANGED <<table, row, delivered, blind, owed, task>>
  BY <1>1, CalmParts DEF ResendAccepted, TypeOK, database, memory
<1>3. /\ resend'.pc = "accepted" /\ resend'.todo = resend.todo /\ resend'.cur = resend.cur
  BY <1>2 DEF ResendAccepted, ResendState
<1>4. /\ CandidatesInv /\ PassInv /\ RowsInv /\ FailedInv
  BY CalmParts DEF DeliveryInv
<1>5. /\ table[i] = p /\ row[i][r][k] = "failed" /\ Even(p, r) /\ resend.cur = {c}
  BY <1>1, <1>2, <1>4 DEF CandidatesInv, PassInv
<1>6. r \in owed[p] /\ p # NoPosting
  BY <1>4, <1>5, PipelineAssumption DEF RowsInv
<1>7. /\ OnlyOwedAreAlerted' /\ AtMostOnceUnlessBlind'
      /\ accepted'[p][r] > 0
      /\ \A q \in Posting, x \in Recipient :
           /\ accepted[q][x] > 0 => accepted'[q][x] > 0
           /\ q # p \/ x # r => accepted'[q][x] = accepted[q][x]
  BY <1>2, <1>5, <1>6, OneMore
<1>8. RowsInv' /\ DeliveredInv' /\ SentIsHonest'
  BY <1>2, <1>7, AcceptedElsewhere
<1>9. SendersInv'
  <2>1. ASSUME NEW u \in Task
        PROVE  (Clear(task[u]) /\ Heard(task[u]) /\ Counted(task[u]))'
    <3>1. Clear(task[u]) /\ Heard(task[u]) /\ Counted(task[u])
      BY CalmParts DEF DeliveryInv, SendersInv
    <3>2. task[u].pc \in NetworkPhase => task[u].posting \in Posting \ {p}
      BY <1>5, FailedNotSending, CalmParts DEF Sends
    <3>3. task[u].pc = "accepted" => task[u].cur \in Recipient
      BY CalmParts DEF AllOccupied, Occupied
    <3>4. Clear(task[u])'
      BY <1>2, <3>1 DEF Clear, KindOf
    <3>5. Heard(task[u])'
      BY <1>2, <1>7, <3>1, <3>2, <3>3 DEF Heard
    <3>6. Counted(task[u])'
      BY <1>2, <1>7, <3>1, <3>2 DEF Counted, Even
    <3>7. QED
      BY <3>4, <3>5, <3>6
  <2>2. QED
    BY <2>1 DEF SendersInv
<1>10. CandidatesInv'
  BY <1>2, <1>3, <1>4, <1>5 DEF CandidatesInv
<1>11. PassInv'
  BY <1>1, <1>3, <1>5, <1>7 DEF PassInv
<1>12. FailedInv'
  <2>1. SUFFICES ASSUME NEW j \in Id, NEW x \in Recipient, NEW q \in Kind,
                        row[j][x][q] = "failed", <<j, x>> \notin delivered,
                        ~(j = i /\ x = r)
                 PROVE  Even(table[j], x)'
    BY <1>1, <1>2, <1>3, <1>5 DEF FailedInv, Even
  <2>2. Even(table[j], x)
    BY <1>2, <1>4, <2>1 DEF FailedInv
  <2>3. table[j] \in Posting
    BY <1>4, <2>1, CalmParts DEF RowsInv, TypeOK
  <2>4. table[j] # p \/ x # r
    BY <1>5, <1>6, <2>1, OneRow
  <2>5. QED
    BY <1>2, <1>7, <2>2, <2>3, <2>4 DEF Even
<1>13. QED
  BY <1>7, <1>8, <1>9, <1>10, <1>11, <1>12 DEF DeliveryInv

\* The answer to a resent alert: the notifier remembers it.
LEMMA ResendAnsweredDelivery ==
  ASSUME Calm, NEW c \in resend.todo \cup resend.cur, ResendAnswered(c)
  PROVE  DeliveryInv'
<1>1. /\ resend.pc = "accepted" /\ c \in resend.cur /\ resend \in ResendState
      /\ delivered' = delivered \cup {<<c.id, c.recipient>>}
      /\ UNCHANGED <<table, row, accepted, blind, owed, task>>
  BY CalmParts DEF ResendAnswered, TypeOK, database
<1>2. /\ resend'.pc = "mark" /\ resend'.todo = resend.todo /\ resend'.cur = resend.cur
  BY <1>1 DEF ResendAnswered, ResendState
<1>3. CandidatesInv /\ PassInv /\ DeliveredInv /\ FailedInv /\ DeliveryInv
  BY CalmParts DEF DeliveryInv
<1>4. /\ c.id \in Id /\ c.recipient \in Recipient /\ c.posting \in Posting
      /\ table[c.id] = c.posting /\ resend.cur = {c}
      /\ accepted[c.posting][c.recipient] > 0
  BY <1>1, <1>3, CandidateType, CalmParts DEF CandidatesInv, PassInv
<1>5. RowsInv' /\ SendersInv' /\ OnlyOwedAreAlerted' /\ SentIsHonest' /\ AtMostOnceUnlessBlind'
  BY <1>1, <1>3 DEF DeliveryInv, RowsInv, SendersInv, Clear, Heard, Counted, Even, KindOf,
                    OnlyOwedAreAlerted, SentIsHonest, AtMostOnceUnlessBlind
<1>6. CandidatesInv'
  BY <1>1, <1>2, <1>3, <1>4 DEF CandidatesInv
<1>7. PassInv'
  BY <1>1, <1>2, <1>4 DEF PassInv
<1>8. DeliveredInv'
  <2>1. SUFFICES ASSUME NEW j \in Id, NEW x \in Recipient, <<j, x>> \in delivered'
                 PROVE  table[j] # NoPosting /\ accepted[table[j]][x] > 0
    BY <1>1 DEF DeliveredInv
  <2>2. <<j, x>> \in delivered \/ (j = c.id /\ x = c.recipient)
    BY <1>1, <2>1
  <2>3. QED
    BY <1>3, <1>4, <2>2, PipelineAssumption DEF DeliveredInv
<1>9. FailedInv'
  <2>1. SUFFICES ASSUME NEW j \in Id, NEW x \in Recipient, NEW q \in Kind,
                        row[j][x][q] = "failed", <<j, x>> \notin delivered'
                 PROVE  Even(table[j], x)
    BY <1>1, <1>2 DEF FailedInv, Even
  <2>2. <<j, x>> \notin delivered /\ ~(j = c.id /\ x = c.recipient)
    BY <1>1, <2>1
  <2>3. QED
    BY <1>3, <1>4, <2>1, <2>2 DEF FailedInv
<1>10. QED
  BY <1>5, <1>6, <1>7, <1>8, <1>9 DEF DeliveryInv

\* Its answer is lost: the alert may be resent.
LEMMA ResendTimeoutDelivery ==
  ASSUME Calm, NEW c \in resend.cur, ResendTimesOut(c)
  PROVE  DeliveryInv'
<1>1. PICK p \in Posting, r \in Recipient, i \in Id :
        p = c.posting /\ r = c.recipient /\ i = c.id
  BY CandidateType, CalmParts
<1>2. PICK todo : todo = resend.todo
  OBVIOUS
<1>3. /\ NextCandidate(todo)
      /\ blind' = [blind EXCEPT ![p][r] = @ + 1]
      /\ UNCHANGED <<table, row, accepted, delivered, owed, task>>
  BY <1>1, <1>2 DEF ResendTimesOut, database, memory
<1>4. CandidatesInv' /\ PassInv'
  BY <1>2, <1>3, PassGoesOn
<1>5. /\ Even(p, r)' /\ AtMostOnceUnlessBlind'
      /\ \A q \in Posting, x \in Recipient : Even(q, x) => Even(q, x)'
  BY <1>3, OneBlind
<1>6. table[i] = p /\ resend.cur = {c} /\ RowsInv /\ FailedInv /\ DeliveryInv
  BY <1>1, CalmParts DEF DeliveryInv, CandidatesInv
<1>7. RowsInv' /\ OnlyOwedAreAlerted' /\ SentIsHonest' /\ DeliveredInv'
  BY <1>3, <1>6 DEF DeliveryInv, RowsInv, KindOf, OnlyOwedAreAlerted, SentIsHonest,
                    DeliveredInv
<1>8. SendersInv'
  <2>1. ASSUME NEW u \in Task
        PROVE  (Clear(task[u]) /\ Heard(task[u]) /\ Counted(task[u]))'
    <3>1. Clear(task[u]) /\ Heard(task[u]) /\ Counted(task[u])
      BY <1>6 DEF DeliveryInv, SendersInv
    <3>2. task[u].pc \in NetworkPhase => task[u].posting \in Posting
      BY CalmParts DEF Sends
    <3>3. Clear(task[u])' /\ Heard(task[u])'
      BY <1>3, <3>1 DEF Clear, Heard, KindOf
    <3>4. Counted(task[u])'
      BY <1>3, <1>5, <3>1, <3>2 DEF Counted
    <3>5. QED
      BY <3>3, <3>4
  <2>2. QED
    BY <2>1 DEF SendersInv
<1>9. FailedInv'
  <2>1. SUFFICES ASSUME NEW j \in Id, NEW x \in Recipient, NEW q \in Kind,
                        row[j][x][q] = "failed", <<j, x>> \notin delivered
                 PROVE  Even(table[j], x)'
    BY <1>3 DEF FailedInv
  <2>2. table[j] \in Posting
    BY <1>6, <2>1, CalmParts DEF RowsInv, TypeOK
  <2>3. CASE j = i /\ x = r
    BY <1>3, <1>5, <1>6, <2>3 DEF Even
  <2>4. CASE ~(j = i /\ x = r)
    <3>1. Even(table[j], x)
      BY <1>1, <1>6, <2>1, <2>4 DEF FailedInv
    <3>2. Even(table[j], x) => Even(table[j], x)'
      BY <1>3, <1>5, <2>2 DEF Even
    <3>3. QED
      BY <3>1, <3>2
  <2>5. QED
    BY <2>3, <2>4
<1>10. QED
  BY <1>4, <1>5, <1>7, <1>8, <1>9 DEF DeliveryInv

\* The row of a delivered alert becomes sent: it was accepted, and no other candidate
\* is that row.
LEMMA MarkSentDelivery ==
  ASSUME Calm, NEW c \in resend.todo \cup resend.cur, MarkSent(c)
  PROVE  DeliveryInv'
<1>1. PICK p \in Posting, r \in Recipient, i \in Id, k \in Kind :
        p = c.posting /\ r = c.recipient /\ i = c.id /\ k = c.kind
  BY CandidateType, CalmParts
<1>2. PICK todo : todo = resend.todo
  OBVIOUS
<1>3. /\ CandidatesInv /\ PassInv /\ RowsInv /\ FailedInv /\ DeliveredInv /\ DeliveryInv
  BY CalmParts DEF DeliveryInv
<1>4. /\ resend.pc = "mark" /\ c \in resend.cur /\ NextCandidate(todo)
      /\ UNCHANGED <<table, accepted, delivered, blind, owed, task>>
  BY <1>2 DEF MarkSent, memory
<1>5. /\ table[i] = p /\ row[i][r][k] = "failed" /\ <<i, r>> \in delivered
      /\ c \notin resend.todo
  BY <1>1, <1>3, <1>4 DEF CandidatesInv, PassInv
<1>6. accepted[p][r] > 0 /\ p # NoPosting
  BY <1>3, <1>5, PipelineAssumption DEF DeliveredInv
<1>7. \A j \in Id, x \in Recipient, q \in Kind :
        row'[j][x][q] = IF j = i /\ x = r /\ q = k THEN "sent" ELSE row[j][x][q]
  <2>1. row' = WithRows(i, {r}, k, [x \in Recipient |-> "sent"])
    BY <1>1, <1>5 DEF MarkSent
  <2>2. QED
    BY <2>1, WithRowsAt, CalmParts
<1>8. RowsInv'
  BY <1>3, <1>4, <1>5, <1>6, <1>7 DEF RowsInv, KindOf
<1>9. SendersInv'
  <2>1. ASSUME NEW u \in Task
        PROVE  (Clear(task[u]) /\ Heard(task[u]) /\ Counted(task[u]))'
    <3>1. Clear(task[u]) /\ Heard(task[u]) /\ Counted(task[u])
      BY <1>3 DEF DeliveryInv, SendersInv
    <3>2. Sends(u) => /\ task[u].posting \in Posting \ {p} /\ task[u].id \in Id
                      /\ table[task[u].id] = task[u].posting
      BY <1>5, FailedNotSending, CalmParts
    <3>3. \A q \in Posting : KindOf(q) \in Kind
      BY KindType DEF Kind
    <3>4. Clear(task[u])'
      BY <1>4, <1>5, <1>7, <3>1, <3>2, <3>3 DEF Clear, Sends, KindOf
    <3>5. Heard(task[u])' /\ Counted(task[u])'
      BY <1>4, <3>1 DEF Heard, Counted, Even
    <3>6. QED
      BY <3>4, <3>5
  <2>2. QED
    BY <2>1 DEF SendersInv
<1>10. resend'.todo = todo /\ resend'.cur = {} /\ (resend'.pc = "idle" => todo = {})
  BY <1>4 DEF NextCandidate, IdleResend
<1>11. CandidatesInv'
  <2>1. ASSUME NEW d \in todo
        PROVE  table[d.id] = d.posting /\ row'[d.id][d.recipient][d.kind] = "failed"
    <3>1. /\ d.id \in Id /\ d.recipient \in Recipient /\ d.kind \in Kind
          /\ d \in Candidate /\ c \in Candidate
          /\ table[d.id] = d.posting /\ row[d.id][d.recipient][d.kind] = "failed"
      BY <1>2, <1>3, CandidateType, CalmParts DEF CandidatesInv
    <3>2. d # c
      BY <1>2, <1>5
    <3>3. ~(d.id = i /\ d.recipient = r /\ d.kind = k)
      BY <1>1, <1>5, <3>1, <3>2 DEF Candidate
    <3>4. QED
      BY <1>7, <3>1, <3>3
  <2>2. QED
    BY <1>4, <1>10, <2>1 DEF CandidatesInv
<1>12. PassInv' /\ DeliveredInv' /\ OnlyOwedAreAlerted' /\ AtMostOnceUnlessBlind'
  BY <1>3, <1>4, <1>10 DEF DeliveryInv, PassInv, DeliveredInv, OnlyOwedAreAlerted,
                           AtMostOnceUnlessBlind
<1>13. SentIsHonest'
  BY <1>3, <1>4, <1>5, <1>6, <1>7 DEF DeliveryInv, SentIsHonest
<1>14. FailedInv'
  BY <1>3, <1>4, <1>7 DEF FailedInv, Even
<1>15. QED
  BY <1>8, <1>9, <1>11, <1>12, <1>13, <1>14 DEF DeliveryInv

\* --- a restart ---

\* What the process forgets of the alerts it got through is counted as unheard of.
LEMMA CrashDelivery ==
  ASSUME Calm, Crash
  PROVE  DeliveryInv'
<1>1. /\ delivered' = {} /\ resend' = IdleResend
      /\ task' = [t \in Task |-> IdleTask]
      /\ UNCHANGED <<table, row, accepted, owed>>
      /\ \A p \in Posting, r \in Recipient :
           blind'[p][r] = IF Unmarked(p, r) THEN blind[p][r] + 1 ELSE blind[p][r]
  BY DEF Crash, database
<1>2. /\ RowsInv /\ FailedInv /\ CandidatesInv /\ DeliveryInv /\ AtMostOnceUnlessBlind
  BY CalmParts DEF DeliveryInv
<1>3. \A p \in Posting, r \in Recipient : accepted[p][r] \in Nat /\ blind[p][r] \in Nat
  BY CalmParts DEF TypeOK
<1>4. RowsInv' /\ OnlyOwedAreAlerted' /\ SentIsHonest'
  BY <1>1, <1>2 DEF DeliveryInv, RowsInv, KindOf, OnlyOwedAreAlerted, SentIsHonest
<1>5. SendersInv'
  BY <1>1 DEF SendersInv, Clear, Heard, Counted, IdleTask, NetworkPhase
<1>6. CandidatesInv' /\ PassInv' /\ DeliveredInv'
  BY <1>1 DEF CandidatesInv, PassInv, DeliveredInv, IdleResend
<1>7. AtMostOnceUnlessBlind'
  BY <1>1, <1>2, <1>3 DEF AtMostOnceUnlessBlind
<1>8. FailedInv'
  <2>1. SUFFICES ASSUME NEW i \in Id, NEW r \in Recipient, NEW k \in Kind,
                        row[i][r][k] = "failed"
                 PROVE  Even(table[i], r)'
    BY <1>1 DEF FailedInv
  <2>2. PICK p \in Posting : p = table[i]
    BY <1>2, <2>1, CalmParts DEF RowsInv, TypeOK
  <2>3. CASE Unmarked(p, r)
    BY <1>1, <1>2, <1>3, <2>2, <2>3 DEF AtMostOnceUnlessBlind, Even
  <2>4. CASE ~Unmarked(p, r)
    <3>1. <<i, r>> \notin delivered
      BY <2>1, <2>2, <2>4 DEF Unmarked
    <3>2. ~(resend.pc = "accepted" /\ \E c \in resend.cur : c.id = i /\ c.recipient = r)
      BY <1>2, <2>2, <2>4 DEF Unmarked, CandidatesInv
    <3>3. Even(p, r)
      BY <1>2, <2>1, <2>2, <3>1, <3>2 DEF FailedInv
    <3>4. QED
      BY <1>1, <1>3, <2>2, <2>4, <3>3 DEF Even
  <2>5. QED
    BY <2>3, <2>4
<1>9. QED
  BY <1>4, <1>5, <1>6, <1>7, <1>8 DEF DeliveryInv

\* --- every step ---

\* Without a deletion every step keeps the deliveries straight.
LEMMA NextDelivery ==
  ASSUME Calm, Untouched', [Next]_vars
  PROVE  DeliveryInv'
<1>1. ASSUME NEW t \in Task, Write(t)
      PROVE  DeliveryInv'
  <2>1. CASE DropSeenText(t) \/ DropKnown(t) \/ \E i \in Id : WriteRefused(t, i)
    <3>1. /\ task' = [task EXCEPT ![t] = IdleTask]
          /\ UNCHANGED <<table, row, delivered, accepted, blind, resend, owed>>
      BY <2>1 DEF DropSeenText, DropKnown, WriteRefused, database, memory
    <3>2. \A u \in Task : task'[u] = task[u] \/ task'[u].pc \notin NetworkPhase
      BY <3>1, CalmParts DEF TypeOK, IdleTask, NetworkPhase
    <3>3. QED
      BY <3>1, <3>2, EndDelivery
  <2>2. QED
    BY <1>1, <2>1, PersistDelivery DEF Write
<1>2. ASSUME NEW t \in Task, Network(t)
      PROVE  DeliveryInv'
  BY <1>2, BlockedDelivery, CallDelivery, AcceptDelivery, AnswerDelivery DEF Network
<1>3. ASSUME NEW t \in Task, OutcomesRefused(t) \/ OutcomesLocked(t) \/ WriteLocked(t)
      PROVE  DeliveryInv'
  <2>1. /\ UNCHANGED task \/ task' = [task EXCEPT ![t] = IdleTask]
        /\ UNCHANGED <<table, row, delivered, accepted, blind, resend, owed>>
    BY <1>3 DEF OutcomesRefused, OutcomesLocked, WriteLocked, database, memory
  <2>2. \A u \in Task : task'[u] = task[u] \/ task'[u].pc \notin NetworkPhase
    BY <2>1, CalmParts DEF TypeOK, IdleTask, NetworkPhase
  <2>3. QED
    BY <2>1, <2>2, EndDelivery
<1>4. CASE Resend
  BY <1>4, PassDelivery, ResendCallsDelivery, ResendAcceptedDelivery,
     ResendAnsweredDelivery, MarkSentDelivery DEF Resend
<1>5. CASE Disturb
  BY <1>3, <1>5, RefusedDelivery, TimeoutDelivery, PassDelivery, ResendTimeoutDelivery,
     CrashDelivery DEF Disturb
<1>6. ASSUME NEW t \in Task, NEW p \in Posting, Receive(t, p)
      PROVE  DeliveryInv'
  <2>1. PICK v : /\ v = [IdleTask EXCEPT !.pc = "write", !.posting = p, !.todo = loaded]
                 /\ task' = [task EXCEPT ![t] = v]
    BY <1>6 DEF Receive
  <2>2. UNCHANGED <<table, row, delivered, accepted, blind, resend, owed>>
    BY <1>6 DEF Receive, database, memory
  <2>3. v.pc \notin NetworkPhase
    BY <2>1 DEF IdleTask, NetworkPhase
  <2>4. \A u \in Task : task'[u] = task[u] \/ task'[u].pc \notin NetworkPhase
    BY <2>1, <2>3, CalmParts DEF TypeOK
  <2>5. QED
    BY <2>2, <2>4, EndDelivery
<1>7. ASSUME NEW m \in Message, DeleteMatches(m)
      PROVE  FALSE
  BY <1>7 DEF DeleteMatches, Untouched
<1>8. CASE Edit \/ RowAges \/ Reload \/ UNCHANGED vars
  <2>1. UNCHANGED <<table, row, delivered, accepted, blind, resend, owed, task>>
    BY <1>8 DEF Edit, RowAges, Reload, vars, database, memory
  <2>2. QED
    BY <2>1, EndDelivery
<1>9. QED
  BY <1>1, <1>2, <1>3, <1>4, <1>5, <1>6, <1>7, <1>8, ScanDelivery, RecordDelivery
     DEF Next, Outside, Record

\* At the start nothing was accepted, written or remembered.
LEMMA InitDelivery == Init => DeliveryInv
<1> SUFFICES ASSUME Init PROVE DeliveryInv
  OBVIOUS
<1>1. \A t \in Task : task[t].pc = "idle"
  BY DEF Init, IdleTask
<1>2. SendersInv
  BY <1>1 DEF SendersInv, Clear, Heard, Counted, NetworkPhase
<1>3. \A i \in Id, r \in Recipient, k \in Kind : row[i][r][k] = "none"
  BY DEF Init, NoRow
<1>4. RowsInv /\ FailedInv /\ SentIsHonest
  BY <1>3 DEF RowsInv, FailedInv, SentIsHonest
<1>5. CandidatesInv /\ PassInv /\ DeliveredInv
  BY DEF Init, CandidatesInv, PassInv, DeliveredInv, IdleResend
<1>6. OnlyOwedAreAlerted /\ AtMostOnceUnlessBlind
  BY DEF Init, OnlyOwedAreAlerted, AtMostOnceUnlessBlind
<1>7. QED
  BY <1>2, <1>4, <1>5, <1>6 DEF DeliveryInv

\* The invariant of the deliveries, whatever is deleted later.
DInv == AccountInv /\ (Untouched => DeliveryInv)

LEMMA Delivery == Spec => []DInv
<1>1. Init => DInv
  BY InitAccount, InitDelivery DEF DInv
<1>2. ASSUME DInv, [Next]_vars
      PROVE  DInv'
  <2>1. AccountInv'
    BY <1>2, NextAccount DEF DInv
  <2>2. Untouched' => Untouched
    BY <1>2, TableStays DEF DInv, AccountInv, Untouched
  <2>3. Untouched' => DeliveryInv'
    BY <1>2, <2>2, NextDelivery DEF DInv, Calm
  <2>4. QED
    BY <2>1, <2>3 DEF DInv
<1>3. DInv /\ [Next]_vars => DInv'
  BY <1>2
<1>4. QED
  BY <1>1, <1>3, PTL DEF Spec

\* Until the admin first deletes a match, Telegram accepts an alert for a person a
\* second time only after an acceptance the listener could not have known of: through
\* first sends, retries, resends, restarts and every order of them.
THEOREM NeverTwiceUnlessBlind == Spec => [](Untouched => AtMostOnceUnlessBlind)
<1>1. DInv => (Untouched => AtMostOnceUnlessBlind)
  BY DEF DInv, DeliveryInv
<1>2. QED
  BY <1>1, Delivery, PTL

\* Until then a row that says sent is of an alert that Telegram accepted.
THEOREM SentWasAccepted == Spec => [](Untouched => SentIsHonest)
<1>1. DInv => (Untouched => SentIsHonest)
  BY DEF DInv, DeliveryInv
<1>2. QED
  BY <1>1, Delivery, PTL

\* Until then nobody is alerted whom the verdict did not name or who did not want it.
THEOREM OnlyTheNamed == Spec => [](Untouched => OnlyOwedAreAlerted)
<1>1. DInv => (Untouched => OnlyOwedAreAlerted)
  BY DEF DInv, DeliveryInv
<1>2. QED
  BY <1>1, Delivery, PTL

-----------------------------------------------------------------------------
(* The refinement of AlertPromise.                                            *)

\* Telegram accepts one alert in a step, and in a step that reaches no verdict.
LEMMA AcceptSteps ==
  ASSUME Calm, [Next]_vars
  PROVE  \/ UNCHANGED accepted
         \/ \E p \in Posting, r \in Recipient :
              /\ p \in decided /\ r \in owed[p]
              /\ accepted' = [accepted EXCEPT ![p][r] = @ + 1]
              /\ UNCHANGED <<decided, owed>>
<1>1. ASSUME NEW t \in Task, BotAccepts(t)
      PROVE  \E p \in Posting, r \in Recipient :
               /\ p \in decided /\ r \in owed[p]
               /\ accepted' = [accepted EXCEPT ![p][r] = @ + 1]
               /\ UNCHANGED <<decided, owed>>
  <2>1. PICK p \in Posting, r \in Recipient : p = task[t].posting /\ r = task[t].cur
    BY <1>1, CalmParts DEF BotAccepts, AllOccupied, Occupied
  <2>2. Sends(t) /\ task[t].pc = "calling"
    BY <1>1 DEF BotAccepts, Sends, NetworkPhase
  <2>3. p \in decided /\ r \in owed[p]
    BY <2>1, <2>2, CalmParts
  <2>4. /\ accepted' = [accepted EXCEPT ![p][r] = @ + 1]
        /\ UNCHANGED <<decided, owed>>
    BY <1>1, <2>1 DEF BotAccepts
  <2>5. QED
    BY <2>3, <2>4
<1>2. ASSUME NEW c \in resend.todo \cup resend.cur, ResendAccepted(c)
      PROVE  \E p \in Posting, r \in Recipient :
               /\ p \in decided /\ r \in owed[p]
               /\ accepted' = [accepted EXCEPT ![p][r] = @ + 1]
               /\ UNCHANGED <<decided, owed>>
  <2>1. PICK p \in Posting, r \in Recipient, i \in Id, k \in Kind :
          p = c.posting /\ r = c.recipient /\ i = c.id /\ k = c.kind
    BY CandidateType, CalmParts
  <2>2. table[i] = p /\ row[i][r][k] = "failed"
    BY <2>1, CalmParts DEF DeliveryInv, CandidatesInv
  <2>3. r \in owed[p] /\ p \in decided
    BY <2>2, CalmParts DEF DeliveryInv, RowsInv, OwedInv
  <2>4. /\ accepted' = [accepted EXCEPT ![p][r] = @ + 1]
        /\ UNCHANGED <<decided, owed>>
    BY <1>2, <2>1 DEF ResendAccepted
  <2>5. QED
    BY <2>3, <2>4
<1>3. ASSUME NEW t \in Task, Write(t) \/ Record(t) \/ (Network(t) /\ ~BotAccepts(t))
      PROVE  UNCHANGED accepted
  BY <1>3 DEF Write, DropSeenText, DropKnown, PersistQuietly, PersistAlert, Persist,
              WriteRefused, Record, RecordOutcomes, OutcomesRefused, Network,
              NotifyBlocked, CallBot, BotAnswers
<1>4. CASE Resend
  BY <1>2, <1>4 DEF Resend, LoadCandidates, ResendCalls, ResendAnswered, MarkSent
<1>5. CASE Disturb
  BY <1>5 DEF Disturb, WriteLocked, BotRefuses, BotTimesOut, OutcomesLocked,
              ResendRefused, MarkLocked, ResendTimesOut, Crash
<1>6. CASE Outside \/ Reload \/ UNCHANGED vars
  BY <1>6 DEF Outside, Receive, ScanHistorical, DeleteMatches, Edit, RowAges, Reload, vars
<1>7. QED
  BY <1>1, <1>3, <1>4, <1>5, <1>6 DEF Next

\* Every step maps to a verdict, an alert or nothing.
LEMMA NextPromise ==
  ASSUME Calm, [Next]_vars
  PROVE  [Promise!Next]_(Promise!vars)
<1> DEFINE heard == [p \in Posting |-> {r \in Recipient : accepted[p][r] > 0}]
<1>1. CASE UNCHANGED accepted
  <2>1. heard' = heard
    BY <1>1
  <2>2. CASE UNCHANGED <<decided, owed>>
    BY <2>1, <2>2 DEF Promise!vars
  <2>3. ASSUME NEW p \in Posting \ decided, NEW R \in SUBSET Recipient,
               decided' = decided \cup {p}, owed' = [owed EXCEPT ![p] = R]
        PROVE  Promise!Next
    <3>1. Promise!Decide(p, R)
      BY <2>1, <2>3 DEF Promise!Decide
    <3>2. QED
      BY <3>1 DEF Promise!Next
  <2>4. ASSUME NEW t \in Task, task[t].posting \in Posting \ decided,
               decided' = decided \cup {task[t].posting},
               owed' = [owed EXCEPT ![task[t].posting] =
                          Eligible(task[t].todo, task[t].posting)]
        PROVE  Promise!Next
    <3>1. PICK p \in Posting \ decided : p = task[t].posting
      BY <2>4
    <3>2. PICK R \in SUBSET Recipient : R = Eligible(task[t].todo, task[t].posting)
      BY CalmParts DEF Eligible, TypeOK
    <3>3. QED
      BY <2>3, <2>4, <3>1, <3>2
  <2>5. QED
    BY <2>2, <2>3, <2>4, VerdictSteps, CalmParts DEF Calm, AccountInv
<1>2. ASSUME NEW p \in Posting, NEW r \in Recipient, p \in decided, r \in owed[p],
             accepted' = [accepted EXCEPT ![p][r] = @ + 1], UNCHANGED <<decided, owed>>
      PROVE  Promise!Next
  <2>1. heard' = [heard EXCEPT ![p] = @ \cup {r}]
    <3>1. accepted \in [Posting -> [Recipient -> Nat]]
      BY CalmParts DEF TypeOK
    <3>2. \A q \in Posting, x \in Recipient :
            accepted'[q][x] = IF q = p /\ x = r THEN accepted[q][x] + 1 ELSE accepted[q][x]
      BY <1>2, <3>1
    <3>3. \A q \in Posting, x \in Recipient : accepted[q][x] \in Nat
      BY <3>1
    <3>4. \A q \in Posting, x \in Recipient :
            accepted'[q][x] > 0 <=> accepted[q][x] > 0 \/ (q = p /\ x = r)
      BY <3>2, <3>3
    <3>5. \A q \in Posting : {x \in Recipient : accepted'[q][x] > 0} =
            IF q = p THEN {x \in Recipient : accepted[q][x] > 0} \cup {r}
                     ELSE {x \in Recipient : accepted[q][x] > 0}
      BY <3>4
    <3>6. QED
      BY <3>5
  <2>2. Promise!Alert(p, r)
    BY <1>2, <2>1 DEF Promise!Alert
  <2>3. QED
    BY <2>2 DEF Promise!Next
<1>3. QED
  BY <1>1, <1>2, AcceptSteps

\* As long as no match is deleted, the pipeline implements AlertPromise: each posting
\* gets one verdict, and every alert that Telegram accepts is owed by it.
THEOREM PromiseKept == Spec /\ []Untouched => KeepsPromise
<1>1. Init => Promise!Init
  BY DEF Init, Promise!Init
<1>2. DInv /\ Untouched /\ [Next]_vars => [Promise!Next]_(Promise!vars)
  BY NextPromise DEF DInv, Calm
<1>3. QED
  BY <1>1, <1>2, Delivery, PTL DEF Spec, KeepsPromise, Promise!Spec

-----------------------------------------------------------------------------
(* One alert per offer, with one handler and nothing going wrong.             *)

\* No call was refused or timed out, no write was locked, and the process lives.
Smooth == \A d \in {"refuse", "timeout", "lock", "crash"} : left[d] = Budget[d]
SameOffer(p, q) ==
  /\ p # q /\ OfferOf[p] = OfferOf[q] /\ OfferOf[p] # NoOffer
  /\ TargetHit[p] = TargetHit[q]

\* Nothing failed, so the resend pass never finds work.
NoFailure ==
  /\ \A i \in Id, r \in Recipient, k \in Kind : row[i][r][k] # "failed"
  /\ \A t \in Task : Sends(t) => \A r \in Recipient : task[t].out[r] # "failed"
  /\ resend.pc = "idle"
\* What was accepted is in a row, or with the handler that will write the row.
Holds(v, r) == v.out[r] = "sent" \/ (v.pc = "accepted" /\ v.cur = r)
Known ==
  \A p \in Posting, r \in Recipient : accepted[p][r] > 0 =>
    \/ \E i \in Id : table[i] = p /\ row[i][r][KindOf(p)] = "sent"
    \/ \E t \in Task : Sends(t) /\ task[t].posting = p /\ Holds(task[t], r)
\* A handler only sends what nobody heard of for the same offer and channel.
Ahead ==
  \A t \in Task : Sends(t) => \A q \in Posting, r \in Recipient :
    SameOffer(task[t].posting, q) => accepted[q][r] = 0
Single ==
  \A p, q \in Posting, r \in Recipient :
    SameOffer(p, q) => accepted[p][r] = 0 \/ accepted[q][r] = 0
OfferParts == NoFailure /\ Known /\ Ahead /\ Single
Within == \A d \in Disturbance : left[d] <= Budget[d]

\* The budgets only shrink.
LEMMA NextLeft ==
  ASSUME TypeOK, Within, [Next]_vars
  PROVE  Within' /\ (Smooth' => Smooth /\ ~Disturb)
<1>1. \A d \in Disturbance : left[d] \in Nat /\ Budget[d] \in Nat /\ left[d] <= Budget[d]
  BY PipelineAssumption DEF TypeOK, Within
<1>2. ASSUME NEW d \in Disturbance, Spend(d)
      PROVE  \A e \in Disturbance : left'[e] = IF e = d THEN left[e] - 1 ELSE left[e]
  BY <1>2 DEF Spend, TypeOK
<1>3. ASSUME NEW d \in Disturbance, Spend(d)
      PROVE  /\ \A e \in Disturbance : left'[e] <= left[e]
             /\ left'[d] # Budget[d]
  <2>1. \A e \in Disturbance : left'[e] = IF e = d THEN left[e] - 1 ELSE left[e]
    BY <1>2, <1>3
  <2>2. left[d] \in Nat /\ Budget[d] \in Nat /\ left[d] <= Budget[d]
    BY <1>1
  <2>3. QED
    BY <1>1, <2>1, <2>2
<1>4. CASE Disturb
  <2>1. \E d \in {"refuse", "timeout", "lock", "crash"} : Spend(d)
    BY <1>4 DEF Disturb, WriteLocked, BotRefuses, BotTimesOut, OutcomesLocked,
                ResendRefused, MarkLocked, ResendTimesOut, Crash
  <2>2. /\ \A e \in Disturbance : left'[e] <= left[e]
        /\ ~Smooth'
    BY <1>3, <2>1 DEF Smooth, Disturbance
  <2>3. \A e \in Disturbance : left'[e] \in Nat
    BY <1>1, <1>2, <1>3, <2>1 DEF Disturbance, Spend
  <2>4. QED
    BY <1>1, <2>2, <2>3 DEF Within
<1>5. ASSUME UNCHANGED left \/ Spend("repeat") \/ Spend("delete") \/ Spend("edit") \/ Spend("age")
      PROVE  Within' /\ (Smooth' => Smooth)
  BY <1>1, <1>2, <1>5 DEF Within, Smooth, Disturbance
<1>6. CASE ~Disturb
  <2>1. ASSUME NEW t \in Task, Write(t) \/ Network(t) \/ Record(t)
        PROVE  UNCHANGED left
    BY <2>1 DEF Write, DropSeenText, DropKnown, PersistQuietly, PersistAlert, Persist,
                WriteRefused, Network, NotifyBlocked, CallBot, BotAccepts, BotAnswers,
                Record, RecordOutcomes, OutcomesRefused
  <2>2. Resend => UNCHANGED left
    BY DEF Resend, LoadCandidates, ResendCalls, ResendAccepted, ResendAnswered, MarkSent
  <2>3. Outside \/ Reload \/ UNCHANGED vars =>
          UNCHANGED left \/ Spend("repeat") \/ Spend("delete") \/ Spend("edit") \/ Spend("age")
    BY DEF Outside, Receive, ScanHistorical, DeleteMatches, Edit, RowAges, Reload, vars
  <2>4. UNCHANGED left \/ Spend("repeat") \/ Spend("delete") \/ Spend("edit") \/ Spend("age")
    BY <1>6, <2>1, <2>2, <2>3 DEF Next
  <2>5. QED
    BY <1>5, <1>6, <2>4
<1>7. QED
  BY <1>4, <1>6

\* Steps that touch neither rows nor acceptances nor a handler in its network phase.
LEMMA StillOffer ==
  ASSUME OfferParts, UNCHANGED <<table, row, accepted, resend>>,
         \A u \in Task : \/ task'[u] = task[u]
                         \/ task'[u].pc \notin NetworkPhase /\ ~Sends(u)
  PROVE  OfferParts'
<1>1. \A u \in Task : task'[u] = task[u] \/ (~Sends(u)' /\ ~Sends(u))
  BY DEF Sends
<1>2. \A u \in Task : task'[u] = task[u] => (Sends(u)' <=> Sends(u))
  BY DEF Sends
<1>3. NoFailure'
  BY <1>1, <1>2 DEF OfferParts, NoFailure
<1>4. Known'
  BY <1>1, <1>2 DEF OfferParts, Known, Holds, KindOf
<1>5. Ahead' /\ Single'
  BY <1>1, <1>2 DEF OfferParts, Ahead, Single, SameOffer
<1>6. QED
  BY <1>3, <1>4, <1>5 DEF OfferParts

\* A match that is added, which a handler starts to alert only when no row says that
\* its offer was sent.
LEMMA AddOffer ==
  ASSUME Calm, OfferParts, \A t, u \in Task : t = u,
         NEW p \in Posting, NEW i \in Id, table[i] = NoPosting,
         table' = [table EXCEPT ![i] = p],
         NEW R \in SUBSET Recipient, NEW k, NEW s \in Status \ {"sent", "failed"},
         row' = WithRows(i, R, k, [r \in Recipient |-> s]),
         UNCHANGED <<accepted, resend>>,
         \A u \in Task :
           \/ task'[u] = task[u]
           \/ /\ ~Sends(u)
              /\ \/ task'[u].pc \notin NetworkPhase
                 \/ BeginsWith(task'[u], p, i) /\ ~AlreadyGrouped(p, KindOf(p))
  PROVE  OfferParts'
<1>1. /\ TypeOK /\ p # NoPosting /\ table \in [Id -> Posting \cup {NoPosting}]
      /\ NoFailure /\ Known /\ Ahead /\ Single
  BY CalmParts, PipelineAssumption DEF TypeOK, OfferParts
<1>2. \A j \in Id : table'[j] = IF j = i THEN p ELSE table[j]
  BY <1>1
<1>3. \A j \in Id, r \in Recipient, q \in Kind :
        row'[j][r][q] = IF j = i /\ r \in R /\ q = k THEN s ELSE row[j][r][q]
  BY <1>1, WithRowsAt
<1>4. \A u \in Task : task'[u] = task[u] => (Sends(u)' <=> Sends(u))
  BY DEF Sends
<1>5. \A q \in Posting : KindOf(q) \in Kind
  BY KindType DEF Kind
<1>6. NoFailure'
  <2>1. \A j \in Id, r \in Recipient, q \in Kind : row'[j][r][q] # "failed"
    BY <1>1, <1>3 DEF NoFailure
  <2>2. ASSUME NEW u \in Task, Sends(u)'
        PROVE  \A r \in Recipient : task'[u].out[r] # "failed"
    BY <1>1, <1>4, <2>2 DEF NoFailure, Sends, BeginsWith, NoOutcome
  <2>3. QED
    BY <1>1, <2>1, <2>2 DEF NoFailure
<1>7. Known'
  <2>1. SUFFICES ASSUME NEW q \in Posting, NEW r \in Recipient, accepted[q][r] > 0
                 PROVE  \/ \E j \in Id : table'[j] = q /\ row'[j][r][KindOf(q)] = "sent"
                        \/ \E t \in Task : /\ Sends(t)' /\ task'[t].posting = q
                                          /\ Holds(task'[t], r)
    BY DEF Known, KindOf, Holds
  <2>2. ASSUME NEW j \in Id, table[j] = q, row[j][r][KindOf(q)] = "sent"
        PROVE  table'[j] = q /\ row'[j][r][KindOf(q)] = "sent"
    <3>1. j # i
      BY <2>2, PipelineAssumption
    <3>2. QED
      BY <1>2, <1>3, <1>5, <2>2, <3>1
  <2>3. ASSUME NEW t \in Task, Sends(t)
        PROVE  task'[t] = task[t] /\ Sends(t)'
    BY <1>4, <2>3
  <2>4. QED
    BY <1>1, <2>1, <2>2, <2>3 DEF Known
<1>8. Ahead'
  <2>1. SUFFICES ASSUME NEW t \in Task, Sends(t)', NEW q \in Posting, NEW r \in Recipient,
                        SameOffer(task'[t].posting, q)
                 PROVE  accepted[q][r] = 0
    BY DEF Ahead, SameOffer
  <2>2. CASE task'[t] = task[t]
    BY <1>1, <1>4, <2>1, <2>2 DEF Ahead
  <2>3. CASE /\ ~Sends(t) /\ BeginsWith(task'[t], p, i)
             /\ ~AlreadyGrouped(p, KindOf(p))
    <3>1. SameOffer(p, q)
      BY <2>1, <2>3 DEF BeginsWith
    <3>2. \A u \in Task : ~Sends(u)
      BY <2>3
    <3>3. ASSUME NEW j \in Id, table[j] = q, row[j][r][KindOf(q)] = "sent"
          PROVE  AlreadyGrouped(p, KindOf(p))
      <4>1. KindOf(q) = KindOf(p) /\ OfferOf[q] = OfferOf[p] /\ OfferOf[p] # NoOffer
        BY <3>1 DEF SameOffer, KindOf
      <4>2. table[j] # NoPosting
        BY <3>3, PipelineAssumption
      <4>3. QED
        BY <3>3, <4>1, <4>2 DEF AlreadyGrouped, OfferHas
    <3>4. ~(accepted[q][r] > 0)
      BY <1>1, <2>3, <3>2, <3>3 DEF Known
    <3>5. accepted[q][r] \in Nat
      BY <1>1 DEF TypeOK
    <3>6. QED
      BY <3>4, <3>5
  <2>4. QED
    BY <2>1, <2>2, <2>3 DEF Sends
<1>9. Single'
  BY <1>1 DEF Single, SameOffer
<1>10. QED
  BY <1>6, <1>7, <1>8, <1>9 DEF OfferParts

\* A match that is persisted, or found in the history.
LEMMA PersistOffer ==
  ASSUME Calm, OfferParts, \A t, u \in Task : t = u,
         NEW t \in Task, NEW i \in Id, PersistQuietly(t, i) \/ PersistAlert(t, i)
  PROVE  OfferParts'
<1>1. PICK p \in Posting : p = task[t].posting
  BY CalmParts DEF PersistQuietly, PersistAlert, IsNew, AllOccupied, Occupied
<1>2. PICK R \in SUBSET Recipient : R = Eligible(task[t].todo, p)
  BY CalmParts DEF Eligible, TypeOK
<1>3. PICK k, s : k = Bookkeeping(p).kind /\ s = Bookkeeping(p).status
  OBVIOUS
<1>4. /\ IsNew(t) /\ IsNextId(i)
      /\ table' = [table EXCEPT ![i] = p]
      /\ row' = WithRows(i, R, k, [r \in Recipient |-> s])
      /\ UNCHANGED <<accepted, resend>>
  BY <1>1, <1>2, <1>3 DEF PersistQuietly, PersistAlert, Persist
<1>5. table[i] = NoPosting /\ s \in Status \ {"sent", "failed"} /\ ~Sends(t)
  BY <1>3, <1>4, NextIdFree, CalmParts, BookkeepingIsElsewhere
     DEF IsNew, Sends, NetworkPhase
<1>6. CASE PersistQuietly(t, i)
  <2>1. task'[t].pc \notin NetworkPhase
    BY <1>6, CalmParts DEF PersistQuietly, IdleTask, NetworkPhase, TypeOK
  <2>2. QED
    BY <1>4, <1>5, <2>1, AddOffer
<1>7. CASE PersistAlert(t, i)
  <2>1. task[t].out = NoOutcome /\ ~Quiet(p)
    BY <1>1, <1>7, CalmParts DEF PersistAlert, IsNew, AllBlank, Blank
  <2>2. task' = [task EXCEPT ![t] = [task[t] EXCEPT !.pc = "notify", !.id = i, !.todo = R]]
    BY <1>1, <1>2, <1>7 DEF PersistAlert
  <2>3. BeginsWith(task'[t], p, i)
    BY <1>1, <2>1, <2>2, CalmParts DEF BeginsWith, TypeOK, TaskState
  <2>4. ~AlreadyGrouped(p, KindOf(p))
    BY <2>1 DEF Quiet, Repeated
  <2>5. QED
    BY <1>4, <1>5, <2>3, <2>4, AddOffer
<1>8. QED
  BY <1>6, <1>7

LEMMA ScanOffer ==
  ASSUME Calm, OfferParts, \A t, u \in Task : t = u,
         NEW p \in Posting, NEW i \in Id, ScanHistorical(p, i)
  PROVE  OfferParts'
<1>1. PICK R \in SUBSET Recipient : R = Eligible(loaded, p)
  BY CalmParts DEF Eligible, TypeOK
<1>2. table[i] = NoPosting /\ "historical" \in Status \ {"sent", "failed"}
  BY CalmParts, NextIdFree DEF ScanHistorical, Status
<1>3. /\ table' = [table EXCEPT ![i] = p]
      /\ row' = WithRows(i, R, "immediate", [r \in Recipient |-> "historical"])
      /\ UNCHANGED <<accepted, resend, task>>
  BY <1>1 DEF ScanHistorical, memory
<1>4. QED
  BY <1>2, <1>3, AddOffer

\* A handler within its network phase that has no failure to tell and holds what it held.
LEMMA MoveOffer ==
  ASSUME Calm, OfferParts, UNCHANGED <<table, row, accepted, resend>>,
         NEW t \in Task, Sends(t), NEW v, task' = [task EXCEPT ![t] = v],
         v.pc \in NetworkPhase, v.posting = task[t].posting,
         \A r \in Recipient : v.out[r] # "failed",
         \A r \in Recipient : Holds(task[t], r) => Holds(v, r)
  PROVE  OfferParts'
<1>1. task'[t] = v /\ \A u \in Task \ {t} : task'[u] = task[u]
  BY TaskBecomes, CalmParts
<1>2. \A u \in Task : (Sends(u)' <=> Sends(u)) /\ task'[u].posting = task[u].posting
  BY <1>1 DEF Sends
<1>3. NoFailure'
  BY <1>1, <1>2 DEF OfferParts, NoFailure
<1>4. Known'
  <2>1. \A u \in Task, r \in Recipient : Holds(task[u], r) => Holds(task'[u], r)
    BY <1>1
  <2>2. Known
    BY DEF OfferParts
  <2>3. QED
    BY <1>2, <2>1, <2>2 DEF Known, KindOf, Holds
<1>5. Ahead' /\ Single'
  BY <1>2 DEF OfferParts, Ahead, Single, SameOffer
<1>6. QED
  BY <1>3, <1>4, <1>5 DEF OfferParts

\* A recipient passed over, a call that starts, an answer that arrives.
LEMMA NetworkOffer ==
  ASSUME Calm, OfferParts, NEW t \in Task, NEW r \in Recipient,
         \/ NotifyBlocked(t, r) \/ CallBot(t, r)
         \/ BotAnswers(t) /\ r = task[t].cur
  PROVE  OfferParts'
<1>1. /\ Sends(t) /\ task[t] \in TaskState /\ UNCHANGED <<table, row, accepted, resend>>
      /\ \A x \in Recipient : task[t].out[x] # "failed"
  BY CalmParts DEF NotifyBlocked, CallBot, BotAnswers, Turn, Sends, NetworkPhase, TypeOK,
                   OfferParts, NoFailure, database, memory
<1>2. CASE NotifyBlocked(t, r)
  <2>1. task[t].pc = "notify" /\ r \in task[t].todo /\ task[t].out[r] = "none"
    BY <1>1, <1>2, CalmParts DEF NotifyBlocked, Turn, Answered
  <2>2. PICK s \in {"not_allowlisted", "duplicate"} :
          task' = [task EXCEPT ![t] = Settled(t, r, s)]
    BY <1>2 DEF NotifyBlocked, BlockReason
  <2> DEFINE v == Settled(t, r, s)
  <2>3. /\ v.pc = "notify" /\ v.posting = task[t].posting
        /\ v.out = [task[t].out EXCEPT ![r] = s]
    <3>1. s \in Status /\ TypeOK
      BY CalmParts DEF Status
    <3>2. QED
      BY <3>1, SettledFields
  <2>4. task' = [task EXCEPT ![t] = v]
    BY <2>2
  <2> HIDE DEF v
  <2>5. \A x \in Recipient : v.out[x] = IF x = r THEN s ELSE task[t].out[x]
    BY <1>1, <2>3 DEF TaskState
  <2>6. \A x \in Recipient : v.out[x] # "failed" /\ (Holds(task[t], x) => Holds(v, x))
    BY <1>1, <2>1, <2>5 DEF Holds
  <2>7. QED
    BY <1>1, <2>3, <2>4, <2>6, MoveOffer DEF NetworkPhase
<1>3. CASE CallBot(t, r)
  <2> DEFINE v == [task[t] EXCEPT !.pc = "calling", !.cur = r]
  <2>1. v.pc = "calling" /\ v.posting = task[t].posting /\ v.out = task[t].out
    BY <1>1 DEF TaskState
  <2>2. task' = [task EXCEPT ![t] = v] /\ task[t].pc = "notify"
    BY <1>3, CalmParts DEF CallBot, Turn, TypeOK
  <2> HIDE DEF v
  <2>3. \A x \in Recipient : v.out[x] # "failed" /\ (Holds(task[t], x) => Holds(v, x))
    BY <1>1, <2>1, <2>2 DEF Holds
  <2>4. QED
    BY <1>1, <2>1, <2>2, <2>3, MoveOffer DEF NetworkPhase
<1>4. CASE BotAnswers(t) /\ r = task[t].cur
  <2> DEFINE v == Settled(t, r, "sent")
  <2>1. /\ v.pc = "notify" /\ v.posting = task[t].posting
        /\ v.out = [task[t].out EXCEPT ![r] = "sent"]
    <3>1. "sent" \in Status /\ TypeOK
      BY CalmParts DEF Status
    <3>2. QED
      BY <3>1, SettledFields
  <2>2. task' = [task EXCEPT ![t] = v]
    BY <1>4 DEF BotAnswers
  <2> HIDE DEF v
  <2>3. \A x \in Recipient : v.out[x] = IF x = r THEN "sent" ELSE task[t].out[x]
    BY <1>1, <2>1 DEF TaskState
  <2>4. \A x \in Recipient : v.out[x] # "failed" /\ (Holds(task[t], x) => Holds(v, x))
    BY <1>1, <1>4, <2>3 DEF Holds
  <2>5. QED
    BY <1>1, <2>1, <2>2, <2>4, MoveOffer DEF NetworkPhase
<1>5. QED
  BY <1>2, <1>3, <1>4

\* Telegram accepts an alert: of its offer nobody had one.
LEMMA AcceptOffer ==
  ASSUME Calm, OfferParts, \A t, u \in Task : t = u, NEW t \in Task, BotAccepts(t)
  PROVE  OfferParts'
<1> DEFINE v == [task[t] EXCEPT !.pc = "accepted"]
<1>1. PICK p \in Posting, r \in Recipient : p = task[t].posting /\ r = task[t].cur
  BY CalmParts DEF BotAccepts, AllOccupied, Occupied
<1>2. /\ Sends(t) /\ task[t].pc = "calling" /\ task[t] \in TaskState
      /\ NoFailure /\ Known /\ Ahead /\ Single
  BY CalmParts DEF BotAccepts, Sends, NetworkPhase, TypeOK, OfferParts
<1>3. /\ accepted' = [accepted EXCEPT ![p][r] = @ + 1]
      /\ UNCHANGED <<table, row, resend>>
  BY <1>1 DEF BotAccepts, database
<1>4. \A q \in Posting, x \in Recipient :
        q # p \/ x # r => accepted'[q][x] = accepted[q][x]
  BY <1>3, CalmParts DEF TypeOK
<1>5. /\ v.pc = "accepted" /\ v.posting = p /\ v.out = task[t].out /\ v.cur = r
  BY <1>1, <1>2 DEF TaskState
<1>6. task' = [task EXCEPT ![t] = v]
  BY CalmParts DEF BotAccepts, TypeOK
<1> HIDE DEF v
<1>7. task'[t] = v /\ (\A u \in Task : u = t) /\ Sends(t)'
  BY <1>5, <1>6, TaskBecomes, CalmParts DEF Sends, NetworkPhase
<1>8. NoFailure'
  BY <1>2, <1>3, <1>5, <1>7 DEF NoFailure
<1>9. Known'
  <2>1. SUFFICES ASSUME NEW q \in Posting, NEW x \in Recipient, accepted'[q][x] > 0
                 PROVE  \/ \E j \in Id : table[j] = q /\ row[j][x][KindOf(q)] = "sent"
                        \/ task'[t].posting = q /\ Holds(task'[t], x)
    BY <1>3, <1>7 DEF Known, KindOf, Holds
  <2>2. CASE q = p /\ x = r
    BY <1>5, <1>7, <2>2 DEF Holds
  <2>3. CASE q # p \/ x # r
    <3>1. accepted[q][x] > 0
      BY <1>4, <2>1, <2>3
    <3>2. task[t].posting = q /\ Holds(task[t], x) =>
            task'[t].posting = q /\ Holds(task'[t], x)
      BY <1>1, <1>2, <1>5, <1>7 DEF Holds
    <3>3. QED
      BY <1>2, <1>7, <3>1, <3>2 DEF Known
  <2>4. QED
    BY <2>2, <2>3
<1>10. \A q \in Posting, x \in Recipient :
         SameOffer(p, q) => accepted[q][x] = 0 /\ accepted'[q][x] = 0
  BY <1>1, <1>2, <1>4 DEF Ahead, SameOffer
<1>11. Ahead'
  BY <1>5, <1>7, <1>10 DEF Ahead, SameOffer
<1>12. Single'
  <2>1. SUFFICES ASSUME NEW a \in Posting, NEW b \in Posting, NEW x \in Recipient,
                        SameOffer(a, b)
                 PROVE  accepted'[a][x] = 0 \/ accepted'[b][x] = 0
    BY DEF Single, SameOffer
  <2>2. CASE a = p
    BY <1>10, <2>1, <2>2
  <2>3. CASE b = p
    <3>1. SameOffer(p, a)
      BY <2>1, <2>3 DEF SameOffer
    <3>2. QED
      BY <1>10, <3>1
  <2>4. CASE a # p /\ b # p
    BY <1>2, <1>4, <2>1, <2>4 DEF Single
  <2>5. QED
    BY <2>2, <2>3, <2>4
<1>13. QED
  BY <1>8, <1>9, <1>11, <1>12 DEF OfferParts

\* The outcomes of a handler become rows that say what was sent.
LEMMA RecordOffer ==
  ASSUME Calm, OfferParts, \A t, u \in Task : t = u, NEW t \in Task, RecordOutcomes(t)
  PROVE  OfferParts'
<1>1. PICK p \in Posting, i \in Id, k \in Kind, out \in [Recipient -> Status] :
        /\ p = task[t].posting /\ i = task[t].id /\ k = KindOf(p) /\ out = task[t].out
        /\ table[i] = p /\ p # NoPosting
        /\ \A r \in Recipient : row[i][r][k] = "none"
        /\ \A j \in Id, r \in Recipient, q \in Kind :
             row'[j][r][q] = IF j = i /\ q = k THEN out[r] ELSE row[j][r][q]
  BY RecordedRows
<1>2. /\ Sends(t) /\ task[t].pc = "notify" /\ NoFailure /\ Known /\ Ahead /\ Single
      /\ UNCHANGED <<table, accepted, resend>>
  BY DEF RecordOutcomes, NetworkDone, Sends, NetworkPhase, OfferParts, memory
<1>3. \A u \in Task : ~Sends(u)' /\ u = t
  BY CalmParts DEF RecordOutcomes, TypeOK, IdleTask, Sends, NetworkPhase
<1>4. NoFailure'
  BY <1>1, <1>2, <1>3 DEF NoFailure
<1>5. Known'
  <2>1. SUFFICES ASSUME NEW q \in Posting, NEW r \in Recipient, accepted[q][r] > 0
                 PROVE  \E j \in Id : table[j] = q /\ row'[j][r][KindOf(q)] = "sent"
    BY <1>2 DEF Known, KindOf
  <2>2. ASSUME NEW j \in Id, table[j] = q, row[j][r][KindOf(q)] = "sent"
        PROVE  row'[j][r][KindOf(q)] = "sent"
    <3>1. KindOf(q) \in Kind
      BY KindType DEF Kind
    <3>2. ~(j = i /\ KindOf(q) = k)
      BY <1>1, <2>2
    <3>3. QED
      BY <1>1, <2>2, <3>1, <3>2
  <2>3. ASSUME task[t].posting = q, Holds(task[t], r)
        PROVE  table[i] = q /\ row'[i][r][KindOf(q)] = "sent"
    <3>1. out[r] = "sent"
      BY <1>1, <1>2, <2>3 DEF Holds
    <3>2. QED
      BY <1>1, <2>3, <3>1
  <2>4. QED
    BY <1>2, <1>3, <2>1, <2>2, <2>3 DEF Known
<1>6. Ahead' /\ Single'
  BY <1>2, <1>3 DEF Ahead, Single, SameOffer
<1>7. QED
  BY <1>4, <1>5, <1>6 DEF OfferParts

\* Every step of a smooth run with one handler.
LEMMA NextOffer ==
  ASSUME Calm, OfferParts, \A t, u \in Task : t = u, Untouched', ~Disturb, [Next]_vars
  PROVE  OfferParts'
<1>1. ASSUME NEW t \in Task, Write(t)
      PROVE  OfferParts'
  <2>1. CASE DropSeenText(t) \/ DropKnown(t) \/ \E i \in Id : WriteRefused(t, i)
    <3>1. /\ task' = [task EXCEPT ![t] = IdleTask] /\ task[t].pc = "write"
          /\ UNCHANGED <<table, row, accepted, resend>>
      BY <2>1 DEF DropSeenText, DropKnown, WriteRefused, IsNew, database, memory
    <3>2. \A u \in Task : \/ task'[u] = task[u]
                          \/ task'[u].pc \notin NetworkPhase /\ ~Sends(u)
      BY <3>1, CalmParts DEF TypeOK, IdleTask, Sends, NetworkPhase
    <3>3. QED
      BY <3>1, <3>2, StillOffer
  <2>2. QED
    BY <1>1, <2>1, PersistOffer DEF Write
<1>2. ASSUME NEW t \in Task, Network(t)
      PROVE  OfferParts'
  <2>1. ASSUME BotAnswers(t)
        PROVE  \E r \in Recipient : BotAnswers(t) /\ r = task[t].cur
    BY <2>1, CalmParts DEF BotAnswers, AllOccupied, Occupied
  <2>2. QED
    BY <1>2, <2>1, NetworkOffer, AcceptOffer DEF Network
<1>3. ASSUME NEW t \in Task, OutcomesRefused(t)
      PROVE  FALSE
  <2>1. PICK p \in Posting, i \in Id : p = task[t].posting /\ i = task[t].id
    BY <1>3, CalmParts DEF OutcomesRefused, NetworkDone, AllOccupied, Occupied, NetworkPhase
  <2>2. \A r \in Recipient : row[i][r][KindOf(p)] = "none"
    BY <1>3, <2>1, CalmParts
       DEF OutcomesRefused, NetworkDone, NetworkPhase, DeliveryInv, SendersInv, Clear
  <2>3. QED
    BY <1>3, <2>1, <2>2 DEF OutcomesRefused, OutcomeCollides, Outcomes, Collides
<1>4. CASE Resend
  <2>1. resend.pc = "idle" /\ resend.todo = {} /\ resend.cur = {}
    BY CalmParts DEF OfferParts, NoFailure, DeliveryInv, CandidatesInv
  <2>2. Resendable # {}
    BY <1>4, <2>1 DEF Resend, LoadCandidates
  <2>3. \A c \in Candidate :
          c.id \in Id /\ c.recipient \in Recipient /\ c.kind \in Kind
    BY DEF Candidate
  <2>4. Resendable = {}
    BY <2>3 DEF Resendable, OfferParts, NoFailure
  <2>5. QED
    BY <2>2, <2>4
<1>5. ASSUME NEW t \in Task, NEW p \in Posting, Receive(t, p)
      PROVE  OfferParts'
  <2>1. PICK v : /\ v = [IdleTask EXCEPT !.pc = "write", !.posting = p, !.todo = loaded]
                 /\ task' = [task EXCEPT ![t] = v]
    BY <1>5 DEF Receive
  <2>2. UNCHANGED <<table, row, accepted, resend>> /\ task[t].pc = "idle"
    BY <1>5 DEF Receive, database, memory
  <2>3. v.pc \notin NetworkPhase
    BY <2>1 DEF IdleTask, NetworkPhase
  <2>4. \A u \in Task : \/ task'[u] = task[u]
                        \/ task'[u].pc \notin NetworkPhase /\ ~Sends(u)
    BY <2>1, <2>2, <2>3, CalmParts DEF TypeOK, Sends, NetworkPhase
  <2>5. QED
    BY <2>2, <2>4, StillOffer
<1>6. ASSUME NEW m \in Message, DeleteMatches(m)
      PROVE  FALSE
  BY <1>6 DEF DeleteMatches, Untouched
<1>7. CASE Edit \/ RowAges \/ Reload \/ UNCHANGED vars
  <2>1. UNCHANGED <<table, row, accepted, resend, task>>
    BY <1>7 DEF Edit, RowAges, Reload, vars, database, memory
  <2>2. QED
    BY <2>1, StillOffer
<1>8. QED
  BY <1>1, <1>2, <1>3, <1>4, <1>5, <1>6, <1>7, ScanOffer, RecordOffer
     DEF Next, Outside, Record

\* Until the first deletion, and as long as no call fails, no write is locked and the
\* process lives, one handler alerts nobody twice of one offer on one channel: what it
\* groups is what a committed row says was sent.
THEOREM OfferOnce ==
  ASSUME \A t, u \in Task : t = u
  PROVE  Spec => [](Untouched => OneAlertPerOffer)
<1> DEFINE OInv == DInv /\ Within /\ (Untouched /\ Smooth => OfferParts)
<1>1. Init => OInv
  <2> SUFFICES ASSUME Init PROVE OInv
    OBVIOUS
  <2>1. DInv
    BY InitAccount, InitDelivery DEF DInv
  <2>2. Within
    BY PipelineAssumption DEF Init, Within
  <2>3. \A t \in Task : ~Sends(t)
    BY DEF Init, IdleTask, Sends, NetworkPhase
  <2>4. NoFailure
    BY <2>3 DEF Init, NoFailure, NoRow, IdleResend
  <2>5. Known /\ Ahead /\ Single
    BY <2>3 DEF Init, Known, Ahead, Single
  <2>6. QED
    BY <2>1, <2>2, <2>4, <2>5 DEF OfferParts
<1>2. OInv /\ [Next]_vars /\ DInv' => OInv'
  <2> SUFFICES ASSUME OInv, [Next]_vars, DInv' PROVE OInv'
    OBVIOUS
  <2>1. Within' /\ (Smooth' => Smooth /\ ~Disturb)
    BY NextLeft DEF DInv, AccountInv, IInv
  <2>2. Untouched' => Untouched
    BY TableStays DEF DInv, AccountInv, Untouched
  <2>3. ASSUME Untouched', Smooth'
        PROVE  OfferParts'
    BY <2>1, <2>2, <2>3, NextOffer DEF DInv, Calm
  <2>4. QED
    BY <2>1, <2>3
<1>3. OInv => (Untouched => OneAlertPerOffer)
  BY DEF OfferParts, Single, SameOffer, Smooth, OneAlertPerOffer
<1> HIDE DEF OInv
<1>4. QED
  BY <1>1, <1>2, <1>3, Delivery, PTL DEF Spec
=============================================================================
