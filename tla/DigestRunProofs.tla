--------------------------- MODULE DigestRunProofs ---------------------------
(***************************************************************************)
(* Theorems about DigestRun, for every set of recipients, every size of the  *)
(* digest, every bound and every budget of disturbances.                     *)
(*                                                                         *)
(* A match is named by its birth and addressed by its row id, and the panel  *)
(* may delete a match, and the pipeline reuse its id, while a run holds the  *)
(* id in a plan.  The invariants therefore speak of both: of what a plan     *)
(* says its entries were, and of what stands behind their ids now.           *)
(***************************************************************************)
EXTENDS DigestRun, FiniteSetTheorems, TLAPS

\* A nonempty set of bounded numbers has a largest one, which is what Max returns.
LEMMA MaxIsLargest ==
  ASSUME NEW n \in Nat, NEW S, S \subseteq 0..n, S # {}
  PROVE  Max(S) \in S /\ \A j \in S : j <= Max(S)
<1> DEFINE Above(j) == {k \in S : k > j}
           F == {Above(j) : j \in S}
           R == StrictSubsetOrdering(S)
<1>1. IsFiniteSet(S)
  <2>1. IsFiniteSet(0..n)
    BY FS_Interval
  <2>2. QED
    BY <2>1, FS_Subset
<1>2. \A j \in S : Above(j) \in FiniteSubsetsOf(S)
  BY <1>1, FS_Subset DEF FiniteSubsetsOf
<1>3. F \subseteq FiniteSubsetsOf(S) /\ F # {}
  BY <1>2
<1>4. \E x \in F : \A y \in F : <<y, x>> \notin R
  <2>1. IsWellFoundedOn(R, FiniteSubsetsOf(S))
    BY FS_StrictSubsetOrderingWellFounded
  <2> HIDE DEF R, F
  <2>2. QED
    BY <1>3, <2>1, WFMin
<1>5. PICK m \in S : \A j \in S : <<Above(j), Above(m)>> \notin R
  BY <1>4
<1>6. \A j \in S : j <= m
  <2>1. SUFFICES ASSUME NEW j \in S, j > m PROVE FALSE
    OBVIOUS
  <2>2. Above(j) \subseteq Above(m) /\ Above(j) # Above(m)
    <3>1. j \in Above(m) /\ j \notin Above(j)
      BY <2>1
    <3>2. \A k \in S : k > j => k > m
      BY <2>1
    <3>3. Above(j) \subseteq Above(m)
      BY <3>2
    <3>4. QED
      BY <3>1, <3>3
  <2>3. QED
    BY <1>5, <2>2 DEF StrictSubsetOrdering
<1>7. QED
  <2>1. \E x \in S : \A y \in S : x >= y
    BY <1>6
  <2>2. QED
    BY <2>1 DEF Max

-----------------------------------------------------------------------------
\* A run, as TypeOK has it.
RunType ==
  [pc : {"idle", "plan", "next", "reserved", "calling", "accepted"}, day : Day,
   todo : SUBSET Recipient, cur : SUBSET Recipient,
   plan : [Recipient -> [top : SUBSET Entry, over : SUBSET Entry]]]

\* The rows, the calendar, the settings and the history, for steps that leave some alone.
TableType ==
  /\ table \in [Id -> 0..MaxBirths] /\ births \in 0..MaxBirths
  /\ row \in [Recipient -> [Id -> Status]] /\ swapped \subseteq Birth
SettingsType ==
  /\ enabled \in BOOLEAN /\ active \subseteq Recipient /\ common \subseteq Recipient
  /\ allowed \subseteq Recipient /\ left \in [Disturbance -> Nat]
DaysType == ran \subseteq Day /\ today \in Day /\ digests \in [Recipient -> [Day -> Nat]]
HistoryType ==
  got \in [Recipient -> [Birth -> Nat]] /\ tried \in [Recipient -> SUBSET Birth]

\* Type correctness, part by part.
LEMMA Parts ==
  TypeOK <=> TableType /\ SettingsType /\ DaysType /\ HistoryType /\ run \in RunType
BY DEF TypeOK, TableType, SettingsType, DaysType, HistoryType, RunType

\* The same of the next state.
LEMMA PartsPrimed ==
  ASSUME TableType', SettingsType', DaysType', HistoryType', (run \in RunType)'
  PROVE  TypeOK'
BY DEF TypeOK, TableType, SettingsType, DaysType, HistoryType, RunType

\* Spending leaves the budget a budget.
LEMMA SpendType ==
  ASSUME TypeOK, NEW d \in Disturbance, Spend(d)
  PROVE  left' \in [Disturbance -> Nat]
BY DEF Spend, TypeOK

\* No run, and the start of a run.
LEMMA IdleRunType ==
  ASSUME NEW pc \in {"idle", "plan"}, NEW d \in Day
  PROVE  [IdleRun EXCEPT !.pc = pc, !.day = d] \in RunType
BY DEF IdleRun, NoPlan, RunType

\* Rows whose status is among the statuses stay rows when some are marked.
LEMMA MarkedType ==
  ASSUME TypeOK, NEW r \in Recipient, NEW E, NEW from, NEW to \in Status
  PROVE  Marked(r, E, from, to) \in [Id -> Status]
BY DEF Marked, TypeOK

\* Whatever stands behind the ids of a plan is a match.
LEMMA StandingType == ASSUME TypeOK, NEW r \in Recipient PROVE Standing(r) \subseteq Birth
BY DigestAssumption DEF TypeOK, Standing, Planned, Birth, Entry

\* The types hold at the start.
LEMMA InitType == Init => TypeOK
<1> SUFFICES ASSUME Init PROVE TypeOK
  OBVIOUS
<1>1. 0 \in Day
  BY DigestAssumption DEF Day
<1>2. run \in RunType
  BY <1>1 DEF Init, IdleRun, NoPlan, RunType
<1>5. Budget \in [Disturbance -> Nat]
  BY DigestAssumption DEF Budget, Disturbance
<1>3. TableType /\ SettingsType /\ DaysType /\ HistoryType
  BY <1>1, <1>5, DigestAssumption
     DEF Init, TableType, SettingsType, DaysType, HistoryType, Status, Birth
<1>4. QED
  BY <1>2, <1>3, Parts

\* The panel, the listener's reload and a new day: types.
LEMMA OutsideType ==
  ASSUME TypeOK, Edit \/ Reload \/ NewDay
  PROVE  TypeOK'
<1>1. TableType' /\ HistoryType' /\ run' \in RunType
  BY Parts DEF Edit, Reload, NewDay, TableType, HistoryType, database, history
<1>2. SettingsType'
  <2>1. left' \in [Disturbance -> Nat]
    BY SpendType DEF Edit, Reload, NewDay, Disturbance, TypeOK
  <2>2. \A S \in SUBSET Recipient, r \in Recipient : Toggled(S, r) \subseteq Recipient
    BY DEF Toggled
  <2>3. QED
    BY <2>1, <2>2 DEF Edit, Reload, NewDay, SettingsType, TypeOK, database
<1>3. DaysType'
  <2>1. (today + 1) % Days \in Day
    BY DigestAssumption DEF TypeOK, Day
  <2>2. CASE Edit \/ Reload
    BY <2>2, Parts DEF Edit, Reload, DaysType, database, history
  <2>3. CASE NewDay
    <3>1. ran' \subseteq Day /\ today' \in Day
      BY <2>1, <2>3 DEF NewDay, TypeOK
    <3>2. digests' \in [Recipient -> [Day -> Nat]]
      BY <2>3 DEF NewDay, TypeOK
    <3>3. QED
      BY <3>1, <3>2 DEF DaysType
  <2>4. QED
    BY <2>2, <2>3
<1>4. QED
  BY <1>1, <1>2, <1>3, PartsPrimed DEF RunType

\* A match is written or deleted: types.
LEMMA MatchType ==
  ASSUME TypeOK, Hold \/ \E i \in Id : Delete(i)
  PROVE  TypeOK'
<1>1. DaysType' /\ HistoryType' /\ run' \in RunType
  BY Parts DEF Hold, Delete, DaysType, HistoryType, history
<1>2. SettingsType'
  BY SpendType DEF Hold, Delete, SettingsType, TypeOK, Disturbance
<1>3. TableType'
  <2>1. CASE Hold
    <3>1. births + 1 \in 0..MaxBirths /\ births + 1 \in Birth
      BY <2>1, DigestAssumption DEF Hold, TypeOK, Birth
    <3>2. PICK i \in Id, R \in SUBSET Recipient :
            /\ table' = [table EXCEPT ![i] = births + 1] /\ births' = births + 1
            /\ row' = [q \in Recipient |->
                        [row[q] EXCEPT ![i] = IF q \in R THEN "pending" ELSE "none"]]
            /\ swapped' \in {swapped, swapped \cup {births + 1}}
      BY <2>1 DEF Hold, TypeOK
    <3>3. row' \in [Recipient -> [Id -> Status]]
      BY <3>2 DEF TypeOK, Status
    <3>4. table' \in [Id -> 0..MaxBirths]
      BY <3>1, <3>2 DEF TypeOK
    <3>5. QED
      BY <3>1, <3>2, <3>3, <3>4 DEF TypeOK, TableType
  <2>2. CASE \E i \in Id : Delete(i)
    <3>1. row' \in [Recipient -> [Id -> Status]]
      BY <2>2 DEF Delete, TypeOK, Status
    <3>2. table' \in [Id -> 0..MaxBirths]
      BY <2>2, DigestAssumption DEF Delete, TypeOK
    <3>3. QED
      BY <2>2, <3>1, <3>2 DEF Delete, TypeOK, TableType, history
  <2>3. QED
    BY <2>1, <2>2
<1>4. QED
  BY <1>1, <1>2, <1>3, PartsPrimed DEF RunType

\* A run starts, is planned, or ends: types.
LEMMA RunTypes ==
  ASSUME TypeOK, Tick \/ Plan \/ Finish \/ CommitFails \/ Crash
  PROVE  TypeOK'
<1>1. 0 \in Day /\ today \in Day
  BY DigestAssumption DEF Day, TypeOK
<1>2. IdleRun \in RunType
  BY <1>1 DEF IdleRun, NoPlan, RunType
<1>3. run' \in RunType
  <2>1. CASE Tick
    BY <1>1, <2>1, IdleRunType DEF Tick
  <2>2. CASE Plan
    <3>1. \A r \in Recipient : Queue(r) \subseteq Entry /\ Top(r) \subseteq Entry
      BY DEF Queue, Top
    <3>2. QED
      BY <2>2, <3>1 DEF Plan, TypeOK, RunType, Reachable, NoPlan
  <2>3. QED
    BY <1>2, <2>1, <2>2 DEF Finish, CommitFails, Crash, CutOff
<1>4. TableType' /\ DaysType'
  BY DEF Tick, Plan, Finish, CommitFails, Crash, TypeOK, TableType, DaysType, database, history
<1>5. SettingsType'
  BY SpendType DEF Tick, Plan, Finish, CommitFails, Crash, TypeOK, SettingsType, Disturbance,
                   database
<1>6. HistoryType'
  <2>1. CASE CutOff /\ UNCHANGED got
    <3>1. \A q \in Recipient : tried[q] \cup Standing(q) \subseteq Birth
      BY StandingType DEF TypeOK
    <3>2. tried' \in [Recipient -> SUBSET Birth]
      BY <2>1, <3>1 DEF CutOff, TypeOK
    <3>3. QED
      BY <2>1, <3>2 DEF TypeOK, HistoryType
  <2>2. CASE UNCHANGED history
    BY <2>2 DEF TypeOK, HistoryType, history
  <2>3. QED
    BY <2>1, <2>2 DEF Tick, Plan, Finish, CommitFails, Crash
<1>7. QED
  BY <1>3, <1>4, <1>5, <1>6, PartsPrimed DEF RunType

\* A step of the run about one recipient: types.
LEMMA RecipientType ==
  ASSUME TypeOK, NEW r \in Recipient,
         \/ Reserve(r) \/ CallBot(r) \/ TakeBack(r) \/ BotAccepts(r) \/ BotAnswers(r)
         \/ BotFails(r)
  PROVE  TypeOK'
<1>1. run' \in RunType
  <2>1. CASE Leave(r)
    BY <2>1 DEF Leave, TypeOK, RunType, NoPlan
  <2>2. CASE Reserve(r)
    BY <2>2 DEF Reserve, TypeOK, RunType
  <2>3. CASE CallBot(r) \/ BotAccepts(r)
    BY <2>3 DEF CallBot, BotAccepts, TypeOK, RunType
  <2>4. QED
    BY <2>1, <2>2, <2>3 DEF TakeBack, BotAnswers, BotFails
<1>2. TableType'
  <2>1. \A E, from : \A to \in Status : Marked(r, E, from, to) \in [Id -> Status]
    BY MarkedType
  <2>2. row' \in [Recipient -> [Id -> Status]]
    <3>1. CASE Reserve(r)
      <4>1. row' = [row EXCEPT ![r] =
              [i \in Id |->
                 IF \E e \in run.plan[r].over : e.id = i
                 THEN Marked(r, run.plan[r].over, "pending", "digest_skipped")[i]
                 ELSE Marked(r, run.plan[r].top, "pending", "digest_attempted")[i]]]
        BY <3>1 DEF Reserve
      <4>2. /\ Marked(r, run.plan[r].over, "pending", "digest_skipped") \in [Id -> Status]
            /\ Marked(r, run.plan[r].top, "pending", "digest_attempted") \in [Id -> Status]
        BY <2>1 DEF Status
      <4>3. QED
        BY <4>1, <4>2 DEF TypeOK
    <3>2. CASE TakeBack(r)
      <4>1. /\ Marked(r, run.plan[r].over, "digest_skipped", "pending") \in [Id -> Status]
            /\ Marked(r, run.plan[r].top, "digest_attempted", "pending") \in [Id -> Status]
        BY <2>1 DEF Status
      <4>2. Reverted(r) \in [Id -> Status]
        BY <4>1 DEF Reverted
      <4>3. QED
        BY <3>2, <4>2 DEF TakeBack, TypeOK
    <3>3. CASE BotAnswers(r)
      <4>1. Marked(r, run.plan[r].top, "digest_attempted", "sent") \in [Id -> Status]
        BY <2>1 DEF Status
      <4>2. QED
        BY <3>3, <4>1 DEF BotAnswers, TypeOK
    <3>4. CASE CallBot(r) \/ BotAccepts(r) \/ BotFails(r)
      BY <3>4 DEF CallBot, BotAccepts, BotFails, AfterFailure, TypeOK, database
    <3>5. QED
      BY <3>1, <3>2, <3>3, <3>4
  <2>3. UNCHANGED <<table, births, swapped>>
    BY DEF Reserve, CallBot, TakeBack, BotAccepts, BotAnswers, BotFails, database, history
  <2>4. QED
    BY <2>2, <2>3 DEF TypeOK, TableType
<1>3. SettingsType'
  BY SpendType DEF Reserve, CallBot, TakeBack, BotAccepts, BotAnswers, BotFails, TypeOK,
                   SettingsType, Disturbance, database
<1>4. DaysType'
  <2>1. CASE BotAccepts(r)
    BY <2>1 DEF BotAccepts, TypeOK, DaysType, database
  <2>2. CASE ~BotAccepts(r)
    BY <2>2 DEF Reserve, CallBot, TakeBack, BotAnswers, BotFails, TypeOK, DaysType, database,
                history
  <2>3. QED
    BY <2>1, <2>2
<1>5. HistoryType'
  <2>1. CASE BotAccepts(r)
    <3>1. got' \in [Recipient -> [Birth -> Nat]]
      BY <2>1 DEF BotAccepts, TypeOK
    <3>2. QED
      BY <2>1, <3>1 DEF BotAccepts, TypeOK, HistoryType
  <2>2. CASE CallBot(r)
    BY <2>2, StandingType DEF CallBot, TypeOK, HistoryType
  <2>3. CASE ~BotAccepts(r) /\ ~CallBot(r)
    BY <2>3 DEF Reserve, TakeBack, BotAnswers, BotFails, TypeOK, HistoryType, history
  <2>4. QED
    BY <2>1, <2>2, <2>3
<1>6. QED
  BY <1>1, <1>2, <1>3, <1>4, <1>5, PartsPrimed DEF RunType

\* Every step keeps the types.
LEMMA NextType == TypeOK /\ [Next]_vars => TypeOK'
<1> SUFFICES ASSUME TypeOK, [Next]_vars PROVE TypeOK'
  OBVIOUS
<1>1. CASE UNCHANGED vars
  BY <1>1 DEF vars, TypeOK
<1>2. QED
  BY <1>1, OutsideType, MatchType, RunTypes, RecipientType DEF Next, Step

\* Type correctness: a plan holds row ids and births, and each row one of the statuses of
\* delivery.py's digest protocol.
THEOREM TypeCorrect == Spec => []TypeOK
BY InitType, NextType, PTL DEF Spec

-----------------------------------------------------------------------------
(* What a plan is, and what stands behind it *)

Entries(r) == run.plan[r].top \cup run.plan[r].over

\* The births of the match table are its own, and a free id has no delivery.
StoreInv ==
  /\ \A i, j \in Id : table[i] # 0 /\ table[i] = table[j] => i = j
  /\ \A i \in Id : table[i] <= births
  /\ \A i \in Id, r \in Recipient : table[i] = 0 => row[r][i] = "none"

\* One recipient at a time, and no plan but of those the run still has to do.
Busy == {"reserved", "calling", "accepted"}
OrderInv ==
  /\ run.pc \notin Busy => run.cur = {}
  /\ run.pc \in Busy => \E r \in Recipient : run.cur = {r}
  /\ run.todo \cap run.cur = {}
  /\ run.pc \in {"idle", "plan"} => run.todo = {}
  /\ \A r \in Recipient \ (run.todo \cup run.cur) : run.plan[r] = NoPlan

\* An entry stands for the match it was made of, for none, or for one that was swapped in.
PlanInv ==
  \A r \in Recipient : \A e \in Entries(r) :
    /\ e.birth <= births
    /\ \A j \in Id : table[j] = e.birth => j = e.id
    /\ table[e.id] \in {0, e.birth} \cup swapped
    /\ \A f \in Entries(r) : f.id = e.id => f = e
    /\ e \notin run.plan[r].top \cap run.plan[r].over

\* The rows of a plan are untouched until they are reserved, and the listener alone
\* touches them then.
WaitingInv == \A r \in run.todo : \A e \in Entries(r) : row[r][e.id] \in {"pending", "none"}
ReservedInv ==
  \A r \in run.cur :
    /\ \A e \in run.plan[r].top :
         table[e.id] = e.birth => row[r][e.id] \in {"digest_attempted", "none"}
    /\ run.pc = "reserved" =>
         /\ \A e \in run.plan[r].top : row[r][e.id] \in {"digest_attempted", "none"}
         /\ \A e \in run.plan[r].over : row[r][e.id] \in {"digest_skipped", "none"}

\* Who has not been called yet.
Yet(r) == r \in run.todo \/ (r \in run.cur /\ run.pc \in {"reserved", "calling"})

\* What was accepted of a match is one digest, and none while the match is queued or
\* a plan with it has not been called yet.
GotInv ==
  /\ ItemAtMostOnce
  /\ \A r \in Recipient, b \in Birth : b > births => got[r][b] = 0
  /\ \A r \in Recipient, i \in Id :
       table[i] # 0 /\ row[r][i] \in {"pending", "digest_skipped"} => got[r][table[i]] = 0
  /\ \A r \in Recipient : Yet(r) => \A e \in Entries(r) :
       got[r][e.birth] = 0 /\ (table[e.id] # 0 => got[r][table[e.id]] = 0)
  /\ \A r \in run.cur : run.pc = "accepted" => \A e \in run.plan[r].top : got[r][e.birth] > 0

\* The row of the day is there before anything of the day is sent.
DayInv ==
  /\ OneDigestADay
  /\ \A r \in Recipient, d \in Day : d \notin ran => digests[r][d] = 0
  /\ run.pc # "idle" => run.day \in ran
  /\ \A r \in Recipient : Yet(r) \/ run.pc = "plan" => digests[r][run.day] = 0

\* What is attempted or skipped was called for, or is reserved for the call that comes next.
BlockedInv ==
  \A r \in Recipient, i \in Id :
    row[r][i] \in {"digest_attempted", "digest_skipped"} =>
      \/ table[i] \in tried[r]
      \/ run.pc = "reserved" /\ r \in run.cur /\ i \in Planned(r)

RunInv == OrderInv /\ PlanInv /\ WaitingInv /\ ReservedInv
DigestInv == TypeOK /\ StoreInv /\ RunInv /\ GotInv /\ DayInv /\ SentIsHonest /\ BlockedInv

\* An entry of a plan is a row id and a birth.
LEMMA EntryParts ==
  ASSUME TypeOK, NEW r \in Recipient, NEW e \in Entries(r)
  PROVE  e.id \in Id /\ e.birth \in Nat \ {0}
<1>1. run.plan[r].top \subseteq Entry /\ run.plan[r].over \subseteq Entry
  BY DEF TypeOK
<1>2. e \in Entry
  BY <1>1 DEF Entries
<1>3. QED
  BY <1>2, DigestAssumption DEF Entry, Birth

\* The same of the next state.
LEMMA DigestInvPrimed ==
  ASSUME TypeOK', StoreInv', OrderInv', PlanInv', WaitingInv', ReservedInv', GotInv', DayInv',
         SentIsHonest', BlockedInv'
  PROVE  DigestInv'
BY DEF DigestInv, RunInv

\* Nothing is held or planned at the start.
LEMMA InitDigest == Init => DigestInv
<1> SUFFICES ASSUME Init PROVE DigestInv
  OBVIOUS
<1>1. TypeOK
  BY InitType
<1>2. \A r \in Recipient : run.plan[r] = NoPlan /\ Entries(r) = {}
  BY DEF Init, IdleRun, NoPlan, Entries
<1>3. run.pc = "idle" /\ run.todo = {} /\ run.cur = {}
  BY DEF Init, IdleRun
<1>4. RunInv
  BY <1>2, <1>3 DEF RunInv, OrderInv, PlanInv, WaitingInv, ReservedInv, Busy
<1>5. StoreInv /\ SentIsHonest /\ BlockedInv
  BY DEF Init, StoreInv, SentIsHonest, BlockedInv
<1>6. GotInv /\ DayInv
  BY <1>2, <1>3 DEF Init, GotInv, DayInv, ItemAtMostOnce, OneDigestADay, Yet
<1>7. QED
  BY <1>1, <1>4, <1>5, <1>6 DEF DigestInv

\* The settings are about nothing here.
LEMMA SettingsDigest ==
  ASSUME DigestInv, TypeOK',
         UNCHANGED <<table, births, row, ran, run, got, digests, tried, swapped>>
  PROVE  DigestInv'
BY DEF DigestInv, RunInv, StoreInv, OrderInv, PlanInv, WaitingInv, ReservedInv, GotInv, DayInv,
       SentIsHonest, BlockedInv, ItemAtMostOnce, OneDigestADay, Entries, Planned, Yet, Busy

\* A run begins or is over: there is no plan.
LEMMA NoPlanDigest ==
  ASSUME DigestInv, TypeOK', UNCHANGED <<table, births, row, digests, got, swapped>>,
         run'.pc \in {"idle", "plan"}, run'.todo = {}, run'.cur = {},
         \A r \in Recipient : run'.plan[r] = NoPlan, BlockedInv', DayInv'
  PROVE  DigestInv'
<1>1. \A r \in Recipient : Entries(r)' = {}
  BY DEF Entries, NoPlan
<1>2. OrderInv' /\ PlanInv' /\ WaitingInv' /\ ReservedInv'
  BY <1>1 DEF OrderInv, PlanInv, WaitingInv, ReservedInv, Busy
<1>3. StoreInv' /\ SentIsHonest'
  BY DEF DigestInv, StoreInv, SentIsHonest
<1>4. GotInv'
  BY <1>1 DEF DigestInv, GotInv, ItemAtMostOnce
<1>5. QED
  BY <1>2, <1>3, <1>4, DigestInvPrimed

\* The scheduler starts the digest of a day that has none.
LEMMA TickDigest == ASSUME DigestInv, TypeOK', Tick PROVE DigestInv'
<1>1. /\ UNCHANGED <<table, births, row, digests, got, swapped, tried>>
      /\ run.pc = "idle" /\ today \notin ran /\ ran' = ran \cup {today}
  BY DEF Tick, Due, history
<1>2. run' = [pc |-> "plan", day |-> today, todo |-> {}, cur |-> {},
              plan |-> [r \in Recipient |-> NoPlan]]
  BY DEF Tick, IdleRun
<1>3. BlockedInv'
  BY <1>1 DEF DigestInv, BlockedInv
<1>4. DayInv'
  BY <1>1, <1>2 DEF DigestInv, TypeOK, DayInv, OneDigestADay, Yet
<1>5. QED
  BY <1>1, <1>2, <1>3, <1>4, NoPlanDigest

\* The run ends, or is cut off where it is.
LEMMA EndDigest == ASSUME DigestInv, TypeOK', Finish \/ CommitFails \/ Crash PROVE DigestInv'
<1>1. UNCHANGED <<table, births, row, ran, digests, got, swapped>>
  BY DEF Finish, CommitFails, Crash, history, database
<1>2. run' = [pc |-> "idle", day |-> 0, todo |-> {}, cur |-> {},
              plan |-> [r \in Recipient |-> NoPlan]]
  BY DEF Finish, CommitFails, Crash, CutOff, IdleRun
<1>3. BlockedInv'
  <2> SUFFICES ASSUME NEW r \in Recipient, NEW i \in Id,
                      row[r][i] \in {"digest_attempted", "digest_skipped"}
               PROVE  table[i] \in tried'[r]
    BY <1>1 DEF BlockedInv
  <2>1. tried[r] \subseteq tried'[r]
    <3>1. CASE CutOff
      BY <3>1 DEF CutOff
    <3>2. CASE UNCHANGED tried
      BY <3>2
    <3>3. QED
      BY <3>1, <3>2 DEF Finish, CommitFails, Crash, history
  <2>2. CASE table[i] \in tried[r]
    BY <2>1, <2>2
  <2>3. CASE run.pc = "reserved" /\ r \in run.cur /\ i \in Planned(r)
    <3>1. table[i] # 0
      BY DEF DigestInv, StoreInv
    <3>2. table[i] \in Standing(r)
      BY <2>3, <3>1 DEF Standing
    <3>3. tried'[r] = tried[r] \cup Standing(r)
      BY <2>3 DEF Finish, CommitFails, Crash, CutOff
    <3>4. QED
      BY <3>2, <3>3
  <2>4. QED
    BY <2>2, <2>3 DEF DigestInv, BlockedInv
<1>4. DayInv'
  BY <1>1, <1>2 DEF DigestInv, DayInv, OneDigestADay, Yet
<1>5. QED
  BY <1>1, <1>2, <1>3, <1>4, NoPlanDigest

\* A day that is named again is not the day of the run under way.
LEMMA NewDayDigest == ASSUME DigestInv, TypeOK', NewDay PROVE DigestInv'
<1> DEFINE next == (today + 1) % Days
<1>1. UNCHANGED <<table, births, row, run, got, tried, swapped>>
  BY DEF NewDay
<1>2. /\ run.pc # "idle" => run.day # next
      /\ ran' = ran \ {next}
      /\ \A r \in Recipient, d \in Day :
           digests'[r][d] = IF d = next THEN 0 ELSE digests[r][d]
  BY DEF NewDay, DigestInv, TypeOK
<1> HIDE DEF next
<1>3. DayInv'
  <2>1. OneDigestADay' /\ \A r \in Recipient, d \in Day : d \notin ran' => digests'[r][d] = 0
    BY <1>2 DEF DigestInv, DayInv, OneDigestADay
  <2>2. run'.pc # "idle" => run'.day \in ran'
    BY <1>1, <1>2 DEF DigestInv, DayInv
  <2>3. ASSUME NEW r \in Recipient, (Yet(r) \/ run.pc = "plan")'
        PROVE  digests'[r][run'.day] = 0
    <3>1. Yet(r) \/ run.pc = "plan"
      BY <1>1, <2>3 DEF Yet
    <3>2. run.day \in Day
      BY DEF DigestInv, TypeOK
    <3>3. digests[r][run.day] = 0
      BY <3>1 DEF DigestInv, DayInv
    <3>4. QED
      BY <1>1, <1>2, <3>2, <3>3
  <2>4. QED
    BY <2>1, <2>2, <2>3 DEF DayInv
<1>4. StoreInv' /\ OrderInv' /\ PlanInv' /\ WaitingInv' /\ ReservedInv'
  BY <1>1 DEF DigestInv, RunInv, StoreInv, OrderInv, PlanInv, WaitingInv, ReservedInv, Entries,
              Busy
<1>5. GotInv' /\ SentIsHonest' /\ BlockedInv'
  BY <1>1 DEF DigestInv, GotInv, ItemAtMostOnce, SentIsHonest, BlockedInv, Entries, Planned, Yet
<1>6. QED
  BY <1>3, <1>4, <1>5, DigestInvPrimed

\* A match is held for the digest.  Its id is above every one in use, so it was free; where
\* it was in a plan the match counts as swapped.
LEMMA HoldDigest == ASSUME DigestInv, TypeOK', Hold PROVE DigestInv'
<1>1. PICK i \in Id, R \in SUBSET Recipient :
        /\ i = 1 + Max({0} \cup {j \in Id : table[j] # 0})
        /\ table' = [table EXCEPT ![i] = births + 1]
        /\ row' = [q \in Recipient |->
                    [row[q] EXCEPT ![i] = IF q \in R THEN "pending" ELSE "none"]]
  <2>1. SUBSET (active \cap common \cap allowed) \subseteq SUBSET Recipient
    BY DEF DigestInv, TypeOK
  <2>2. QED
    BY <2>1 DEF Hold
<1>2. /\ LoopFree /\ births' = births + 1
      /\ swapped' = IF \E r \in Recipient : i \in Planned(r)
                    THEN swapped \cup {births + 1} ELSE swapped
      /\ UNCHANGED <<ran, run, got, digests, tried>>
  <2>1. PICK k \in Id :
          /\ k = 1 + Max({0} \cup {j \in Id : table[j] # 0})
          /\ swapped' = IF \E r \in Recipient : k \in Planned(r)
                        THEN swapped \cup {births + 1} ELSE swapped
    BY DEF Hold
  <2>2. k = i
    BY <1>1, <2>1
  <2>3. QED
    BY <2>1, <2>2 DEF Hold
<1>3. table[i] = 0 /\ births \in Nat
  <2> DEFINE S == {0} \cup {j \in Id : table[j] # 0}
  <2>1. S \subseteq 0..MaxId /\ S # {} /\ MaxId \in Nat
    BY DigestAssumption DEF Id
  <2> HIDE DEF S
  <2>2. Max(S) \in 0..MaxId /\ \A j \in S : j <= Max(S)
    BY <2>1, MaxIsLargest
  <2>3. i \notin S
    BY <1>1, <2>1, <2>2 DEF S, Id
  <2>4. table[i] = 0
    BY <2>3 DEF S
  <2>5. QED
    BY <2>4, DigestAssumption DEF DigestInv, TypeOK
<1>4. \A j \in Id : table'[j] = IF j = i THEN births + 1 ELSE table[j]
  BY <1>1 DEF DigestInv, TypeOK
<1>5. \A q \in Recipient, j \in Id :
        row'[q][j] = IF j = i THEN (IF q \in R THEN "pending" ELSE "none") ELSE row[q][j]
  BY <1>1 DEF DigestInv, TypeOK
<1>6. \A j \in Id : table[j] \in Nat /\ table[j] <= births
  BY DEF DigestInv, StoreInv, TypeOK
<1>7. StoreInv'
  BY <1>2, <1>3, <1>4, <1>5, <1>6 DEF DigestInv, StoreInv
<1>8. OrderInv'
  BY <1>2 DEF DigestInv, RunInv, OrderInv, Busy
<1>9. \A r \in Recipient : Entries(r)' = Entries(r) /\ Entries(r) \subseteq Entry
  BY <1>2 DEF Entries, DigestInv, TypeOK
<1>10. PlanInv'
  <2> SUFFICES ASSUME NEW r \in Recipient, NEW e \in Entries(r)
               PROVE  /\ e.birth <= births'
                      /\ \A j \in Id : table'[j] = e.birth => j = e.id
                      /\ table'[e.id] \in {0, e.birth} \cup swapped'
    BY <1>2, <1>9 DEF DigestInv, RunInv, PlanInv
  <2>1. /\ e.birth <= births /\ \A j \in Id : table[j] = e.birth => j = e.id
        /\ table[e.id] \in {0, e.birth} \cup swapped
        /\ e.birth \in Nat /\ e.id \in Id
    BY <1>9, DigestAssumption DEF DigestInv, RunInv, PlanInv, Entry, Birth
  <2>2. e.id = i => i \in Planned(r)
    BY DEF Planned, Entries
  <2>3. swapped \subseteq swapped' /\ (e.id = i => births + 1 \in swapped')
    BY <1>2, <2>2
  <2>4. QED
    BY <1>2, <1>3, <1>4, <2>1, <2>3
<1>11. WaitingInv'
  <2> SUFFICES ASSUME NEW r \in run.todo, NEW e \in Entries(r)
               PROVE  row'[r][e.id] \in {"pending", "none"}
    BY <1>2, <1>9 DEF WaitingInv, DigestInv, TypeOK
  <2>1. r \in Recipient
    BY DEF DigestInv, TypeOK
  <2>2. e.id \in Id
    BY <1>9, <2>1 DEF Entry
  <2>3. row[r][e.id] \in {"pending", "none"}
    BY DEF DigestInv, RunInv, WaitingInv
  <2>4. QED
    BY <1>5, <2>1, <2>2, <2>3
<1>12. ReservedInv'
  <2>1. run.pc # "reserved"
    BY <1>2 DEF LoopFree
  <2> SUFFICES ASSUME NEW r \in run.cur, NEW e \in run.plan[r].top, table'[e.id] = e.birth
               PROVE  row'[r][e.id] \in {"digest_attempted", "none"}
    BY <1>2, <2>1 DEF ReservedInv
  <2>2. r \in Recipient /\ e \in Entries(r) /\ e.id \in Id /\ e.birth \in Nat
    BY <1>9, DigestAssumption DEF DigestInv, TypeOK, Entries, Entry, Birth
  <2>3. e.birth <= births
    BY <2>2 DEF DigestInv, RunInv, PlanInv
  <2>4. e.id # i
    BY <1>3, <1>4, <2>2, <2>3
  <2>5. QED
    BY <1>4, <1>5, <2>2, <2>4 DEF DigestInv, RunInv, ReservedInv
<1>13. GotInv'
  <2>1. births + 1 \in Birth
    BY <1>2, <1>3, DigestAssumption DEF TypeOK, Birth
  <2>2. \A r \in Recipient, b \in Birth : b > births => got[r][b] = 0
    BY DEF DigestInv, GotInv
  <2>3. \A r \in Recipient : got[r][births + 1] = 0
    BY <1>3, <2>1, <2>2
  <2>4. \A r \in Recipient, b \in Birth : b > births' => got'[r][b] = 0
    BY <1>2, <1>3, <2>2, DigestAssumption DEF Birth
  <2>5. \A r \in Recipient, j \in Id :
          table'[j] # 0 /\ row'[r][j] \in {"pending", "digest_skipped"} => got'[r][table'[j]] = 0
    BY <1>2, <1>4, <1>5, <2>3 DEF DigestInv, GotInv
  <2>6. \A r \in Recipient : Yet(r)' => \A e \in Entries(r)' :
          got'[r][e.birth] = 0 /\ (table'[e.id] # 0 => got'[r][table'[e.id]] = 0)
    <3>1. ASSUME NEW r \in Recipient, Yet(r)', NEW e \in Entries(r)
          PROVE  got[r][e.birth] = 0 /\ (table'[e.id] # 0 => got[r][table'[e.id]] = 0)
      <4>1. Yet(r) /\ e.id \in Id
        BY <1>2, <1>9, <3>1 DEF Yet, Entry
      <4>2. got[r][e.birth] = 0 /\ (table[e.id] # 0 => got[r][table[e.id]] = 0)
        BY <4>1 DEF DigestInv, GotInv
      <4>3. QED
        BY <1>4, <2>3, <4>1, <4>2
    <3>2. QED
      BY <1>2, <1>9, <3>1
  <2>7. QED
    BY <1>2, <2>4, <2>5, <2>6 DEF DigestInv, GotInv, ItemAtMostOnce
<1>14. DayInv'
  BY <1>2 DEF DigestInv, DayInv, OneDigestADay, Yet
<1>15. SentIsHonest' /\ BlockedInv'
  <2>1. SentIsHonest'
    BY <1>2, <1>4, <1>5 DEF DigestInv, SentIsHonest
  <2>2. \A r \in Recipient : Planned(r)' = Planned(r)
    BY <1>2 DEF Planned
  <2>3. BlockedInv'
    BY <1>2, <1>4, <1>5, <2>2 DEF DigestInv, BlockedInv
  <2>4. QED
    BY <2>1, <2>3
<1>16. QED
  BY <1>7, <1>8, <1>10, <1>11, <1>12, <1>13, <1>14, <1>15, DigestInvPrimed

\* A match is deleted with its deliveries; a plan that holds it now has an empty id.
LEMMA DeleteDigest == ASSUME DigestInv, TypeOK', NEW i \in Id, Delete(i) PROVE DigestInv'
<1>1. /\ births' = births /\ swapped' = swapped
      /\ UNCHANGED <<ran, run, got, digests, tried>>
  BY DEF Delete, history
<1>2. \A j \in Id : table'[j] = IF j = i THEN 0 ELSE table[j]
  BY DEF Delete, DigestInv, TypeOK
<1>3. \A q \in Recipient, j \in Id : row'[q][j] = IF j = i THEN "none" ELSE row[q][j]
  BY DEF Delete, DigestInv, TypeOK
<1>4. births \in Nat /\ \A j \in Id : table[j] \in Nat
  BY DigestAssumption DEF DigestInv, TypeOK
<1>5. StoreInv'
  BY <1>1, <1>2, <1>3, <1>4 DEF DigestInv, StoreInv
<1>6. \A r \in Recipient : Entries(r)' = Entries(r)
  BY <1>1 DEF Entries
<1>7. \A r \in Recipient : \A e \in Entries(r) : e.id \in Id /\ e.birth \in Nat \ {0}
  BY EntryParts DEF DigestInv
<1>8. OrderInv'
  BY <1>1 DEF DigestInv, RunInv, OrderInv, Busy
<1>9. PlanInv'
  <2> SUFFICES ASSUME NEW r \in Recipient, NEW e \in Entries(r)
               PROVE  /\ \A j \in Id : table'[j] = e.birth => j = e.id
                      /\ table'[e.id] \in {0, e.birth} \cup swapped
    BY <1>1, <1>6 DEF DigestInv, RunInv, PlanInv
  <2>1. /\ \A j \in Id : table[j] = e.birth => j = e.id
        /\ table[e.id] \in {0, e.birth} \cup swapped
    BY DEF DigestInv, RunInv, PlanInv
  <2>2. QED
    BY <1>2, <1>7, <2>1
<1>10. WaitingInv' /\ ReservedInv'
  <2>1. \A r \in run.todo \cup run.cur : r \in Recipient
    BY DEF DigestInv, TypeOK
  <2>2. WaitingInv'
    BY <1>1, <1>3, <1>6, <1>7, <2>1 DEF DigestInv, RunInv, WaitingInv
  <2>3. ReservedInv'
    <3> SUFFICES ASSUME NEW r \in run.cur
                 PROVE  /\ \A e \in run.plan[r].top :
                             table'[e.id] = e.birth => row'[r][e.id] \in {"digest_attempted", "none"}
                        /\ run.pc = "reserved" =>
                             /\ \A e \in run.plan[r].top :
                                  row'[r][e.id] \in {"digest_attempted", "none"}
                             /\ \A e \in run.plan[r].over :
                                  row'[r][e.id] \in {"digest_skipped", "none"}
      BY <1>1 DEF ReservedInv
    <3>1. r \in Recipient /\ run.plan[r].top \subseteq Entries(r) /\ run.plan[r].over \subseteq Entries(r)
      BY <2>1 DEF Entries
    <3>2. /\ \A e \in run.plan[r].top :
               table[e.id] = e.birth => row[r][e.id] \in {"digest_attempted", "none"}
          /\ run.pc = "reserved" =>
               /\ \A e \in run.plan[r].top : row[r][e.id] \in {"digest_attempted", "none"}
               /\ \A e \in run.plan[r].over : row[r][e.id] \in {"digest_skipped", "none"}
      BY DEF DigestInv, RunInv, ReservedInv
    <3>3. QED
      BY <1>2, <1>3, <1>7, <3>1, <3>2
  <2>4. QED
    BY <2>2, <2>3
<1>11. GotInv'
  <2>1. \A r \in Recipient, j \in Id :
          table'[j] # 0 /\ row'[r][j] \in {"pending", "digest_skipped"} => got[r][table'[j]] = 0
    BY <1>2, <1>3 DEF DigestInv, GotInv
  <2>2. \A r \in Recipient : Yet(r) => \A e \in Entries(r) :
          got[r][e.birth] = 0 /\ (table'[e.id] # 0 => got[r][table'[e.id]] = 0)
    BY <1>2, <1>7 DEF DigestInv, GotInv
  <2>3. QED
    BY <1>1, <1>6, <2>1, <2>2 DEF DigestInv, GotInv, ItemAtMostOnce, Yet
<1>12. DayInv'
  BY <1>1 DEF DigestInv, DayInv, OneDigestADay, Yet
<1>13. SentIsHonest' /\ BlockedInv'
  BY <1>1, <1>2, <1>3 DEF DigestInv, SentIsHonest, BlockedInv, Planned
<1>14. QED
  BY <1>5, <1>8, <1>9, <1>10, <1>11, <1>12, <1>13, DigestInvPrimed

\* The plan is made: whatever is queued is named by its id, and was never accepted.
LEMMA PlanDigest == ASSUME DigestInv, TypeOK', Plan PROVE DigestInv'
<1>1. /\ UNCHANGED <<table, births, row, ran, got, digests, tried, swapped>>
      /\ run.pc = "plan"
  BY DEF Plan, database, history
<1>2. /\ run'.pc = "next" /\ run'.day = run.day /\ run'.todo = Reachable /\ run'.cur = run.cur
      /\ \A r \in Recipient :
           /\ r \in Reachable => run'.plan[r] = [top |-> Top(r), over |-> Queue(r) \ Top(r)]
           /\ r \notin Reachable => run'.plan[r] = [top |-> {}, over |-> {}]
  BY DEF Plan, DigestInv, TypeOK, NoPlan
<1>a. \A r \in Recipient :
        \/ run'.plan[r].top = Top(r) /\ run'.plan[r].over = Queue(r) \ Top(r)
        \/ r \notin Reachable /\ run'.plan[r].top = {} /\ run'.plan[r].over = {}
  <2> TAKE r \in Recipient
  <2>1. CASE r \in Reachable
    <3>1. run'.plan[r] = [top |-> Top(r), over |-> Queue(r) \ Top(r)]
      BY <1>2, <2>1
    <3>2. QED
      BY <3>1
  <2>2. CASE r \notin Reachable
    <3>1. run'.plan[r] = [top |-> {}, over |-> {}]
      BY <1>2, <2>2
    <3>2. QED
      BY <2>2, <3>1
  <2>3. QED
    BY <2>1, <2>2
<1>3. run.cur = {} /\ Reachable \subseteq Recipient
  BY <1>1 DEF DigestInv, RunInv, OrderInv, Busy, Reachable, TypeOK
<1>4. \A r \in Recipient : Entries(r)' \subseteq Queue(r)
  <2> SUFFICES ASSUME NEW r \in Recipient PROVE Entries(r)' \subseteq Queue(r)
    OBVIOUS
  <2>1. Top(r) \subseteq Queue(r)
    BY DEF Top
  <2>2. run'.plan[r].top \subseteq Queue(r) /\ run'.plan[r].over \subseteq Queue(r)
    BY <1>a, <2>1
  <2>3. QED
    BY <2>2 DEF Entries
<1>5. \A r \in Recipient : \A e \in Queue(r) :
        e.id \in Id /\ e.birth \in Birth /\ table[e.id] = e.birth /\ row[r][e.id] = "pending"
  BY DEF Queue, Entry
<1>6. OrderInv'
  BY <1>2, <1>3 DEF OrderInv, Busy, NoPlan
<1>7. PlanInv'
  <2> SUFFICES ASSUME NEW r \in Recipient, NEW e \in Entries(r)'
               PROVE  /\ e.birth <= births
                      /\ \A j \in Id : table[j] = e.birth => j = e.id
                      /\ table[e.id] \in {0, e.birth} \cup swapped
                      /\ \A f \in Entries(r)' : f.id = e.id => f = e
                      /\ e \notin run'.plan[r].top \cap run'.plan[r].over
    BY <1>1 DEF PlanInv
  <2>1. e \in Queue(r)
    BY <1>4
  <2>2. e.birth <= births /\ \A j \in Id : table[j] = e.birth => j = e.id
    BY <1>5, <2>1, DigestAssumption DEF DigestInv, StoreInv, Birth
  <2>3. \A f \in Entries(r)' : f.id = e.id => f = e
    <3>1. ASSUME NEW f \in Queue(r), f.id = e.id
          PROVE  f = e
      BY <1>5, <2>1, <3>1 DEF Queue, Entry
    <3>2. QED
      BY <1>4, <3>1
  <2>4. e \notin run'.plan[r].top \cap run'.plan[r].over
    BY <1>a
  <2>5. QED
    BY <1>5, <2>1, <2>2, <2>3, <2>4
<1>8. WaitingInv' /\ ReservedInv'
  BY <1>1, <1>2, <1>3, <1>4, <1>5 DEF WaitingInv, ReservedInv
<1>9. GotInv'
  <2>1. \A r \in Recipient : \A e \in Queue(r) : got[r][e.birth] = 0 /\ got[r][table[e.id]] = 0
    BY <1>5, DigestAssumption DEF DigestInv, GotInv, Birth
  <2>2. QED
    BY <1>1, <1>2, <1>3, <1>4, <2>1 DEF DigestInv, GotInv, ItemAtMostOnce
<1>10. DayInv'
  BY <1>1, <1>2 DEF DigestInv, DayInv, OneDigestADay, Yet
<1>11. StoreInv' /\ SentIsHonest' /\ BlockedInv'
  BY <1>1 DEF DigestInv, StoreInv, SentIsHonest, BlockedInv
<1>12. QED
  BY <1>6, <1>7, <1>8, <1>9, <1>10, <1>11, DigestInvPrimed

-----------------------------------------------------------------------------
(* The steps about one recipient *)

\* After the answer, or a failure, the run is about the recipients it still has to do.
LEMMA Left ==
  ASSUME DigestInv, TypeOK', NEW r \in Recipient, r \in run.cur, Leave(r),
         UNCHANGED <<table, births, ran, digests, got, tried, swapped>>,
         \A q \in Recipient \ {r}, i \in Id : row'[q][i] = row[q][i],
         \A i \in Id : row'[r][i] # row[r][i] => row[r][i] # "none" /\ row'[r][i] \in {"pending", "sent"},
         \A i \in Id : row'[r][i] # row[r][i] /\ row'[r][i] = "pending" => got[r][table[i]] = 0,
         \A i \in Id : row'[r][i] # row[r][i] /\ row'[r][i] = "sent" =>
                         got[r][table[i]] > 0 \/ table[i] \in swapped,
         \A i \in Id : row'[r][i] \in {"digest_attempted", "digest_skipped"} => table[i] \in tried[r]
  PROVE  DigestInv'
<1>1. run.cur = {r} /\ r \notin run.todo /\ run.pc \in Busy
  BY DEF DigestInv, RunInv, OrderInv
<1>2. /\ run'.pc = "next" /\ run'.day = run.day /\ run'.todo = run.todo /\ run'.cur = {}
      /\ \A q \in Recipient : run'.plan[q] = IF q = r THEN NoPlan ELSE run.plan[q]
  BY DEF Leave, DigestInv, TypeOK
<1>3. \A q \in Recipient : Entries(q)' = IF q = r THEN {} ELSE Entries(q)
  BY <1>2 DEF Entries, NoPlan
<1>4. run.todo \subseteq Recipient
  BY DEF DigestInv, TypeOK
<1>5. OrderInv'
  BY <1>1, <1>2 DEF DigestInv, RunInv, OrderInv, Busy
<1>6. PlanInv'
  <2> SUFFICES ASSUME NEW q \in Recipient \ {r}
               PROVE  \A e \in Entries(q) :
                        /\ e.birth <= births
                        /\ \A j \in Id : table[j] = e.birth => j = e.id
                        /\ table[e.id] \in {0, e.birth} \cup swapped
                        /\ \A f \in Entries(q) : f.id = e.id => f = e
                        /\ e \notin run.plan[q].top \cap run.plan[q].over
    BY <1>2, <1>3 DEF PlanInv
  <2>1. QED
    BY DEF DigestInv, RunInv, PlanInv
<1>7. \A q \in Recipient : \A e \in Entries(q) : e.id \in Id
  BY DEF Entries, DigestInv, TypeOK, Entry
<1>8. WaitingInv' /\ ReservedInv'
  BY <1>1, <1>2, <1>3, <1>4, <1>7 DEF DigestInv, RunInv, WaitingInv, ReservedInv
<1>9. GotInv'
  <2>1. \A q \in Recipient, i \in Id :
          table[i] # 0 /\ row'[q][i] \in {"pending", "digest_skipped"} => got[q][table[i]] = 0
    BY DEF DigestInv, GotInv
  <2>2. \A q \in Recipient : Yet(q)' => q # r /\ Yet(q)
    BY <1>1, <1>2 DEF Yet
  <2>3. QED
    BY <1>2, <1>3, <2>1, <2>2 DEF DigestInv, GotInv, ItemAtMostOnce
<1>10. DayInv'
  <2>1. run.pc # "idle" /\ \A q \in Recipient : Yet(q)' => Yet(q)
    BY <1>1, <1>2 DEF Yet, Busy
  <2>2. QED
    BY <1>2, <2>1 DEF DigestInv, DayInv, OneDigestADay
<1>11. StoreInv'
  <2>1. \A q \in Recipient, i \in Id : row[q][i] = "none" => row'[q][i] = "none"
    OBVIOUS
  <2>2. QED
    BY <2>1 DEF DigestInv, StoreInv
<1>12. SentIsHonest'
  BY DEF DigestInv, SentIsHonest
<1>13. BlockedInv'
  <2> SUFFICES ASSUME NEW q \in Recipient, NEW i \in Id,
                      row'[q][i] \in {"digest_attempted", "digest_skipped"}
               PROVE  table[i] \in tried[q]
    BY DEF BlockedInv
  <2>1. CASE q = r
    BY <2>1
  <2>2. CASE q # r
    BY <1>1, <2>2 DEF DigestInv, BlockedInv
  <2>3. QED
    BY <2>1, <2>2
<1>14. QED
  BY <1>5, <1>6, <1>8, <1>9, <1>10, <1>11, <1>12, <1>13, DigestInvPrimed

\* The call is started: its matches count as tried.
LEMMA CallDigest == ASSUME DigestInv, TypeOK', NEW r \in Recipient, CallBot(r) PROVE DigestInv'
<1>1. /\ UNCHANGED <<table, births, row, ran, digests, got, swapped>>
      /\ run.pc = "reserved" /\ r \in run.cur
  BY DEF CallBot, database
<1>2. run'.pc = "calling" /\ UNCHANGED <<run.day, run.todo, run.cur, run.plan>>
  BY DEF CallBot, DigestInv, TypeOK
<1>3. /\ run.cur = {r}
      /\ \A q \in Recipient : tried'[q] = IF q = r THEN tried[r] \cup Standing(r) ELSE tried[q]
  BY <1>1 DEF CallBot, DigestInv, TypeOK, RunInv, OrderInv
<1>4. \A q \in Recipient : Entries(q)' = Entries(q) /\ Yet(q)' = Yet(q)
  BY <1>1, <1>2 DEF Entries, Yet
<1>5. OrderInv' /\ PlanInv' /\ WaitingInv' /\ ReservedInv'
  <2>1. OrderInv'
    BY <1>1, <1>2 DEF DigestInv, RunInv, OrderInv, Busy
  <2>2. PlanInv'
    BY <1>1, <1>2, <1>4 DEF DigestInv, RunInv, PlanInv
  <2>3. WaitingInv' /\ ReservedInv'
    BY <1>1, <1>2, <1>4 DEF DigestInv, TypeOK, RunInv, WaitingInv, ReservedInv
  <2>4. QED
    BY <2>1, <2>2, <2>3
<1>6. StoreInv' /\ SentIsHonest'
  BY <1>1 DEF DigestInv, StoreInv, SentIsHonest
<1>7. GotInv' /\ DayInv'
  BY <1>1, <1>2, <1>4 DEF DigestInv, GotInv, DayInv, ItemAtMostOnce, OneDigestADay
<1>8. BlockedInv'
  <2> SUFFICES ASSUME NEW q \in Recipient, NEW i \in Id,
                      row[q][i] \in {"digest_attempted", "digest_skipped"}
               PROVE  table[i] \in tried'[q]
    BY <1>1 DEF BlockedInv
  <2>1. table[i] # 0
    BY DEF DigestInv, StoreInv
  <2>2. table[i] \in tried[q] \/ (q = r /\ i \in Planned(r))
    BY <1>3 DEF DigestInv, BlockedInv
  <2>3. i \in Planned(r) => table[i] \in Standing(r)
    BY <2>1 DEF Standing
  <2>4. QED
    BY <1>3, <2>2, <2>3
<1>9. QED
  BY <1>5, <1>6, <1>7, <1>8, DigestInvPrimed

\* The call fails: the rows stay attempted, and nothing more is done with them.
LEMMA FailDigest == ASSUME DigestInv, TypeOK', NEW r \in Recipient, BotFails(r) PROVE DigestInv'
<1>1. /\ UNCHANGED <<table, births, ran, digests, got, tried, swapped>>
      /\ Leave(r) /\ r \in run.cur /\ run.pc # "reserved"
      /\ row' = row
  BY DEF BotFails, history, AfterFailure, DigestInv, TypeOK
<1>2. \A i \in Id : row[r][i] \in {"digest_attempted", "digest_skipped"} => table[i] \in tried[r]
  BY <1>1 DEF DigestInv, BlockedInv
<1>3. QED
  BY <1>1, <1>2, Left

\* The answer: what was attempted is sent, and Telegram has it.
LEMMA AnswerDigest ==
  ASSUME DigestInv, TypeOK', NEW r \in Recipient, BotAnswers(r)
  PROVE  DigestInv'
<1>1. /\ UNCHANGED <<table, births, ran, digests, got, tried, swapped>>
      /\ Leave(r) /\ r \in run.cur /\ run.pc = "accepted"
      /\ row' = [row EXCEPT ![r] = Marked(r, run.plan[r].top, "digest_attempted", "sent")]
  BY DEF BotAnswers, history
<1>2. /\ \A q \in Recipient \ {r}, i \in Id : row'[q][i] = row[q][i]
      /\ \A i \in Id : row'[r][i] =
           IF row[r][i] = "digest_attempted" /\ \E e \in run.plan[r].top : e.id = i
           THEN "sent" ELSE row[r][i]
  BY <1>1 DEF DigestInv, TypeOK, Marked
<1>3. \A i \in Id : row[r][i] \in {"digest_attempted", "digest_skipped"} => table[i] \in tried[r]
  BY <1>1 DEF DigestInv, BlockedInv
<1>4. ASSUME NEW i \in Id, row'[r][i] # row[r][i]
      PROVE  got[r][table[i]] > 0 \/ table[i] \in swapped
  <2>1. PICK e \in run.plan[r].top : e.id = i /\ row[r][i] = "digest_attempted"
    BY <1>2, <1>4
  <2>2. table[i] # 0
    BY <2>1 DEF DigestInv, StoreInv
  <2>3. table[i] \in {0, e.birth} \cup swapped
    BY <2>1 DEF DigestInv, RunInv, PlanInv, Entries
  <2>4. got[r][e.birth] > 0
    BY <1>1 DEF DigestInv, GotInv
  <2>5. QED
    BY <2>2, <2>3, <2>4
<1>5. QED
  BY <1>1, <1>2, <1>3, <1>4, Left

\* A local block takes the reservation back, of what was sent and of what did not fit.
LEMMA BackDigest == ASSUME DigestInv, TypeOK', NEW r \in Recipient, TakeBack(r) PROVE DigestInv'
<1>1. /\ UNCHANGED <<table, births, ran, digests, got, tried, swapped>>
      /\ Leave(r) /\ r \in run.cur /\ run.pc = "reserved"
      /\ row' = [row EXCEPT ![r] = Reverted(r)]
  BY DEF TakeBack, history
<1>2. /\ \A q \in Recipient \ {r}, i \in Id : row'[q][i] = row[q][i]
      /\ \A i \in Id : row'[r][i] =
           IF \E e \in run.plan[r].over : e.id = i
           THEN IF row[r][i] = "digest_skipped" THEN "pending" ELSE row[r][i]
           ELSE IF row[r][i] = "digest_attempted" /\ \E e \in run.plan[r].top : e.id = i
           THEN "pending" ELSE row[r][i]
  BY <1>1 DEF DigestInv, TypeOK, Reverted, Marked
<1>3. ASSUME NEW i \in Id, row'[r][i] # row[r][i]
      PROVE  row[r][i] # "none" /\ row'[r][i] = "pending" /\ got[r][table[i]] = 0
  <2>1. row[r][i] # "none" /\ row'[r][i] = "pending" /\ \E e \in Entries(r) : e.id = i
    BY <1>2, <1>3 DEF Entries
  <2>2. table[i] # 0
    BY <2>1 DEF DigestInv, StoreInv
  <2>3. Yet(r)
    BY <1>1 DEF Yet
  <2>4. QED
    BY <2>1, <2>2, <2>3 DEF DigestInv, GotInv
<1>4. ASSUME NEW i \in Id, row'[r][i] \in {"digest_attempted", "digest_skipped"}
      PROVE  table[i] \in tried[r]
  <2>1. row[r][i] = row'[r][i]
    BY <1>3, <1>4
  <2>2. i \notin Planned(r)
    <3>1. \A e \in run.plan[r].top : row[r][e.id] \in {"digest_attempted", "none"}
      BY <1>1 DEF DigestInv, RunInv, ReservedInv
    <3>2. \A e \in run.plan[r].over : row[r][e.id] \in {"digest_skipped", "none"}
      BY <1>1 DEF DigestInv, RunInv, ReservedInv
    <3>3. ~\E e \in run.plan[r].over : e.id = i
      BY <1>2, <1>4, <2>1, <3>2
    <3>4. ~\E e \in run.plan[r].top : e.id = i
      BY <1>2, <1>4, <2>1, <3>1, <3>3
    <3>5. QED
      BY <3>3, <3>4 DEF Planned
  <2>3. QED
    BY <1>4, <2>1, <2>2 DEF DigestInv, BlockedInv
<1>5. QED
  BY <1>1, <1>2, <1>3, <1>4, Left

\* The rows of one recipient are reserved before the call: the top ones as attempted, the
\* others as skipped.
LEMMA ReserveDigest == ASSUME DigestInv, TypeOK', NEW r \in Recipient, Reserve(r) PROVE DigestInv'
<1>1. /\ UNCHANGED <<table, births, ran, digests, got, tried, swapped>>
      /\ run.pc = "next" /\ r \in run.todo
      /\ row' = [row EXCEPT ![r] =
           [i \in Id |->
              IF \E e \in run.plan[r].over : e.id = i
              THEN Marked(r, run.plan[r].over, "pending", "digest_skipped")[i]
              ELSE Marked(r, run.plan[r].top, "pending", "digest_attempted")[i]]]
  BY DEF Reserve, history
<1>2. /\ run'.pc = "reserved" /\ run'.todo = run.todo \ {r} /\ run'.cur = {r}
      /\ run'.day = run.day /\ run'.plan = run.plan
  BY DEF Reserve, DigestInv, TypeOK
<1>3. /\ \A q \in Recipient \ {r}, i \in Id : row'[q][i] = row[q][i]
      /\ \A i \in Id : row'[r][i] =
           IF \E e \in run.plan[r].over : e.id = i
           THEN IF row[r][i] = "pending" THEN "digest_skipped" ELSE row[r][i]
           ELSE IF row[r][i] = "pending" /\ \E e \in run.plan[r].top : e.id = i
           THEN "digest_attempted" ELSE row[r][i]
  BY <1>1 DEF DigestInv, TypeOK, Marked
<1>4. /\ run.cur = {} /\ run.todo \subseteq Recipient
      /\ \A q \in Recipient : Entries(q)' = Entries(q) /\ Planned(q)' = Planned(q)
      /\ \A q \in Recipient : Yet(q)' <=> Yet(q)
  BY <1>1, <1>2 DEF DigestInv, RunInv, OrderInv, Busy, Entries, Planned, TypeOK, Yet
<1>5. \A q \in Recipient : \A e \in Entries(q) : e.id \in Id
  BY DEF Entries, DigestInv, TypeOK, Entry
<1>6. \A e \in Entries(r) : row[r][e.id] \in {"pending", "none"}
  BY <1>1 DEF DigestInv, RunInv, WaitingInv
<1>7. OrderInv'
  BY <1>1, <1>2, <1>4 DEF DigestInv, RunInv, OrderInv, Busy
<1>8. PlanInv'
  BY <1>1, <1>2, <1>4 DEF DigestInv, RunInv, PlanInv
<1>9. WaitingInv'
  <2> SUFFICES ASSUME NEW q \in run.todo \ {r}, NEW e \in Entries(q)
               PROVE  row'[q][e.id] \in {"pending", "none"}
    BY <1>2, <1>4 DEF WaitingInv
  <2>1. q \in Recipient \ {r} /\ e.id \in Id
    BY <1>4, <1>5
  <2>2. QED
    BY <1>3, <2>1 DEF DigestInv, RunInv, WaitingInv
<1>10. ReservedInv'
  <2>1. \A e \in run.plan[r].over : row'[r][e.id] \in {"digest_skipped", "none"}
    BY <1>3, <1>5, <1>6 DEF Entries
  <2>2. ASSUME NEW e \in run.plan[r].top
        PROVE  row'[r][e.id] \in {"digest_attempted", "none"}
    <3>1. ASSUME NEW f \in run.plan[r].over
          PROVE  f.id # e.id
      <4>1. f.id = e.id => f = e
        BY DEF DigestInv, RunInv, PlanInv, Entries
      <4>2. e \notin run.plan[r].top \cap run.plan[r].over
        BY DEF DigestInv, RunInv, PlanInv, Entries
      <4>3. QED
        BY <4>1, <4>2
    <3>2. e.id \in Id /\ row[r][e.id] \in {"pending", "none"}
      BY <1>5, <1>6 DEF Entries
    <3>3. QED
      BY <1>3, <3>1, <3>2
  <2>3. QED
    BY <1>2, <2>1, <2>2 DEF ReservedInv
<1>11. GotInv'
  <2>1. ASSUME NEW q \in Recipient, NEW i \in Id, table[i] # 0,
               row'[q][i] \in {"pending", "digest_skipped"}
        PROVE  got[q][table[i]] = 0
    <3>1. row[q][i] \in {"pending", "digest_skipped"}
      BY <1>3, <2>1
    <3>2. QED
      BY <2>1, <3>1 DEF DigestInv, GotInv
  <2>2. QED
    BY <1>1, <1>2, <1>4, <2>1 DEF DigestInv, GotInv, ItemAtMostOnce
<1>12. DayInv'
  BY <1>1, <1>2, <1>4 DEF DigestInv, DayInv, OneDigestADay
<1>13. StoreInv' /\ SentIsHonest'
  <2>1. \A q \in Recipient, i \in Id :
          /\ row[q][i] = "none" => row'[q][i] = "none"
          /\ row'[q][i] = "sent" => row[q][i] = "sent"
    BY <1>3
  <2>2. QED
    BY <1>1, <2>1 DEF DigestInv, StoreInv, SentIsHonest
<1>14. BlockedInv'
  <2> SUFFICES ASSUME NEW q \in Recipient, NEW i \in Id,
                      row'[q][i] \in {"digest_attempted", "digest_skipped"}
               PROVE  table[i] \in tried[q] \/ (q = r /\ i \in Planned(q))
    BY <1>1, <1>2, <1>4 DEF BlockedInv
  <2>1. CASE row'[q][i] = row[q][i]
    BY <1>1, <2>1 DEF DigestInv, BlockedInv
  <2>2. CASE row'[q][i] # row[q][i]
    BY <1>3, <2>2 DEF Planned
  <2>3. QED
    BY <2>1, <2>2
<1>15. QED
  BY <1>7, <1>8, <1>9, <1>10, <1>11, <1>12, <1>13, <1>14, DigestInvPrimed

\* Telegram accepts the digest: what is on top of the plan was never accepted before, and
\* none of it is queued.
LEMMA AcceptDigest ==
  ASSUME DigestInv, TypeOK', NEW r \in Recipient, BotAccepts(r)
  PROVE  DigestInv'
<1>1. /\ UNCHANGED <<table, births, row, ran, tried, swapped>>
      /\ run.pc = "calling" /\ r \in run.cur
  BY DEF BotAccepts, database
<1>2. run'.pc = "accepted" /\ UNCHANGED <<run.day, run.todo, run.cur, run.plan>>
  BY DEF BotAccepts, DigestInv, TypeOK
<1>3. \A q \in Recipient, b \in Birth :
        got'[q][b] = IF q = r /\ \E e \in run.plan[r].top : e.birth = b
                     THEN got[q][b] + 1 ELSE got[q][b]
  BY DEF BotAccepts, DigestInv, TypeOK
<1>4. \A q \in Recipient, d \in Day :
        digests'[q][d] = IF q = r /\ d = run.day THEN digests[q][d] + 1 ELSE digests[q][d]
  BY DEF BotAccepts, DigestInv, TypeOK
<1>5. /\ run.cur = {r} /\ r \notin run.todo /\ Yet(r)
      /\ \A q \in Recipient : Entries(q)' = Entries(q) /\ Planned(q)' = Planned(q)
      /\ \A q \in Recipient : Yet(q)' <=> Yet(q) /\ q # r
  BY <1>1, <1>2 DEF DigestInv, RunInv, OrderInv, Entries, Planned, Yet
<1>6. \A q \in Recipient : \A e \in Entries(q) : e.id \in Id /\ e.birth \in Birth
  BY DEF Entries, DigestInv, TypeOK, Entry
<1>7. OrderInv' /\ PlanInv' /\ WaitingInv' /\ ReservedInv'
  <2>1. OrderInv'
    BY <1>1, <1>2 DEF DigestInv, RunInv, OrderInv, Busy
  <2>2. PlanInv'
    BY <1>1, <1>2, <1>5 DEF DigestInv, RunInv, PlanInv
  <2>3. WaitingInv' /\ ReservedInv'
    BY <1>1, <1>2, <1>5 DEF DigestInv, TypeOK, RunInv, WaitingInv, ReservedInv
  <2>4. QED
    BY <2>1, <2>2, <2>3
<1>8. StoreInv'
  BY <1>1 DEF DigestInv, StoreInv
<1>9. \A q \in Recipient, b \in Birth : got[q][b] \in Nat /\ got'[q][b] \in Nat
                                        /\ got'[q][b] >= got[q][b]
  <2>1. \A q \in Recipient, b \in Birth : got[q][b] \in Nat
    BY DEF DigestInv, TypeOK
  <2>2. QED
    BY <1>3, <2>1
<1>a. \A i \in Id : table[i] # 0 => table[i] \in Birth
  <2>1. \A i \in Id : table[i] \in 0..MaxBirths
    BY DEF DigestInv, TypeOK
  <2>2. QED
    BY <2>1, DigestAssumption DEF Birth
<1>10. GotInv'
  <2>1. ASSUME NEW e \in run.plan[r].top
        PROVE  got[r][e.birth] = 0 /\ got'[r][e.birth] = 1 /\ e.birth <= births
    <3>1. e \in Entries(r) /\ e.birth \in Birth
      BY <1>6 DEF Entries
    <3>2. got[r][e.birth] = 0
      BY <1>5, <3>1 DEF DigestInv, GotInv
    <3>3. got'[r][e.birth] = 1
      BY <1>3, <3>1, <3>2
    <3>4. e.birth <= births
      BY <3>1 DEF DigestInv, RunInv, PlanInv
    <3>5. QED
      BY <3>2, <3>3, <3>4
  <2>2. ItemAtMostOnce'
    BY <1>3, <2>1 DEF DigestInv, GotInv, ItemAtMostOnce
  <2>3. \A q \in Recipient, b \in Birth : b > births => got'[q][b] = 0
    <3> SUFFICES ASSUME NEW q \in Recipient, NEW b \in Birth, b > births
                 PROVE  got'[q][b] = 0
      OBVIOUS
    <3>1. \A e \in run.plan[r].top : e.birth # b
      <4>1. births \in Nat /\ b \in Nat
        BY DigestAssumption DEF DigestInv, TypeOK, Birth
      <4>2. QED
        BY <2>1, <4>1
    <3>2. got[q][b] = 0
      BY DEF DigestInv, GotInv
    <3>3. QED
      BY <1>3, <3>1, <3>2
  <2>4. ASSUME NEW q \in Recipient, NEW i \in Id, table[i] # 0,
               row[q][i] \in {"pending", "digest_skipped"}
        PROVE  got'[q][table[i]] = 0
    <3>4. table \in [Id -> 0..MaxBirths] /\ MaxBirths \in Nat
      BY DigestAssumption DEF DigestInv, TypeOK
    <3>5. table[i] \in Birth
      BY <2>4, <3>4 DEF Birth
    <3>1. got[q][table[i]] = 0
      BY <2>4 DEF DigestInv, GotInv
    <3>2. ASSUME q = r, NEW e \in run.plan[r].top
          PROVE  e.birth # table[i]
      <4>1. e \in Entries(r)
        BY DEF Entries
      <4>2. table[i] = e.birth => i = e.id
        BY <4>1 DEF DigestInv, RunInv, PlanInv
      <4>3. table[e.id] = e.birth => row[r][e.id] \in {"digest_attempted", "none"}
        BY <1>1 DEF DigestInv, RunInv, ReservedInv
      <4>4. QED
        BY <2>4, <3>2, <4>2, <4>3
    <3>3. QED
      BY <1>3, <3>1, <3>2, <3>5
  <2>5. ASSUME NEW q \in Recipient, Yet(q)', NEW e \in Entries(q)
        PROVE  got'[q][e.birth] = 0 /\ (table[e.id] # 0 => got'[q][table[e.id]] = 0)
    <3>1. Yet(q) /\ q # r
      BY <1>5, <2>5
    <3>2. got[q][e.birth] = 0 /\ (table[e.id] # 0 => got[q][table[e.id]] = 0)
      BY <3>1 DEF DigestInv, GotInv
    <3>3. e.birth \in Birth /\ (table[e.id] # 0 => table[e.id] \in Birth)
      BY <1>6, <1>a
    <3>4. QED
      BY <1>3, <3>1, <3>2, <3>3
  <2>6. \A q \in run'.cur : run'.pc = "accepted" =>
          \A e \in run'.plan[q].top : got'[q][e.birth] > 0
    BY <1>2, <1>5, <2>1
  <2>7. QED
    BY <1>1, <1>5, <2>2, <2>3, <2>4, <2>5, <2>6 DEF GotInv
<1>11. DayInv'
  <2>1. run.day \in ran /\ run.day \in Day /\ digests[r][run.day] = 0
    BY <1>1, <1>5 DEF DigestInv, TypeOK, DayInv
  <2>2. OneDigestADay'
    BY <1>4, <2>1 DEF DigestInv, DayInv, OneDigestADay
  <2>3. \A q \in Recipient, d \in Day : d \notin ran => digests'[q][d] = 0
    BY <1>4, <2>1 DEF DigestInv, DayInv
  <2>4. \A q \in Recipient : Yet(q)' => digests'[q][run.day] = 0
    BY <1>4, <1>5, <2>1 DEF DigestInv, DayInv
  <2>5. QED
    BY <1>1, <1>2, <2>1, <2>2, <2>3, <2>4 DEF DayInv
<1>12. SentIsHonest'
  <2> SUFFICES ASSUME NEW q \in Recipient, NEW i \in Id, row[q][i] = "sent"
               PROVE  got'[q][table[i]] > 0 \/ table[i] \in swapped
    BY <1>1 DEF SentIsHonest
  <2>1. table[i] \in Birth
    <3>1. table[i] # 0
      BY DEF DigestInv, StoreInv
    <3>2. QED
      BY <1>a, <3>1
  <2>2. QED
    BY <1>9, <2>1 DEF DigestInv, SentIsHonest
<1>13. BlockedInv'
  BY <1>1, <1>2, <1>5 DEF DigestInv, BlockedInv
<1>14. QED
  BY <1>7, <1>8, <1>10, <1>11, <1>12, <1>13, DigestInvPrimed

-----------------------------------------------------------------------------
\* Every step keeps it all.
LEMMA NextDigest == DigestInv /\ [Next]_vars => DigestInv'
<1> SUFFICES ASSUME DigestInv, [Next]_vars PROVE DigestInv'
  OBVIOUS
<1>1. TypeOK'
  BY NextType DEF DigestInv
<1>2. CASE Edit \/ Reload \/ UNCHANGED vars
  BY <1>1, <1>2, SettingsDigest DEF Edit, Reload, vars, history, database
<1>3. CASE Tick \/ Finish \/ CommitFails \/ Crash \/ Plan
  BY <1>1, <1>3, TickDigest, EndDigest, PlanDigest
<1>4. CASE NewDay \/ Hold \/ \E i \in Id : Delete(i)
  BY <1>1, <1>4, NewDayDigest, HoldDigest, DeleteDigest
<1>5. ASSUME NEW r \in Recipient,
             \/ Reserve(r) \/ CallBot(r) \/ TakeBack(r) \/ BotAccepts(r) \/ BotAnswers(r)
             \/ BotFails(r)
      PROVE  DigestInv'
  BY <1>1, <1>5, ReserveDigest, CallDigest, BackDigest, AcceptDigest, AnswerDigest, FailDigest
<1>6. QED
  BY <1>2, <1>3, <1>4, <1>5 DEF Next, Step

\* It is an invariant.
LEMMA Digests == Spec => []DigestInv
BY InitDigest, NextDigest, PTL DEF Spec

\* Nobody gets a match in two digests, on whatever days, whatever calls fail or are lost,
\* whatever is deleted and edited, and wherever the listener dies (digest.py:245-250).
THEOREM ItemOnce == Spec => []ItemAtMostOnce
<1>1. DigestInv => ItemAtMostOnce
  BY DEF DigestInv, GotInv
<1>2. QED
  BY <1>1, Digests, PTL

\* Nobody gets two digests for a day, however often the scheduler looks and the listener
\* restarts on that day (the row of digest_run comes first).
THEOREM OncePerDay == Spec => []OneDigestADay
<1>1. DigestInv => OneDigestADay
  BY DEF DigestInv, DayInv
<1>2. QED
  BY <1>1, Digests, PTL

\* What says sent was in a digest Telegram accepted, but for a match that took the id of a
\* deleted one while a plan held it.
THEOREM SentWasAccepted == Spec => []SentIsHonest
<1>1. DigestInv => SentIsHonest
  BY DEF DigestInv
<1>2. QED
  BY <1>1, Digests, PTL

\* Nothing stays attempted or skipped for which no call was started: a local block leaves
\* the whole queue of a recipient pending, unless the listener is stopped in between.
THEOREM BlockLeavesPending == Spec => []BlockedStaysPending
<1>1. DigestInv => BlockedStaysPending
  BY DEF DigestInv, BlockedInv, BlockedStaysPending
<1>2. QED
  BY <1>1, Digests, PTL
=============================================================================
