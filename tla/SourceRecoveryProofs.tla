------------------------- MODULE SourceRecoveryProofs -------------------------
(***************************************************************************)
(* Theorems about SourceRecovery, for every number of messages, every limit  *)
(* of a catch-up and every budget of disturbances.                          *)
(***************************************************************************)
EXTENDS SourceRecovery, FiniteSetTheorems, TLAPS

\* Messages that get a verdict leave a table of verdicts.
LEMMA DecidedType ==
  ASSUME TypeOK, NEW M, NEW as \in {"none", "alerted", "historical"}
  PROVE  Decided(verdict, M, as) \in [Msg -> {"none", "alerted", "historical"}]
BY DEF Decided, TypeOK

\* The cursor moves to a posted message, and never back.
LEMMA AdvancedType ==
  ASSUME TypeOK, NEW m \in 0..posted
  PROVE  /\ Advanced(cursor, m) \in {NoCursor} \cup 0..posted
         /\ Advanced(cursor, m) >= cursor
BY RecoveryAssumption DEF Advanced, TypeOK, NoCursor

\* Spending leaves the budget a budget.
LEMMA SpendType ==
  ASSUME TypeOK, NEW d \in Disturbance, Spend(d)
  PROVE  left' \in [Disturbance -> Nat]
BY DEF Spend, TypeOK

\* The floor stays a floor when a failure is added.
LEMMA WithFailureType ==
  ASSUME NEW n \in Nat, NEW f \in 0..n, NEW m \in 0..n
  PROVE  WithFailure(f, m) \in 0..n
BY DEF WithFailure

\* The newest message of the group is one that was posted.
LEMMA LastIdType == TypeOK => LastId \in 0..posted
BY RecoveryAssumption DEF LastId, TypeOK, NoCursor

\* A backfill is a list of posted messages.
LEMMA BackfillType ==
  ASSUME TypeOK, NEW from
  PROVE  Backfill(from) \subseteq 1..posted
BY RecoveryAssumption DEF Backfill, Newer, Msg, TypeOK

\* The holder of the lock at rest is one of its states.
LEMMA IdleWorkType == IdleWork \in Work
BY RecoveryAssumption DEF IdleWork, Work

\* What the boot, the catch-up and the reload hold is about posted messages.
WorkBounds ==
  /\ work.from \in 0..posted /\ work.floor \in 0..posted
  /\ work.todo \subseteq 1..posted

Inv == TypeOK /\ WorkBounds

\* The types hold at the start.
LEMMA InitType == Init => Inv
<1> SUFFICES ASSUME Init PROVE Inv
  OBVIOUS
<1>1. /\ left \in [Disturbance -> Nat]
      /\ verdict \in [Msg -> {"none", "alerted", "historical"}]
      /\ work \in Work
  BY RecoveryAssumption, IdleWorkType DEF Init
<1>2. WorkBounds
  BY DEF Init, WorkBounds, IdleWork
<1>3. /\ posted \in 0..Horizon /\ aged \in 0..posted /\ failed \in 0..posted
      /\ live \subseteq 1..posted /\ offLimits \subseteq 1..posted
  BY RecoveryAssumption DEF Init
<1>4. QED
  BY <1>1, <1>2, <1>3 DEF Init, Inv, TypeOK

\* The conjuncts of Inv by what they are about, for steps that leave most alone.
GroupType ==
  /\ posted \in 0..Horizon /\ aged \in 0..posted /\ online \in BOOLEAN
  /\ taken \subseteq 1..posted /\ missed \subseteq 1..posted /\ offLimits \subseteq 1..posted
StoreType ==
  /\ active \in BOOLEAN /\ cursor \in {NoCursor} \cup 0..posted
  /\ verdict \in [Msg -> {"none", "alerted", "historical"}]
MemoryType ==
  /\ phase \in {"down", "prepare", "registered", "started"} /\ listed \in BOOLEAN
  /\ live \subseteq 1..posted /\ failed \in 0..posted
  /\ scan \in {NoScan} \cup 0..posted /\ pending \in BOOLEAN
WorkType == work \in Work /\ WorkBounds
LeftType == left \in [Disturbance -> Nat]

\* Type correctness, part by part.
LEMMA Parts == Inv <=> GroupType /\ StoreType /\ MemoryType /\ WorkType /\ LeftType
BY DEF Inv, TypeOK, GroupType, StoreType, MemoryType, WorkType, LeftType

\* The same of the next state.
LEMMA PartsPrimed ==
  ASSUME GroupType', StoreType', MemoryType', WorkType', LeftType'
  PROVE  Inv'
BY DEF Inv, TypeOK, GroupType, StoreType, MemoryType, WorkType, LeftType

\* A message is posted: types.
LEMMA PostType == ASSUME Inv, Post PROVE Inv'
<1>1. posted' = posted + 1 /\ posted' \in 0..Horizon /\ posted \in Nat
  BY RecoveryAssumption DEF Post, Inv, TypeOK
<1>a. /\ 1..posted \subseteq 1..posted' /\ 0..posted \subseteq 0..posted'
      /\ posted + 1 \in 1..posted'
  BY <1>1
<1>2. GroupType'
  BY <1>1, <1>a DEF Post, Inv, TypeOK, GroupType
<1>3. StoreType'
  BY <1>1 DEF Post, Inv, TypeOK, StoreType
<1>4. MemoryType'
  BY <1>a DEF Post, Inv, TypeOK, MemoryType
<1>5. WorkType'
  BY <1>1 DEF Post, Inv, TypeOK, WorkBounds, WorkType
<1>6. LeftType'
  BY SpendType DEF Post, Inv, TypeOK, LeftType, Disturbance
<1>7. QED
  BY <1>2, <1>3, <1>4, <1>5, <1>6, PartsPrimed

\* Ageing, the connection and the panel: types.
LEMMA OutsideType ==
  ASSUME Inv, Age \/ Disconnect \/ Reconnect \/ Edit
  PROVE  Inv'
<1>1. LeftType'
  BY SpendType DEF Age, Disconnect, Reconnect, Edit, Inv, TypeOK, LeftType, Disturbance
<1>a. aged' \in 0..posted
  BY RecoveryAssumption DEF Age, Disconnect, Reconnect, Edit, Inv, TypeOK, telegram
<1>2. GroupType'
  BY <1>a DEF Age, Disconnect, Reconnect, Edit, Inv, TypeOK, GroupType, telegram, history
<1>3. StoreType' /\ MemoryType' /\ WorkType'
  BY DEF Age, Disconnect, Reconnect, Edit, Inv, TypeOK, StoreType, MemoryType, WorkType,
     WorkBounds, telegram, process
<1>4. QED
  BY <1>1, <1>2, <1>3, PartsPrimed

\* A step of a handler or of a catch-up about message m.
LEMMA OneMessageType ==
  ASSUME Inv, NEW m \in 1..posted,
         \/ HandleLive(m) \/ LiveFails(m) \/ Recover(m) \/ RecoverFails(m)
  PROVE  Inv'
<1>1. posted \in Nat /\ m \in 0..posted
  BY RecoveryAssumption DEF Inv, TypeOK
<1>2. GroupType'
  BY DEF HandleLive, LiveFails, Recover, RecoverFails, Inv, TypeOK, GroupType,
         telegram, history
<1>3. StoreType'
  BY <1>1, AdvancedType, DecidedType
     DEF HandleLive, LiveFails, Recover, RecoverFails, Inv, TypeOK, StoreType, telegram
<1>4. MemoryType'
  BY <1>1, WithFailureType
     DEF HandleLive, LiveFails, Recover, RecoverFails, Inv, TypeOK, MemoryType, telegram
<1>5. WorkType'
  BY DEF HandleLive, LiveFails, Recover, RecoverFails, Inv, TypeOK, WorkType, WorkBounds,
         Work, telegram
<1>6. LeftType'
  BY SpendType DEF HandleLive, LiveFails, Recover, RecoverFails, Inv, TypeOK, LeftType,
         Disturbance
<1>7. QED
  BY <1>2, <1>3, <1>4, <1>5, <1>6, PartsPrimed

\* The catch-up: types.
LEMMA CatchUpType ==
  ASSUME Inv, CatchUp \/ Fetch \/ FetchFails \/ CaughtUp
  PROVE  Inv'
<1>1. posted \in Nat /\ LastId \in 0..posted
  BY LastIdType, RecoveryAssumption DEF Inv, TypeOK
<1>2. GroupType'
  BY DEF CatchUp, Fetch, FetchFails, CaughtUp, Inv, TypeOK, GroupType, telegram, history
<1>3. StoreType'
  <2>1. CASE Fetch
    <3>1. Backfill(work.from) \subseteq 1..posted
      BY BackfillType DEF Inv
    <3>2. QED
      BY <1>1, <2>1, <3>1, AdvancedType DEF Fetch, Inv, TypeOK, StoreType, telegram
  <2>2. QED
    BY <2>1 DEF CatchUp, FetchFails, CaughtUp, Inv, TypeOK, StoreType, telegram
<1>4. MemoryType'
  BY <1>1, WithFailureType
     DEF CatchUp, Fetch, FetchFails, CaughtUp, Inv, TypeOK, WorkBounds, MemoryType, telegram
<1>5. WorkType'
  <2>1. CASE Fetch
    <3>1. Backfill(work.from) \subseteq 1..posted
      BY BackfillType DEF Inv
    <3>2. 1..posted \subseteq Msg
      BY RecoveryAssumption DEF Inv, TypeOK, Msg
    <3>3. QED
      BY <2>1, <3>1, <3>2 DEF Fetch, Inv, TypeOK, WorkType, WorkBounds, Work, telegram
  <2>2. CASE CatchUp
    <3> DEFINE start == IF failed # 0 /\ failed <= LastId THEN failed - 1 ELSE LastId
    <3>a. start \in 0..posted
      BY <1>1 DEF Inv, TypeOK
    <3>b. work' = [IdleWork EXCEPT !.pc = "fetch", !.floor = failed, !.from = start]
      BY <2>2 DEF CatchUp
    <3> HIDE DEF start
    <3>1. PICK from \in 0..posted :
            work' = [IdleWork EXCEPT !.pc = "fetch", !.floor = failed, !.from = from]
      BY <3>a, <3>b
    <3>2. work' = [pc |-> "fetch", from |-> from, floor |-> failed, todo |-> {}]
      BY <3>1 DEF IdleWork
    <3>3. 0..posted \subseteq 0..Horizon /\ failed \in 0..posted /\ posted' = posted
      BY <2>2, RecoveryAssumption DEF CatchUp, Inv, TypeOK, telegram
    <3>4. QED
      BY <3>2, <3>3 DEF WorkType, WorkBounds, Work
  <2>3. CASE FetchFails
    BY <1>1, <2>3, IdleWorkType
       DEF FetchFails, Inv, TypeOK, WorkType, WorkBounds, IdleWork, telegram
  <2>4. CASE CaughtUp
    <3>1. work' = IdleWork \/ work' = [IdleWork EXCEPT !.pc = "scan"]
      BY <2>4 DEF CaughtUp
    <3>2. PICK pc \in {"idle", "scan"} :
            work' = [pc |-> pc, from |-> 0, floor |-> 0, todo |-> {}]
      BY <3>1 DEF IdleWork
    <3>3. 0 \in 0..Horizon /\ 0 \in 0..posted /\ posted' = posted
      BY <1>1, <2>4, RecoveryAssumption DEF CaughtUp, telegram
    <3>4. QED
      BY <3>2, <3>3 DEF WorkType, WorkBounds, Work
  <2>5. QED
    BY <2>1, <2>2, <2>3, <2>4
<1>6. LeftType'
  BY SpendType DEF CatchUp, Fetch, FetchFails, CaughtUp, Inv, TypeOK, LeftType, Disturbance
<1>7. QED
  BY <1>2, <1>3, <1>4, <1>5, <1>6, PartsPrimed

\* An idle record, or one for a scan, is about no message.
LEMMA FreshWorkType ==
  ASSUME Inv, posted' = posted, NEW pc \in {"idle", "scan"},
         work' = [pc |-> pc, from |-> 0, floor |-> 0, todo |-> {}]
  PROVE  WorkType'
<1>1. 0 \in 0..Horizon /\ 0 \in 0..posted
  BY RecoveryAssumption DEF Inv, TypeOK
<1>2. QED
  BY <1>1 DEF WorkType, WorkBounds, Work

\* The holder of the lock at the start of its next stage: types.
LEMMA BusyWorkType ==
  ASSUME Inv, posted' = posted, NEW pc \in {"head", "fetch"}, NEW from \in 0..posted,
         work' = [pc |-> pc, from |-> from, floor |-> 0, todo |-> {}]
  PROVE  WorkType'
<1>1. 0 \in 0..Horizon /\ 0 \in 0..posted /\ from \in 0..Horizon
  BY RecoveryAssumption DEF Inv, TypeOK
<1>2. QED
  BY <1>1 DEF WorkType, WorkBounds, Work

\* The configuration is swapped: types.
LEMMA ApplyConfigType == ASSUME Inv, ApplyConfig PROVE Inv'
<1>1. posted' = posted /\ posted \in 0..posted
  BY RecoveryAssumption DEF ApplyConfig, telegram, Inv, TypeOK
<1>2. GroupType' /\ StoreType'
  BY DEF ApplyConfig, Inv, TypeOK, GroupType, StoreType, telegram, history
<1>3. MemoryType'
  BY <1>1 DEF ApplyConfig, Inv, TypeOK, MemoryType
<1>4. WorkType'
  <2>1. CASE work' = [IdleWork EXCEPT !.pc = "head", !.from = posted]
    <3>1. work' = [pc |-> "head", from |-> posted, floor |-> 0, todo |-> {}]
      BY <2>1 DEF IdleWork
    <3>2. QED
      BY <1>1, <3>1, BusyWorkType
  <2>2. CASE work' = [IdleWork EXCEPT !.pc = "scan"]
    <3>1. work' = [pc |-> "scan", from |-> 0, floor |-> 0, todo |-> {}]
      BY <2>2 DEF IdleWork
    <3>2. QED
      BY <1>1, <3>1, FreshWorkType
  <2>3. CASE UNCHANGED work
    BY <1>1, <2>3 DEF Inv, TypeOK, WorkType, WorkBounds
  <2>4. QED
    BY <2>1, <2>2, <2>3 DEF ApplyConfig
<1>5. LeftType'
  BY SpendType DEF ApplyConfig, Inv, LeftType, Disturbance
<1>6. QED
  BY <1>2, <1>3, <1>4, <1>5, PartsPrimed

\* The cursor of a source that was added moves to the head, or cannot: types.
LEMMA HeadType ==
  ASSUME Inv, MoveToHead \/ HeadFails
  PROVE  Inv'
<1>1. posted' = posted /\ posted \in 0..posted
  BY RecoveryAssumption DEF MoveToHead, HeadFails, telegram, Inv, TypeOK
<1>2. GroupType' /\ MemoryType'
  BY <1>1 DEF MoveToHead, HeadFails, Inv, TypeOK, GroupType, MemoryType, telegram, history
<1>3. StoreType'
  BY <1>1, AdvancedType
     DEF MoveToHead, HeadFails, Inv, TypeOK, WorkBounds, StoreType
<1>4. WorkType'
  <2>1. CASE work' = IdleWork \/ work' = [IdleWork EXCEPT !.pc = "scan"]
    <3>1. PICK pc \in {"idle", "scan"} :
            work' = [pc |-> pc, from |-> 0, floor |-> 0, todo |-> {}]
      BY <2>1 DEF IdleWork
    <3>2. QED
      BY <1>1, <3>1, FreshWorkType
  <2>2. CASE work' = [work EXCEPT !.from = posted]
    BY <1>1, <2>2, RecoveryAssumption DEF Inv, TypeOK, Work, WorkType, WorkBounds
  <2>3. QED
    BY <2>1, <2>2 DEF MoveToHead, HeadFails
<1>5. LeftType'
  BY SpendType DEF MoveToHead, HeadFails, Inv, TypeOK, LeftType, Disturbance
<1>6. QED
  BY <1>2, <1>3, <1>4, <1>5, PartsPrimed

\* The historical scan: types.
LEMMA ScanType ==
  ASSUME Inv, Scan \/ ScanFails
  PROVE  Inv'
<1>1. posted' = posted
  BY DEF Scan, ScanFails, telegram
<1>2. GroupType' /\ MemoryType'
  BY <1>1 DEF Scan, ScanFails, EndScan, Inv, TypeOK, GroupType, MemoryType, telegram, history
<1>3. StoreType'
  BY <1>1, DecidedType DEF Scan, ScanFails, Inv, TypeOK, StoreType
<1>4. WorkType'
  <2>1. CASE work' = IdleWork
    <3>1. work' = [pc |-> "idle", from |-> 0, floor |-> 0, todo |-> {}]
      BY <2>1 DEF IdleWork
    <3>2. QED
      BY <1>1, <3>1, FreshWorkType
  <2>2. CASE work' = work
    BY <1>1, <2>2 DEF Inv, TypeOK, WorkType, WorkBounds
  <2>3. QED
    BY <2>1, <2>2 DEF Scan, ScanFails, EndScan
<1>5. LeftType'
  BY SpendType DEF Scan, ScanFails, Inv, TypeOK, LeftType, Disturbance
<1>6. QED
  BY <1>2, <1>3, <1>4, <1>5, PartsPrimed

\* The listener boots: types.
LEMMA BootType == ASSUME Inv, Boot PROVE Inv'
<1>1. posted' = posted /\ posted \in 0..posted
  BY RecoveryAssumption DEF Boot, Inv, TypeOK
<1>2. GroupType' /\ StoreType' /\ MemoryType' /\ LeftType'
  BY <1>1 DEF Boot, Inv, TypeOK, GroupType, StoreType, MemoryType, LeftType, history
<1>3. WorkType'
  <2>1. CASE work' = IdleWork
    <3>1. work' = [pc |-> "idle", from |-> 0, floor |-> 0, todo |-> {}]
      BY <2>1 DEF IdleWork
    <3>2. QED
      BY <1>1, <3>1, FreshWorkType
  <2>2. CASE work' = [IdleWork EXCEPT !.pc = "head", !.from = posted]
    <3>1. work' = [pc |-> "head", from |-> posted, floor |-> 0, todo |-> {}]
      BY <2>2 DEF IdleWork
    <3>2. QED
      BY <1>1, <3>1, BusyWorkType
  <2>3. CASE cursor # NoCursor /\ work' = [IdleWork EXCEPT !.pc = "fetch", !.from = cursor]
    <3>1. work' = [pc |-> "fetch", from |-> cursor, floor |-> 0, todo |-> {}]
      BY <2>3 DEF IdleWork
    <3>2. PICK from \in 0..posted : from = cursor
      BY <2>3 DEF Inv, TypeOK
    <3>3. QED
      BY <1>1, <3>1, <3>2, BusyWorkType
  <2>4. QED
    BY <2>1, <2>2, <2>3 DEF Boot
<1>4. QED
  BY <1>2, <1>3, PartsPrimed

\* The process dies, at any time or while it boots: types.
LEMMA DiesType ==
  ASSUME Inv, Crash \/ BootFails
  PROVE  Inv'
<1>1. posted' = posted /\ Dies
  BY DEF Crash, BootFails, Dies
<1>a. 0 \in 0..posted
  BY RecoveryAssumption DEF Inv, TypeOK
<1>2. GroupType' /\ StoreType' /\ MemoryType'
  BY <1>1, <1>a DEF Dies, Inv, TypeOK, GroupType, StoreType, MemoryType
<1>3. WorkType'
  <2>1. work' = [pc |-> "idle", from |-> 0, floor |-> 0, todo |-> {}]
    BY <1>1 DEF Dies, IdleWork
  <2>2. QED
    BY <1>1, <2>1, FreshWorkType
<1>4. LeftType'
  BY SpendType DEF Crash, BootFails, Inv, LeftType, Disturbance
<1>5. QED
  BY <1>2, <1>3, <1>4, PartsPrimed

\* Every step keeps the types.
LEMMA NextType == Inv /\ [Next]_vars => Inv'
<1> SUFFICES ASSUME Inv, [Next]_vars PROVE Inv'
  OBVIOUS
<1>1. live \subseteq 1..posted /\ work.todo \subseteq 1..posted
  BY DEF Inv, TypeOK, WorkBounds
<1>2. CASE Post \/ Age \/ Edit \/ ApplyConfig \/ Boot \/ Reconnect
  BY <1>2, PostType, OutsideType, ApplyConfigType, BootType
<1>3. CASE \E m \in live : HandleLive(m)
  BY <1>1, <1>3, OneMessageType
<1>4. CASE CatchUpStep
  BY <1>1, <1>4, CatchUpType, OneMessageType DEF CatchUpStep
<1>5. CASE ReloadStep
  BY <1>5, HeadType, ScanType DEF ReloadStep
<1>6. CASE Disturb
  BY <1>1, <1>6, CatchUpType, HeadType, ScanType, DiesType, OutsideType, OneMessageType
     DEF Disturb
<1>7. CASE UNCHANGED vars
  BY <1>7 DEF vars, Inv, TypeOK, WorkBounds
<1>8. QED
  BY <1>2, <1>3, <1>4, <1>5, <1>6, <1>7 DEF Next

\* They are an invariant.
LEMMA Types == Spec => []Inv
<1>1. QED
  BY InitType, NextType, PTL DEF Spec

\* Type correctness: cursor, floor, scan bound and whatever is fetched are posted messages.
THEOREM TypeCorrect == Spec => []TypeOK
<1>1. Inv => TypeOK
  BY DEF Inv
<1>2. QED
  BY <1>1, Types, PTL

-----------------------------------------------------------------------------
\* The cursor never moves back.
THEOREM CursorMonotone == Spec => CursorIsMonotone
<1>1. ASSUME Inv, [Next]_vars PROVE cursor' >= cursor
  <2>1. cursor \in Int
    BY <1>1, RecoveryAssumption DEF Inv, TypeOK, NoCursor
  <2>2. \A m \in 0..posted : Advanced(cursor, m) >= cursor
    BY <1>1, AdvancedType DEF Inv
  <2>3. /\ live \subseteq 0..posted /\ work.todo \subseteq 0..posted
        /\ work.from \in 0..posted
        /\ Backfill(work.from) \subseteq 0..posted
    BY <1>1, BackfillType, RecoveryAssumption DEF Inv, TypeOK, WorkBounds
  <2>4. CASE UNCHANGED vars
    BY <2>1, <2>4 DEF vars
  <2>5. CASE \E m \in live : HandleLive(m) \/ LiveFails(m)
    <3>1. PICK m \in live : cursor' = cursor \/ cursor' = Advanced(cursor, m)
      BY <2>5 DEF HandleLive, LiveFails
    <3>2. QED
      BY <2>1, <2>2, <2>3, <3>1
  <2>6. CASE CatchUpStep
    <3>1. CASE CatchUp \/ CaughtUp
      BY <2>1, <3>1 DEF CatchUp, CaughtUp
    <3>2. CASE Fetch
      BY <2>1, <2>2, <2>3, <3>2 DEF Fetch
    <3>3. CASE \E m \in work.todo : Recover(m)
      BY <2>2, <2>3, <3>3 DEF Recover
    <3>4. QED
      BY <2>6, <3>1, <3>2, <3>3 DEF CatchUpStep
  <2>7. CASE ReloadStep
    BY <2>1, <2>2, <2>3, <2>7 DEF ReloadStep, MoveToHead, Scan
  <2>8. CASE FetchFails \/ HeadFails \/ ScanFails \/ Disconnect
             \/ \E m \in work.todo : RecoverFails(m)
    BY <2>1, <2>8 DEF FetchFails, HeadFails, ScanFails, Disconnect, RecoverFails
  <2>9. CASE Crash \/ BootFails
    BY <2>1, <2>9 DEF Crash, BootFails, Dies
  <2>10. CASE Post \/ Age \/ Edit \/ ApplyConfig \/ Boot \/ Reconnect
    BY <2>1, <2>10 DEF Post, Age, Edit, ApplyConfig, Boot, Reconnect
  <2>11. QED
    BY <1>1, <2>4, <2>5, <2>6, <2>7, <2>8, <2>9, <2>10 DEF Next, Disturb
<1>2. ASSUME Inv, [Next]_vars PROVE [cursor' >= cursor]_vars
  BY <1>1, <1>2
<1>3. QED
  BY <1>2, Types, PTL DEF Spec, CursorIsMonotone

-----------------------------------------------------------------------------
(* No message a handler took over is forgotten.  That it is above the cursor   *)
(* does not keep a message: the next live message moves the cursor past it.    *)
(* What keeps it is its handler, the floor of the failures, or the catch-up    *)
(* that took the floor out.                                                    *)
Held(m) ==
  \/ m \in live
  \/ failed # 0 /\ failed <= m
  \/ work.pc = "fetch" /\ work.floor # 0 /\ work.floor <= m /\ work.from < m
  \/ work.pc = "process" /\ m \in work.todo
Kept == \A m \in taken : verdict[m] = "none" => Held(m) \/ ~WithinReach(m)
KInv == Inv /\ Kept /\ (phase = "down" => taken = {})

\* The floor takes a failure in and keeps the earlier ones.
LEMMA FloorKeeps ==
  ASSUME NEW f \in Nat, NEW g \in Nat, NEW m \in Nat,
         (f # 0 /\ f <= m) \/ (g # 0 /\ g <= m)
  PROVE  WithFailure(f, g) # 0 /\ WithFailure(f, g) <= m
BY DEF WithFailure

\* Once out of reach, always out of reach.
LEMMA ReachShrinks ==
  ASSUME Inv, Inv', posted <= posted', aged <= aged', NEW m \in Nat, WithinReach(m)'
  PROVE  WithinReach(m)
<1>1. Newer(m) \subseteq Newer(m)'
  BY RecoveryAssumption DEF Newer, Inv, TypeOK, Msg
<1>2. IsFiniteSet(Newer(m)')
  <2>1. Newer(m)' \subseteq 1..posted' /\ posted' \in Int
    BY RecoveryAssumption DEF Newer, Inv, TypeOK, Msg
  <2>2. IsFiniteSet(1..posted')
    BY <2>1, FS_Interval
  <2>3. QED
    BY <2>1, <2>2, FS_Subset
<1>3. Cardinality(Newer(m)) <= Cardinality(Newer(m)')
  BY <1>1, <1>2, FS_Subset
<1>4. Cardinality(Newer(m)) \in Nat /\ Cardinality(Newer(m)') \in Nat
  BY <1>1, <1>2, FS_Subset, FS_CardinalityType
<1>5. QED
  BY <1>3, <1>4, RecoveryAssumption DEF WithinReach, Inv, TypeOK

\* A step that takes nothing over and keeps hold of what is within reach.
LEMMA KeptFrame ==
  ASSUME Inv, Inv', Kept, posted' = posted, aged <= aged', taken' = taken,
         \A m \in taken : verdict'[m] = "none" =>
           verdict[m] = "none" /\ (Held(m) /\ WithinReach(m) => Held(m)')
  PROVE  Kept'
<1>1. posted <= posted' /\ taken \subseteq Nat
  BY RecoveryAssumption DEF Inv, TypeOK
<1>2. \A m \in taken : WithinReach(m)' => WithinReach(m)
  BY <1>1, ReachShrinks
<1>3. QED
  BY <1>2 DEF Kept

\* Every step keeps hold of what was taken over.
LEMMA NextKept == KInv /\ [Next]_vars => KInv'
<1> SUFFICES ASSUME KInv, [Next]_vars PROVE KInv'
  OBVIOUS
<1>1. Inv /\ Inv' /\ Kept
  BY NextType DEF KInv
<1>2. aged \in Int /\ aged <= aged /\ taken \subseteq Msg /\ failed \in Nat
  BY <1>1, RecoveryAssumption DEF Inv, TypeOK, Msg
<1>3. (phase = "down" => taken = {})'
  BY DEF KInv, Next, Post, Age, Edit, ApplyConfig, Boot, Reconnect, HandleLive, CatchUpStep,
         CatchUp, Fetch, CaughtUp, Recover, ReloadStep, MoveToHead, Scan, EndScan, Disturb,
         FetchFails, HeadFails, ScanFails, Crash, BootFails, Dies, Disconnect, LiveFails,
         RecoverFails, Listening, vars, process, history
<1>4. Kept'
  <2>1. CASE Post
    <3>1. posted <= posted' /\ aged <= aged'
      BY <1>1, <1>2, <2>1, RecoveryAssumption DEF Post, Inv, TypeOK
    <3>2. \A m \in taken : WithinReach(m)' => WithinReach(m)
      BY <1>1, <1>2, <3>1, ReachShrinks DEF Msg
    <3>3. \A m \in taken : Held(m) => Held(m)'
      BY <2>1 DEF Post, Held
    <3>4. \A m \in taken' : m \in taken \/ m \in live'
      BY <2>1 DEF Post
    <3>5. QED
      BY <2>1, <1>1, <3>2, <3>3, <3>4 DEF Kept, Held, Post
  <2>2. CASE Age
    <3>1. aged <= aged'
      BY <1>2, <2>2 DEF Age
    <3>2. QED
      BY <1>1, <2>2, <3>1, KeptFrame DEF Age, Held, process, history
  <2>3. CASE Edit \/ Disconnect \/ Reconnect \/ UNCHANGED vars
    BY <1>1, <1>2, <2>3, KeptFrame
       DEF Edit, Disconnect, Reconnect, vars, Held, telegram, process, history
  <2>4. CASE ApplyConfig
    BY <1>1, <1>2, <2>4, KeptFrame DEF ApplyConfig, Held, telegram, history
  <2>5. CASE Boot \/ Crash \/ BootFails
    <3>1. taken' = {}
      BY <2>5 DEF KInv, Boot, Crash, BootFails, Dies, history
    <3>2. QED
      BY <3>1 DEF Kept
  <2>6. ASSUME NEW n \in live, HandleLive(n)
        PROVE  Kept'
    <3>1. \A m \in taken : verdict'[m] = "none" => verdict[m] = "none" /\ m # n
      BY <1>2, <2>6 DEF HandleLive, Decided
    <3>2. QED
      BY <1>1, <1>2, <2>6, <3>1, KeptFrame DEF HandleLive, Held, telegram, history
  <2>7. ASSUME NEW n \in live, LiveFails(n)
        PROVE  Kept'
    <3>1. n \in Nat \ {0}
      BY <1>1, RecoveryAssumption DEF Inv, TypeOK
    <3>2. \A m \in taken : Held(m) => Held(m)'
      <4>1. live' = live \ {n} /\ work' = work /\ failed' = WithFailure(failed, n)
        BY <2>7 DEF LiveFails
      <4>2. \A m \in taken : m = n \/ (failed # 0 /\ failed <= m)
                              => failed' # 0 /\ failed' <= m
        BY <1>2, <3>1, <4>1, FloorKeeps DEF Msg
      <4>3. QED
        BY <4>1, <4>2 DEF Held
    <3>3. QED
      BY <1>1, <1>2, <2>7, <3>2, KeptFrame DEF LiveFails, telegram, history
  <2>8. CASE CatchUp
    <3>1. \A m \in taken : Held(m) => Held(m)'
      <4>1. LastId \in Nat /\ failed \in Nat
        BY <1>1, <1>2, LastIdType, RecoveryAssumption DEF Inv, TypeOK
      <4> DEFINE start == IF failed # 0 /\ failed <= LastId THEN failed - 1 ELSE LastId
      <4>2. work'.pc = "fetch" /\ work'.floor = failed /\ work'.from = start
        BY <2>8 DEF CatchUp, IdleWork
      <4>3. \A m \in taken : failed # 0 /\ failed <= m => start < m
        BY <1>2, <4>1 DEF Msg
      <4>4. QED
        BY <2>8, <4>2, <4>3 DEF CatchUp, Held
    <3>2. QED
      BY <1>1, <1>2, <2>8, <3>1, KeptFrame DEF CatchUp, telegram, history
  <2>9. CASE Fetch
    <3>1. \A m \in taken : WithinReach(m) /\ work.from < m => m \in Backfill(work.from)
      BY <1>1, RecoveryAssumption DEF WithinReach, Backfill, Newer, Inv, TypeOK, Msg, WorkBounds
    <3>2. work' = [work EXCEPT !.pc = "process", !.todo = Backfill(work.from)]
      BY <2>9 DEF Fetch
    <3>3. work'.pc = "process" /\ work'.todo = Backfill(work.from)
      BY <1>1, <3>2 DEF Inv, TypeOK, Work
    <3>4. \A m \in taken : Held(m) /\ WithinReach(m) => Held(m)'
      BY <2>9, <3>1, <3>3 DEF Fetch, Held
    <3>5. QED
      BY <1>1, <1>2, <2>9, <3>4, KeptFrame DEF Fetch, telegram, history
  <2>10. CASE FetchFails
    <3>1. work.floor \in Nat
      BY <1>1, RecoveryAssumption DEF Inv, TypeOK, WorkBounds
    <3>2. \A m \in taken : Held(m) => Held(m)'
      <4>1. \A m \in taken : m \in Nat
        BY <1>2 DEF Msg
      <4>2. work.pc = "fetch" /\ live' = live
        BY <2>10 DEF FetchFails
      <4>3. failed' = IF work.floor = 0 THEN failed ELSE WithFailure(failed, work.floor)
        BY <2>10 DEF FetchFails
      <4>4. \A m \in taken : (failed # 0 /\ failed <= m) \/ (work.floor # 0 /\ work.floor <= m)
                              => failed' # 0 /\ failed' <= m
        BY <1>2, <3>1, <4>1, <4>3, FloorKeeps
      <4>5. QED
        BY <4>2, <4>4 DEF Held
    <3>3. QED
      BY <1>1, <1>2, <2>10, <3>2, KeptFrame DEF FetchFails, telegram, history
  <2>11. CASE CaughtUp
    BY <1>1, <1>2, <2>11, KeptFrame DEF CaughtUp, Held, telegram, history
  <2>12. ASSUME NEW n \in work.todo, Recover(n)
         PROVE  Kept'
    <3>1. \A m \in taken : verdict'[m] = "none" => verdict[m] = "none" /\ m # n
      BY <1>2, <2>12 DEF Recover, Decided
    <3>2. work'.pc = work.pc /\ work'.todo = work.todo \ {n} /\ work.pc = "process"
      BY <1>1, <2>12 DEF Recover, Inv, TypeOK, Work
    <3>3. QED
      BY <1>1, <1>2, <2>12, <3>1, <3>2, KeptFrame DEF Recover, Held, telegram, history
  <2>13. ASSUME NEW n \in work.todo, RecoverFails(n)
         PROVE  Kept'
    <3>1. n \in Nat \ {0}
      BY <1>1, RecoveryAssumption DEF Inv, WorkBounds, TypeOK
    <3>2. work'.pc = work.pc /\ work'.todo = work.todo \ {n} /\ work.pc = "process"
      BY <1>1, <2>13 DEF RecoverFails, Inv, TypeOK, Work
    <3>3. \A m \in taken : Held(m) => Held(m)'
      <4>1. live' = live /\ failed' = WithFailure(failed, n)
        BY <2>13 DEF RecoverFails
      <4>2. \A m \in taken : m = n \/ (failed # 0 /\ failed <= m)
                              => failed' # 0 /\ failed' <= m
        BY <1>2, <3>1, <4>1, FloorKeeps DEF Msg
      <4>3. QED
        BY <3>2, <4>1, <4>2 DEF Held
    <3>4. QED
      BY <1>1, <1>2, <2>13, <3>3, KeptFrame DEF RecoverFails, telegram, history
  <2>14. CASE MoveToHead \/ HeadFails
    <3>1. /\ work.pc = "head" /\ work'.pc \notin {"fetch", "process"}
          /\ UNCHANGED <<posted, aged, live, failed, verdict, taken>>
      <4>1. CASE MoveToHead
        BY <4>1 DEF MoveToHead, IdleWork, telegram, history
      <4>2. CASE HeadFails
        BY <1>1, <4>2 DEF HeadFails, IdleWork, Inv, TypeOK, Work, telegram, history
      <4>3. QED
        BY <2>14, <4>1, <4>2
    <3>2. QED
      BY <1>1, <1>2, <3>1, KeptFrame DEF Held
  <2>15. CASE Scan \/ ScanFails
    <3>1. \A m \in taken : verdict'[m] = "none" => verdict[m] = "none"
      BY <1>2, <2>15 DEF Scan, ScanFails, Decided
    <3>2. UNCHANGED <<posted, aged, live, failed, taken>>
      BY <2>15 DEF Scan, ScanFails, telegram, history
    <3>3. work' = work \/ (work.pc = "scan" /\ work' = IdleWork)
      BY <2>15 DEF Scan, ScanFails, EndScan
    <3>4. \A m \in taken : Held(m) => Held(m)'
      BY <3>2, <3>3 DEF Held
    <3>5. QED
      BY <1>1, <1>2, <3>1, <3>2, <3>4, KeptFrame
  <2>16. QED
    BY <2>1, <2>2, <2>3, <2>4, <2>5, <2>6, <2>7, <2>8, <2>9, <2>10, <2>11, <2>12, <2>13,
       <2>14, <2>15 DEF Next, CatchUpStep, ReloadStep, Disturb
<1>5. QED
  BY <1>1, <1>3, <1>4 DEF KInv

\* Whatever locks, pauses, reloads, failed fetches, reconnects and restarts come, a
\* message a handler of this process took over is decided, or a later step of the
\* process comes across it, or it is too old or too far back for any catch-up.
THEOREM NothingTakenIsForgotten == Spec => []LiveNotForgotten
<1>1. Init => KInv
  BY InitType DEF Init, KInv, Kept
<1>2. KInv => LiveNotForgotten
  BY DEF KInv, Kept, LiveNotForgotten, Held, Tracked
<1>3. QED
  BY <1>1, <1>2, NextKept, PTL DEF Spec
-----------------------------------------------------------------------------
(* No alert for what was posted while the source was paused.  As long as the    *)
(* process lives and nothing is locked, whatever is about to be fetched or      *)
(* handled was posted after the last pause: the listener takes the source in    *)
(* only with its cursor moved past every message of the pause, and no catch-up  *)
(* starts below that cursor.                                                    *)
Steady == left["crash"] = Budget["crash"] /\ left["lock"] = Budget["lock"]
Within == \A d \in Disturbance : left[d] <= Budget[d]
Behind(k) == \A n \in offLimits : n <= k

NoFloor == failed = 0 /\ work.floor = 0
FirstBoot ==
  /\ phase = "down" => cursor = NoCursor /\ work.pc = "idle" /\ live = {}
  /\ phase = "prepare" => work.pc = "head"
FetchesListed == work.pc \in {"fetch", "process"} => listed
StartsBehind == work.pc \in {"head", "fetch"} => Behind(work.from)
NothingOff ==
  /\ live \cap offLimits = {}
  /\ work.pc = "process" => work.todo \cap offLimits = {}
CursorBehind == listed /\ phase \in {"registered", "started"} => Behind(LastId)
NoAlert == \A m \in Msg : m \in offLimits \/ m > posted => verdict[m] # "alerted"
RetroParts ==
  NoFloor /\ FirstBoot /\ FetchesListed /\ StartsBehind /\ NothingOff /\ CursorBehind /\ NoAlert
RInv == Inv /\ Within /\ (Steady => RetroParts)

\* Budgets only shrink: nothing was spent on a crash or a lock before either.
LEMMA NextSteady ==
  ASSUME Inv, Within, [Next]_vars
  PROVE  /\ Within'
         /\ Steady' => Steady /\ ~Spend("crash") /\ ~Spend("lock")
<1>1. \A d \in Disturbance : left[d] \in Nat /\ Budget[d] \in Nat /\ left[d] <= Budget[d]
  BY RecoveryAssumption DEF Inv, TypeOK, Within
<1>2. UNCHANGED left \/ \E d \in Disturbance : Spend(d)
  BY DEF Next, Post, Age, Edit, ApplyConfig, Boot, Reconnect, HandleLive, CatchUpStep, CatchUp,
         Fetch, CaughtUp, Recover, ReloadStep, MoveToHead, Scan, Disturb, FetchFails,
         HeadFails, ScanFails, Crash, BootFails, Disconnect, LiveFails, RecoverFails, vars,
         Disturbance
<1>3. ASSUME NEW d \in Disturbance, Spend(d)
      PROVE  /\ left'[d] = left[d] - 1
             /\ \A e \in Disturbance \ {d} : left'[e] = left[e]
  BY <1>3 DEF Spend, Inv, TypeOK
<1>4. CASE UNCHANGED left
  <2>1. ~Spend("crash") /\ ~Spend("lock")
    BY <1>1, <1>3, <1>4 DEF Disturbance
  <2>2. QED
    BY <1>4, <2>1 DEF Within, Steady
<1>5. CASE \E d \in Disturbance : Spend(d)
  <2>1. PICK d \in Disturbance : Spend(d)
    BY <1>5
  <2>2. Within'
    BY <1>1, <1>3, <2>1 DEF Within
  <2>3. \A e \in Disturbance : Spend(e) => left'[e] < Budget[e]
    BY <1>1, <1>3
  <2>4. \A e \in Disturbance : left'[e] = Budget[e] => left[e] = Budget[e]
    BY <1>1, <1>3, <2>1
  <2>5. QED
    BY <2>2, <2>3, <2>4, <1>1 DEF Steady, Disturbance
<1>6. QED
  BY <1>2, <1>4, <1>5
\* What is decided as history, or of a message that is not off limits, alerts for nothing.
LEMMA DecidedQuietly ==
  ASSUME Inv, NoAlert, NEW M, NEW as \in {"alerted", "historical"},
         as = "alerted" => \A m \in M : m \notin offLimits /\ m <= posted,
         offLimits' = offLimits, posted' = posted, verdict' = Decided(verdict, M, as)
  PROVE  NoAlert'
<1>1. \A m \in Msg : m \in Int
  BY DEF Msg
<1>2. posted \in Int
  BY RecoveryAssumption DEF Inv, TypeOK
<1>3. \A m \in Msg : verdict'[m] = IF m \in M /\ verdict[m] = "none" THEN as ELSE verdict[m]
  BY DEF Decided
<1>4. CASE as = "historical"
  BY <1>3, <1>4 DEF NoAlert
<1>5. CASE as = "alerted"
  <2>1. \A m \in Msg : m \in offLimits \/ m > posted => m \notin M
    BY <1>1, <1>2, <1>5
  <2>2. QED
    BY <1>3, <2>1 DEF NoAlert
<1>6. QED
  BY <1>4, <1>5

\* The newest message of the group grows with the cursor.
LEMMA LastIdGrows ==
  ASSUME Inv, NEW m \in 0..posted, cursor' = Advanced(cursor, m), offLimits' = offLimits
  PROVE  /\ Behind(LastId) => Behind(LastId)'
         /\ m # 0 /\ Behind(m) => Behind(LastId)'
<1>1. /\ offLimits \subseteq Nat /\ posted \in Nat
      /\ cursor \in {NoCursor} \cup 0..posted
  BY RecoveryAssumption DEF Inv, TypeOK
<1>2. LastId' >= LastId /\ LastId \in Nat /\ LastId' \in Nat /\ (m # 0 => LastId' >= m)
  BY <1>1 DEF LastId, Advanced, NoCursor
<1>3. QED
  BY <1>1, <1>2 DEF Behind

\* No step alerts for what was posted during a pause, or opens the way to it.
LEMMA NextRetro ==
  ASSUME Inv, Inv', RetroParts, [Next]_vars, ~Spend("crash"), ~Spend("lock")
  PROVE  RetroParts'
<1> USE DEF RetroParts
<1>1. /\ posted \in Nat /\ offLimits \subseteq 1..posted /\ live \subseteq 1..posted
      /\ work \in Work /\ work.todo \subseteq 1..posted /\ work.from \in 0..posted
      /\ cursor \in {NoCursor} \cup 0..posted
  BY RecoveryAssumption DEF Inv, TypeOK, WorkBounds
<1>2. CASE Post
  <2>1. posted' = posted + 1 /\ UNCHANGED <<cursor, verdict, phase, listed, failed, work>>
    BY <1>2 DEF Post
  <2>2. \/ offLimits' = offLimits /\ (live' = live \/ (phase # "down" /\ live' = live \cup {posted + 1}))
        \/ /\ offLimits' = offLimits \cup {posted + 1} /\ live' = live
           /\ ~listed /\ work.pc # "head"
    <3>1. CASE Listening
      <4>1. phase # "down"
        BY <3>1 DEF Listening
      <4>2. offLimits' = offLimits /\ (live' = live \/ live' = live \cup {posted + 1})
        BY <1>2, <3>1 DEF Post
      <4>3. QED
        BY <4>1, <4>2
    <3>2. CASE ~Listening
      <4>1. live' = live /\ offLimits' = IF Paused THEN offLimits \cup {posted + 1} ELSE offLimits
        BY <1>2, <3>2 DEF Post
      <4>2. QED
        BY <4>1 DEF Paused
    <3>3. QED
      BY <3>1, <3>2
  <2>3. NoFloor' /\ FirstBoot' /\ FetchesListed'
    BY <2>1, <2>2 DEF NoFloor, FirstBoot, FetchesListed
  <2>4. StartsBehind' /\ CursorBehind'
    BY <2>1, <2>2 DEF StartsBehind, CursorBehind, FetchesListed, Behind, LastId
  <2>5. NothingOff'
    <3>1. posted + 1 \notin offLimits /\ posted + 1 \notin live /\ posted + 1 \notin work.todo
      BY <1>1
    <3>2. QED
      BY <2>1, <2>2, <3>1 DEF NothingOff
  <2>6. NoAlert'
    BY <1>1, <2>1, <2>2 DEF NoAlert, Msg
  <2>7. QED
    BY <2>3, <2>4, <2>5, <2>6
<1>3. CASE Age \/ Edit \/ Disconnect \/ Reconnect \/ UNCHANGED vars
  <2>1. UNCHANGED <<posted, cursor, verdict, phase, listed, live, failed, work, offLimits>>
    BY <1>3 DEF Age, Edit, Disconnect, Reconnect, telegram, process, history, vars
  <2>2. QED
    BY <2>1 DEF NoFloor, FirstBoot, FetchesListed, StartsBehind, NothingOff, CursorBehind, NoAlert,
                Behind, LastId
<1>4. CASE ApplyConfig
  <2>1. UNCHANGED <<posted, cursor, verdict, phase, live, failed, offLimits>>
    BY <1>4 DEF ApplyConfig, telegram, history
  <2>2. work.pc = "idle" /\ phase = "started" /\ (listed' => listed)
    BY <1>4 DEF ApplyConfig
  <2>3. \/ work' = work
        \/ work' = [pc |-> "scan", from |-> 0, floor |-> 0, todo |-> {}]
        \/ work' = [pc |-> "head", from |-> posted, floor |-> 0, todo |-> {}]
    BY <1>4 DEF ApplyConfig, IdleWork
  <2>4. NoFloor' /\ FirstBoot' /\ FetchesListed'
    BY <2>1, <2>2, <2>3 DEF NoFloor, FirstBoot, FetchesListed
  <2>5. StartsBehind' /\ NothingOff'
    BY <1>1, <2>1, <2>2, <2>3 DEF StartsBehind, NothingOff, Behind
  <2>6. CursorBehind' /\ NoAlert'
    BY <2>1, <2>2 DEF CursorBehind, NoAlert, Behind, LastId
  <2>7. QED
    BY <2>4, <2>5, <2>6
<1>5. CASE Boot
  <2>1. UNCHANGED <<posted, cursor, verdict, live, failed, offLimits>> /\ phase = "down"
    BY <1>5 DEF Boot, history
  <2>2. \/ ~listed' /\ phase' = "started" /\ work' = [pc |-> "idle", from |-> 0, floor |-> 0, todo |-> {}]
        \/ /\ listed' /\ phase' = "prepare"
           /\ work' = [pc |-> "head", from |-> posted, floor |-> 0, todo |-> {}]
    BY <1>5 DEF Boot, FirstBoot, IdleWork
  <2>3. NoFloor' /\ FirstBoot' /\ FetchesListed' /\ CursorBehind' /\ NoAlert'
    BY <2>1, <2>2 DEF NoFloor, FirstBoot, FetchesListed, CursorBehind, NoAlert
  <2>4. StartsBehind' /\ NothingOff'
    BY <1>1, <2>1, <2>2 DEF StartsBehind, NothingOff, Behind
  <2>5. QED
    BY <2>3, <2>4
<1>6. ASSUME NEW m \in live, HandleLive(m)
      PROVE  RetroParts'
  <2>1. UNCHANGED <<posted, phase, listed, failed, work, offLimits>> /\ live' = live \ {m}
    BY <1>6 DEF HandleLive, telegram, history
  <2>2. phase # "down"
    BY <1>6 DEF FirstBoot
  <2>3. m \in 1..posted /\ m \in 0..posted /\ m \notin offLimits
    BY <1>1 DEF NothingOff
  <2>4. NoAlert'
    BY <1>6, <2>1, <2>3, DecidedQuietly DEF HandleLive
  <2>5. CursorBehind'
    BY <1>6, <2>1, <2>3, LastIdGrows DEF HandleLive, CursorBehind
  <2>6. NoFloor' /\ FirstBoot' /\ FetchesListed' /\ StartsBehind' /\ NothingOff'
    BY <2>1, <2>2 DEF NoFloor, FirstBoot, FetchesListed, StartsBehind, NothingOff, Behind
  <2>7. QED
    BY <2>4, <2>5, <2>6
<1>7. CASE CatchUp
  <2>1. /\ UNCHANGED <<posted, cursor, verdict, phase, listed, live, offLimits>>
        /\ phase = "started" /\ listed /\ failed' = 0
        /\ work' = [pc |-> "fetch", from |-> LastId, floor |-> 0, todo |-> {}]
    BY <1>7 DEF CatchUp, NoFloor, IdleWork, telegram, history
  <2>2. NoFloor' /\ FirstBoot' /\ FetchesListed' /\ CursorBehind' /\ NothingOff' /\ NoAlert'
    BY <2>1 DEF NoFloor, FirstBoot, FetchesListed, CursorBehind, NothingOff, NoAlert, Behind, LastId
  <2>3. StartsBehind'
    BY <2>1 DEF StartsBehind, CursorBehind, Behind
  <2>4. QED
    BY <2>2, <2>3
<1>8. CASE Fetch
  <2>1. /\ UNCHANGED <<posted, verdict, phase, listed, live, failed, offLimits>>
        /\ work.pc = "fetch"
        /\ work' = [work EXCEPT !.pc = "process", !.todo = Backfill(work.from)]
    BY <1>8 DEF Fetch, telegram, history
  <2>2. work'.pc = "process" /\ work'.todo = Backfill(work.from) /\ work'.floor = work.floor
    BY <1>1, <2>1 DEF Work
  <2>3. Backfill(work.from) \subseteq 1..posted
    BY BackfillType DEF Inv
  <2>4. NothingOff'
    <3>1. \A n \in Backfill(work.from) : n > work.from
      BY DEF Backfill, Newer
    <3>2. Backfill(work.from) \cap offLimits = {}
      BY <1>1, <2>1, <2>3, <3>1 DEF StartsBehind, Behind
    <3>3. QED
      BY <2>1, <2>2, <3>2 DEF NothingOff
  <2>5. CursorBehind'
    <3>1. CASE cursor' = cursor
      BY <2>1, <3>1 DEF CursorBehind, Behind, LastId
    <3>2. CASE \E n \in Backfill(work.from) : cursor' = Advanced(cursor, n)
      <4>1. PICK n \in 0..posted : cursor' = Advanced(cursor, n)
        BY <2>3, <3>2
      <4>2. QED
        BY <2>1, <4>1, LastIdGrows DEF CursorBehind
    <3>3. QED
      BY <1>8, <3>1, <3>2 DEF Fetch
  <2>6. NoFloor' /\ FirstBoot' /\ FetchesListed' /\ StartsBehind' /\ NoAlert'
    BY <2>1, <2>2 DEF NoFloor, FirstBoot, FetchesListed, StartsBehind, NoAlert
  <2>7. QED
    BY <2>4, <2>5, <2>6
<1>9. CASE FetchFails \/ HeadFails
  <2>1. /\ UNCHANGED <<posted, cursor, verdict, phase, listed, live, offLimits>>
        /\ failed' = 0
        /\ phase # "down"
    BY <1>9 DEF FetchFails, HeadFails, NoFloor, FirstBoot, telegram, history
  <2>2. \/ phase = "started" /\ work' = [pc |-> "idle", from |-> 0, floor |-> 0, todo |-> {}]
        \/ work' = work
        \/ work.pc = "head" /\ work' = [work EXCEPT !.from = posted]
    BY <1>9 DEF FetchFails, HeadFails, IdleWork
  <2>3. QED
    <3>1. NoFloor' /\ FirstBoot' /\ FetchesListed' /\ NothingOff'
      BY <1>1, <2>1, <2>2 DEF NoFloor, FirstBoot, FetchesListed, NothingOff, Work
    <3>2. StartsBehind'
      BY <1>1, <2>1, <2>2 DEF StartsBehind, Behind, Work
    <3>3. CursorBehind' /\ NoAlert'
      BY <2>1 DEF CursorBehind, NoAlert, Behind, LastId
    <3>4. QED
      BY <3>1, <3>2, <3>3
<1>10. ASSUME NEW m \in work.todo, Recover(m)
       PROVE  RetroParts'
  <2>1. UNCHANGED <<posted, phase, listed, live, failed, offLimits>> /\ work.pc = "process"
    BY <1>10 DEF Recover, telegram, history
  <2>2. work'.pc = "process" /\ work'.todo = work.todo \ {m} /\ work'.floor = work.floor
    BY <1>1, <1>10 DEF Recover, Work
  <2>3. m \in 1..posted /\ m \in 0..posted /\ m \notin offLimits
    BY <1>1, <2>1 DEF NothingOff
  <2>4. NoAlert'
    BY <1>10, <2>1, <2>3, DecidedQuietly DEF Recover
  <2>5. CursorBehind'
    BY <1>10, <2>1, <2>3, LastIdGrows DEF Recover, CursorBehind
  <2>6. NoFloor' /\ FirstBoot' /\ FetchesListed' /\ StartsBehind' /\ NothingOff'
    BY <2>1, <2>2 DEF NoFloor, FirstBoot, FetchesListed, StartsBehind, NothingOff
  <2>7. QED
    BY <2>4, <2>5, <2>6
<1>11. CASE CaughtUp
  <2>1. /\ UNCHANGED <<posted, cursor, verdict, phase, listed, live, failed, offLimits>>
        /\ phase = "started"
        /\ work' = [pc |-> "idle", from |-> 0, floor |-> 0, todo |-> {}]
    BY <1>11 DEF CaughtUp, FirstBoot, IdleWork, telegram, history
  <2>2. NoFloor' /\ FirstBoot' /\ FetchesListed' /\ StartsBehind' /\ NothingOff'
    BY <2>1 DEF NoFloor, FirstBoot, FetchesListed, StartsBehind, NothingOff
  <2>3. CursorBehind' /\ NoAlert'
    BY <2>1 DEF CursorBehind, NoAlert, Behind, LastId
  <2>4. QED
    BY <2>2, <2>3
<1>12. CASE MoveToHead
  <2>1. /\ UNCHANGED <<posted, verdict, live, failed, offLimits>>
        /\ listed' /\ work.pc = "head"
        /\ phase' = IF phase = "prepare" THEN "registered" ELSE phase
        /\ work' = [pc |-> "scan", from |-> 0, floor |-> 0, todo |-> {}]
        /\ cursor' = IF work.from = 0 THEN cursor ELSE Advanced(cursor, work.from)
    BY <1>12 DEF MoveToHead, IdleWork, telegram, history
  <2>2. Behind(work.from) /\ phase # "down"
    BY <2>1 DEF StartsBehind, FirstBoot
  <2>3. CursorBehind'
    <3>1. CASE work.from = 0
      <4>1. offLimits = {}
        BY <1>1, <2>2, <3>1 DEF Behind
      <4>2. QED
        BY <2>1, <4>1 DEF CursorBehind, Behind
    <3>2. CASE work.from # 0
      BY <1>1, <2>1, <2>2, <3>2, LastIdGrows DEF CursorBehind
    <3>3. QED
      BY <3>1, <3>2
  <2>4. NoFloor' /\ FirstBoot' /\ FetchesListed' /\ StartsBehind' /\ NothingOff' /\ NoAlert'
    BY <2>1, <2>2 DEF NoFloor, FirstBoot, FetchesListed, StartsBehind, NothingOff, NoAlert
  <2>5. QED
    BY <2>3, <2>4
<1>13. CASE Scan \/ ScanFails
  <2>1. /\ UNCHANGED <<posted, cursor, listed, live, failed, offLimits>>
        /\ \/ work' = work
           \/ work.pc = "scan" /\ work' = [pc |-> "idle", from |-> 0, floor |-> 0, todo |-> {}]
        /\ phase' = IF phase = "registered" THEN "started" ELSE phase
    BY <1>13 DEF Scan, ScanFails, EndScan, IdleWork, telegram, history
  <2>2. verdict' = verdict \/ \E M : verdict' = Decided(verdict, M, "historical")
    BY <1>13 DEF Scan, ScanFails
  <2>3. NoAlert'
    BY <2>1, <2>2, DecidedQuietly DEF NoAlert
  <2>4. NoFloor' /\ FirstBoot' /\ FetchesListed' /\ StartsBehind' /\ NothingOff'
    BY <2>1 DEF NoFloor, FirstBoot, FetchesListed, StartsBehind, NothingOff, Behind
  <2>5. CursorBehind'
    BY <2>1 DEF CursorBehind, Behind, LastId
  <2>6. QED
    BY <2>3, <2>4, <2>5
<1>14. ~Crash /\ ~BootFails /\ ~\E m \in live : LiveFails(m)
  BY DEF Crash, BootFails, LiveFails
<1>15. ~\E m \in work.todo : RecoverFails(m)
  BY DEF RecoverFails
<1>16. QED
  BY <1>2, <1>3, <1>4, <1>5, <1>6, <1>7, <1>8, <1>9, <1>10, <1>11, <1>12, <1>13, <1>14, <1>15
     DEF Next, CatchUpStep, ReloadStep, Disturb

\* As long as the process lives and no write is locked, a message posted while its source
\* was paused, or before the listener knew the source, never gets an alert (S6-04),
\* whatever reloads, reconnects, lost updates and failed fetches come.
THEOREM NoRetroactiveAlert == Spec => []NoRetroactive
<1>1. Init => RInv
  <2> SUFFICES ASSUME Init PROVE RInv
    OBVIOUS
  <2>1. Inv /\ Within
    BY InitType, RecoveryAssumption DEF Init, Within
  <2>2. RetroParts
    BY DEF Init, RetroParts, NoFloor, FirstBoot, FetchesListed, StartsBehind, NothingOff,
           CursorBehind, NoAlert, IdleWork
  <2>3. QED
    BY <2>1, <2>2 DEF RInv
<1>2. RInv /\ [Next]_vars => RInv'
  BY NextType, NextSteady, NextRetro DEF RInv
<1>3. RInv => NoRetroactive
  <2> SUFFICES ASSUME RInv, Steady PROVE \A m \in offLimits : verdict[m] # "alerted"
    BY DEF NoRetroactive, Steady
  <2>1. offLimits \subseteq Msg
    BY RecoveryAssumption DEF RInv, Inv, TypeOK, Msg
  <2>2. QED
    BY <2>1 DEF RInv, RetroParts, NoAlert
<1>4. QED
  BY <1>1, <1>2, <1>3, PTL DEF Spec
=============================================================================
