------------------------- MODULE ReloadMailboxProofs -------------------------
(***************************************************************************)
(* Theorems about ReloadMailbox, for any set of configurations, any         *)
(* fingerprint and any number of edits, failures and restarts.              *)
(***************************************************************************)
EXTENDS ReloadMailbox, TLAPS

\* The lists the task under way has already read.
ReadBefore(l) ==
  \/ next \in {"swap", "record"}
  \/ next = "rules" /\ l = "sources"
  \/ next = "recipients" /\ l \in {"sources", "rules"}

\* Who works, and where it stands, go together.
TaskInv ==
  /\ task = "none" <=> next = "none"
  /\ task = "reload" => up /\ state = "applying"
  /\ task = "boot" => ~up
  /\ next = "record" => running = held

\* While a reload is under way no request restarts `fresh`, so that what it has read
\* of each list stays a version the list had since the request.
FreshInv ==
  /\ \A l \in List : saved[l] \in fresh[l]
  /\ task = "reload" => \A l \in List : ReadBefore(l) => held[l] \in fresh[l]

\* The hash is that of the running configuration from one record to the next swap.
HashInv == up /\ ~lost /\ next # "record" => applied = Fingerprint(running)

IInv == TypeOK /\ TaskInv /\ FreshInv /\ HashInv

\* A configuration holds a version of each list, and its fingerprint is one too.
LEMMA ConfigFacts ==
  ASSUME NEW c \in Config
  PROVE  /\ \A l \in List : c[l] \in Versions
         /\ Fingerprint(c) \in Config
         /\ Fingerprint(c) = [sources |-> c.sources, rules |-> Hashed[c.rules],
                              recipients |-> c.recipients]
BY MailboxAssumption DEF Config, List, Versions, Fingerprint

\* Spending leaves the budget a budget.
LEMMA SpendType ==
  ASSUME TypeOK, NEW e \in Event, Spend(e)
  PROVE  left' \in [Event -> Nat]
BY DEF TypeOK, Spend

\* Nothing is loaded, nothing runs: the invariant holds at the start.
LEMMA InitIInv == Init => IInv
<1>1. SUFFICES ASSUME Init PROVE IInv
  OBVIOUS
<1>2. \A l \in List : saved[l] \in Versions
  BY <1>1, ConfigFacts DEF Init
<1>3. TypeOK
  BY <1>1, <1>2, MailboxAssumption DEF Init, TypeOK, NoHash
<1>4. TaskInv /\ FreshInv /\ HashInv
  BY <1>1 DEF Init, TaskInv, FreshInv, HashInv
<1>5. QED
  BY <1>3, <1>4 DEF IInv

\* Every step keeps it.
LEMMA StepIInv == IInv /\ [Next]_vars => IInv'
<1>1. SUFFICES ASSUME IInv, [Next]_vars PROVE IInv'
  OBVIOUS
<1>2. TypeOK /\ TaskInv /\ FreshInv /\ HashInv
  BY <1>1 DEF IInv
<1>3. CASE Save
  <2>1. /\ saved' \in Config
        /\ fresh' = [l \in List |-> fresh[l] \cup {saved'[l]}]
        /\ UNCHANGED <<state, applied, up, started, online, running, task, next, held, lost>>
        /\ left' \in [Event -> Nat]
    BY <1>2, <1>3, SpendType DEF Save, Event, mailbox, process
  <2>2. \A l \in List : saved'[l] \in Versions
    BY <2>1, ConfigFacts
  <2>3. TypeOK'
    BY <1>2, <2>1, <2>2 DEF TypeOK
  <2>4. TaskInv' /\ HashInv'
    BY <1>2, <2>1 DEF TaskInv, HashInv, Fingerprint
  <2>5. FreshInv'
    BY <1>2, <2>1 DEF FreshInv, ReadBefore
  <2>6. QED
    BY <2>3, <2>4, <2>5 DEF IInv
<1>4. CASE RequestReload
  <2>1. /\ state \notin InFlight /\ state' = "pending"
        /\ fresh' = [l \in List |-> {saved[l]}]
        /\ UNCHANGED <<saved, applied, up, started, online, running, task, next, held, lost, left>>
    BY <1>4 DEF RequestReload, Accepts, process
  <2>2. \A l \in List : saved[l] \in Versions
    BY <1>2, ConfigFacts DEF TypeOK
  <2>3. TypeOK'
    BY <1>2, <2>1, <2>2 DEF TypeOK
  <2>4. task # "reload"
    BY <1>2, <2>1 DEF TaskInv, InFlight
  <2>5. TaskInv' /\ FreshInv' /\ HashInv'
    BY <1>2, <2>1, <2>4 DEF TaskInv, FreshInv, HashInv, Fingerprint
  <2>6. QED
    BY <2>3, <2>5 DEF IInv
<1>5. CASE Connect \/ Disconnect \/ Start
  <2>1. /\ online' \in BOOLEAN /\ started' \in BOOLEAN /\ left' \in [Event -> Nat]
        /\ UNCHANGED <<saved, state, applied, up, running, task, next, held, fresh, lost>>
    <3>1. CASE Connect
      BY <1>2, <3>1 DEF Connect, TypeOK, mailbox, process, history
    <3>2. CASE Disconnect
      BY <1>2, <3>2, SpendType DEF Disconnect, Event, TypeOK, mailbox, process, history
    <3>3. CASE Start
      BY <1>2, <3>3 DEF Start, TypeOK, mailbox, history
    <3>4. QED
      BY <1>5, <3>1, <3>2, <3>3
  <2>2. TypeOK'
    BY <1>2, <2>1 DEF TypeOK
  <2>3. TaskInv' /\ FreshInv' /\ HashInv'
    BY <1>2, <2>1 DEF TaskInv, FreshInv, ReadBefore, HashInv, Fingerprint
  <2>4. QED
    BY <2>2, <2>3 DEF IInv
<1>6. CASE Boot \/ Claim
  <2>1. /\ task = "none" /\ next' = "sources"
        /\ \/ task' = "boot" /\ ~up /\ state' = state
           \/ task' = "reload" /\ up /\ state' = "applying"
        /\ UNCHANGED <<saved, applied, up, started, online, running, held, fresh, lost, left>>
    BY <1>6 DEF Boot, Claim, mailbox, history
  <2>2. TypeOK'
    BY <1>2, <2>1 DEF TypeOK, List
  <2>3. TaskInv' /\ FreshInv' /\ HashInv'
    BY <1>2, <2>1 DEF TaskInv, FreshInv, ReadBefore, HashInv, Fingerprint
  <2>4. QED
    BY <2>2, <2>3 DEF IInv
<1>7. CASE ReadList
  <2>1. /\ next \in List
        /\ held' = [held EXCEPT ![next] = saved[next]]
        /\ next' = Following[next]
        /\ UNCHANGED <<saved, state, applied, up, started, online, running, task, fresh, lost, left>>
    BY <1>7 DEF ReadList, mailbox, history
  <2>2. \/ next = "sources" /\ next' = "rules"
        \/ next = "rules" /\ next' = "recipients"
        \/ next = "recipients" /\ next' = "swap"
    BY <2>1 DEF List, Following
  <2>3. held' \in Config
    BY <1>2, <2>1, <2>2 DEF TypeOK, Config
  <2>4. TypeOK'
    BY <1>2, <2>1, <2>2, <2>3 DEF TypeOK, List
  <2>5. \A l \in List : held'[l] = IF l = next THEN saved[l] ELSE held[l]
    BY <1>2, <2>1 DEF TypeOK, Config, List
  <2>6. \A l \in List : ReadBefore(l)' => ReadBefore(l) \/ l = next
    BY <2>2 DEF ReadBefore, List
  <2>7. FreshInv'
    BY <1>2, <2>1, <2>5, <2>6 DEF FreshInv
  <2>8. TaskInv' /\ HashInv'
    BY <1>2, <2>1, <2>2 DEF TaskInv, HashInv, Fingerprint
  <2>9. QED
    BY <2>4, <2>7, <2>8 DEF IInv
<1>8. CASE Swap
  <2>1. /\ next = "swap" /\ next' = "record" /\ running' = held
        /\ UNCHANGED <<saved, state, applied, up, started, online, task, held, fresh, lost, left>>
    BY <1>8 DEF Swap, mailbox, history
  <2>2. TypeOK'
    BY <1>2, <2>1 DEF TypeOK
  <2>3. TaskInv' /\ FreshInv' /\ HashInv'
    BY <1>2, <2>1 DEF TaskInv, FreshInv, ReadBefore, HashInv
  <2>4. QED
    BY <2>2, <2>3 DEF IInv
<1>9. CASE FailReload
  <2>1. /\ task = "reload" /\ next # "record" /\ task' = "none" /\ next' = "none"
        /\ state' \in {"failed", state} /\ lost' \in BOOLEAN /\ (lost => lost')
        /\ left' \in [Event -> Nat]
        /\ UNCHANGED <<saved, applied, up, started, online, running, held, fresh>>
    <3>1. left' \in [Event -> Nat]
      BY <1>2, <1>9, SpendType DEF FailReload, Event
    <3>2. lost' \in BOOLEAN /\ (lost => lost')
      <4>1. lost \in BOOLEAN
        BY <1>2 DEF TypeOK
      <4>2. lost' = lost \/ lost' = TRUE
        BY <1>9, Zenon DEF FailReload
      <4>3. QED
        BY <4>1, <4>2, Zenon
    <3>3. QED
      BY <1>9, <3>1, <3>2 DEF FailReload
  <2>2. TypeOK'
    BY <1>2, <2>1 DEF TypeOK
  <2>3. TaskInv' /\ FreshInv' /\ HashInv'
    BY <1>2, <2>1 DEF TaskInv, FreshInv, HashInv, Fingerprint
  <2>4. QED
    BY <2>2, <2>3 DEF IInv
<1>10. CASE RecordApplied \/ RecordAppliedFails
  <2>1. /\ task # "none" /\ next = "record" /\ task' = "none" /\ next' = "none" /\ up' = TRUE
        /\ \/ state' = "idle" /\ applied' = Fingerprint(held) /\ lost' = FALSE
           \/ state' = state /\ applied' = applied /\ lost' = TRUE
        /\ left' \in [Event -> Nat]
        /\ UNCHANGED <<saved, started, online, running, held, fresh>>
    BY <1>2, <1>10, SpendType DEF RecordApplied, RecordAppliedFails, Finished, StateAfter,
       AppliedHash, Event, TypeOK, mailbox
  <2>2. Fingerprint(held) \in Config
    BY <1>2, ConfigFacts DEF TypeOK
  <2>3. TypeOK'
    BY <1>2, <2>1, <2>2 DEF TypeOK
  <2>4. TaskInv' /\ FreshInv' /\ HashInv'
    BY <1>2, <2>1 DEF TaskInv, FreshInv, HashInv, Fingerprint
  <2>5. QED
    BY <2>3, <2>4 DEF IInv
<1>11. CASE Crash
  <2>1. /\ up' = FALSE /\ started' = FALSE /\ online' = FALSE /\ task' = "none" /\ next' = "none"
        /\ left' \in [Event -> Nat]
        /\ UNCHANGED <<saved, state, applied, running, held, fresh, lost>>
    BY <1>2, <1>11, SpendType DEF Crash, Event, mailbox, history
  <2>2. TypeOK'
    BY <1>2, <2>1 DEF TypeOK
  <2>3. TaskInv' /\ FreshInv' /\ HashInv'
    BY <1>2, <2>1 DEF TaskInv, FreshInv, HashInv
  <2>4. QED
    BY <2>2, <2>3 DEF IInv
<1>12. CASE UNCHANGED vars
  BY <1>2, <1>12 DEF IInv, TypeOK, TaskInv, FreshInv, ReadBefore, HashInv, Fingerprint, vars
<1>13. QED
  BY <1>1, <1>3, <1>4, <1>5, <1>6, <1>7, <1>8, <1>9, <1>10, <1>11, <1>12 DEF Next

\* It is an invariant.
LEMMA Inductive == Spec => []IInv
BY InitIInv, StepIInv, PTL DEF Spec

-----------------------------------------------------------------------------
\* Every variable of the mailbox and of the listener keeps its type.
THEOREM TypeCorrect == Spec => []TypeOK
<1>1. IInv => TypeOK
  BY DEF IInv
<1>2. QED
  BY <1>1, Inductive, PTL

\* The hash the panel compares with is that of the running configuration whenever
\* nothing is in flight (listener_control.py:124-157, listener_reload.py:75-116).
THEOREM HonestNotice == Spec => []NoticeIsHonest
<1>1. IInv => NoticeIsHonest
  BY DEF IInv, TaskInv, HashInv, NoticeIsHonest
<1>2. QED
  BY <1>1, Inductive, PTL

\* A reload under way has the row in `applying` from its claim to its outcome.
THEOREM OwnedRow == Spec => []ReloadOwnsTheRow
<1>1. IInv => ReloadOwnsTheRow
  BY DEF IInv, TaskInv, ReloadOwnsTheRow
<1>2. QED
  BY <1>1, Inductive, PTL

\* No step settles a request with a configuration older than the request, the boot's
\* aside, which leaves the panel's notice up.
THEOREM RequestsServed == Spec => RequestIsServed
<1> DEFINE Step == Settles => ServedExactly \/ (task = "boot" /\ (Served \/ Notice'))
<1>1. IInv /\ [Next]_vars => [Step]_vars
  <2>1. SUFFICES ASSUME IInv, Next, Settles
                 PROVE  ServedExactly \/ (task = "boot" /\ (Served \/ Notice'))
    OBVIOUS
  <2>2. TypeOK /\ TaskInv /\ FreshInv
    BY <2>1 DEF IInv
  <2>3. RecordApplied
    BY <2>1 DEF Settles, InFlight, Next, Save, RequestReload, Connect, Disconnect, Start, Boot,
       Claim, ReadList, Swap, FailReload, RecordAppliedFails, Crash, mailbox
  <2>4. task # "none" /\ next = "record" /\ running = held
        /\ saved' = saved /\ applied' = Fingerprint(held)
    BY <2>2, <2>3 DEF RecordApplied, Finished, AppliedHash, TaskInv
  <2>5. CASE task = "reload"
    BY <2>2, <2>4, <2>5 DEF FreshInv, ReadBefore, ServedExactly
  <2>6. CASE task = "boot" /\ ~Notice'
    <3>1. Fingerprint(held) = Fingerprint(saved)
      BY <2>4, <2>6 DEF Notice, Fingerprint
    <3>2. /\ held.sources = saved.sources /\ Hashed[held.rules] = Hashed[saved.rules]
          /\ held.recipients = saved.recipients
      BY <3>1, <2>2, ConfigFacts DEF TypeOK
    <3>3. \A l \in List : Same(l, running[l], saved[l])
      BY <3>2, <2>4 DEF List, Same
    <3>4. Served
      BY <3>3, <2>2 DEF Served, FreshInv
    <3>5. QED
      BY <3>4, <2>6
  <2>7. QED
    BY <2>2, <2>4, <2>5, <2>6 DEF TypeOK
<1>2. QED
  BY <1>1, Inductive, PTL DEF Spec, RequestIsServed
=============================================================================
