---------------------------- MODULE AlertPromise ----------------------------
(***************************************************************************)
(* What the alert pipeline promises to the people it alerts, without tasks, *)
(* rows, caches or failures: every posting gets at most one verdict, which   *)
(* names the recipients it is owed to, and only they ever hear of it.        *)
(***************************************************************************)
CONSTANTS Posting, Recipient

VARIABLES
  decided,  \* postings that have a verdict
  owed,     \* posting -> recipients its verdict names
  alerted   \* posting -> recipients that got the alert

vars == <<decided, owed, alerted>>

Init ==
  /\ decided = {}
  /\ owed = [p \in Posting |-> {}]
  /\ alerted = [p \in Posting |-> {}]

\* The verdict: an empty audience for a match that is only kept.
Decide(p, R) ==
  /\ p \notin decided
  /\ decided' = decided \cup {p}
  /\ owed' = [owed EXCEPT ![p] = R]
  /\ UNCHANGED alerted

\* The first or the resent alert gets through to someone it is owed to.
Alert(p, r) ==
  /\ p \in decided
  /\ r \in owed[p]
  /\ alerted' = [alerted EXCEPT ![p] = @ \cup {r}]
  /\ UNCHANGED <<decided, owed>>

Next ==
  \E p \in Posting :
    \/ \E R \in SUBSET Recipient : Decide(p, R)
    \/ \E r \in Recipient : Alert(p, r)

Spec == Init /\ [][Next]_vars
=============================================================================
