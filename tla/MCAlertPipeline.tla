--------------------------- MODULE MCAlertPipeline ---------------------------
(***************************************************************************)
(* Small instances of AlertPipeline.  Five postings to choose from: plain1  *)
(* and twin1 are one message caught by two rules; plain2 is a later message *)
(* with the offer of plain1; hit2 is that message with a target set on the  *)
(* rule in between; other3 is a third message with another offer.  r2 does  *)
(* not want target alerts.  Each configuration picks the postings and the   *)
(* disturbances of its question.                                            *)
(***************************************************************************)
EXTENDS AlertPipeline

CONSTANTS plain1, twin1, plain2, hit2, other3, m1, m2, m3, offer1, offer2, r1, r2,
          Locks, Refusals, Timeouts, Crashes, Deletions, Edits, Repeats, Agings

MCMessageOf ==
  [p \in Posting |-> IF p = other3 THEN m3 ELSE IF p \in {plain1, twin1} THEN m1 ELSE m2]
\* Every posting has a text, rule or source of its own.
MCSignatureOf == [p \in Posting |-> p]
\* The second message repeats the text of the first one in the same source.
MCSameText == [p \in Posting |-> IF p = plain2 THEN plain1 ELSE p]
MCOfferOf == [p \in Posting |-> IF p \in {twin1, other3} THEN offer2 ELSE offer1]
MCTargetHit == [p \in Posting |-> p = hit2]
MCWants == [p \in Posting |-> IF p = hit2 THEN Recipient \ {r2} ELSE Recipient]
MCBudget ==
  [d \in Disturbance |->
     CASE d = "lock" -> Locks [] d = "refuse" -> Refusals
       [] d = "timeout" -> Timeouts [] d = "crash" -> Crashes
       [] d = "delete" -> Deletions [] d = "edit" -> Edits
       [] d = "repeat" -> Repeats [] d = "age" -> Agings]
=============================================================================
