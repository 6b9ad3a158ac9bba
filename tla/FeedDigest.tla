----------------------------- MODULE FeedDigest -----------------------------
(***************************************************************************)
(* The switches of the daily digest in the feed's right rail               *)
(* (pages/FeedPage.tsx, api/digest.ts, api/feedSettings.ts).  Every change *)
(* sends the whole record of settings the page shows.                      *)
(***************************************************************************)
EXTENDS Integers

CONSTANTS Fields,   \* the switches: the digest itself, quiet hours
          MaxSaves, \* bound: changes of the settings
          Nothing   \* null

VARIABLES srv, ui, net
vars == <<srv, ui, net>>

DigestSettings == [Fields -> BOOLEAN]

TypeOK ==
  /\ srv \in DigestSettings
  /\ ui \in DigestSettings \cup {Nothing}
  /\ net.load \in BOOLEAN /\ net.overlap \in BOOLEAN
  /\ \A s \in net.saves : s.sent \in DigestSettings /\ s.st \in {"sent", "ok"} /\ s.field \in Fields
  /\ net.chosen \in DigestSettings /\ net.saved \in 0..MaxSaves

Init ==
  /\ srv \in DigestSettings
  /\ ui = Nothing
  /\ net = [load |-> TRUE, saves |-> {}, chosen |-> srv, overlap |-> FALSE, saved |-> 0]

\* A lookup that fails leaves the switches out of the page.
LoadDigest(ok) ==
  /\ net.load
  /\ ui' = IF ok THEN srv ELSE Nothing
  /\ net' = [net EXCEPT !.load = FALSE]
  /\ UNCHANGED srv

\* saveDigest: what is shown, with one field turned over.
SaveDigest(field) ==
  /\ ui # Nothing /\ net.saved < MaxSaves
  /\ net' = [net EXCEPT !.saves = @ \cup {[n |-> net.saved, st |-> "sent", field |-> field,
                                           sent |-> [ui EXCEPT ![field] = ~@]]},
                        !.saved = @ + 1,
                        !.overlap = @ \/ net.saves # {}]
  /\ UNCHANGED <<srv, ui>>

ServeSave(s) ==
  /\ s.st = "sent"
  /\ srv' = s.sent
  /\ net' = [net EXCEPT !.saves = (@ \ {s}) \cup {[s EXCEPT !.st = "ok"]},
                        !.chosen[s.field] = s.sent[s.field]]
  /\ UNCHANGED ui

\* The page shows what it is answered, the settings as they were saved.
AnswerSave_NotShown(s) ==
  /\ s.st = "ok"
  /\ net' = [net EXCEPT !.saves = @ \ {s}]
  /\ UNCHANGED <<srv, ui>>
AnswerSave(s) ==
  /\ s.st = "ok"
  /\ ui' = s.sent
  /\ net' = [net EXCEPT !.saves = @ \ {s}]
  /\ UNCHANGED srv

\* A refused save, and one whose answer is lost, are told and change nothing shown.
FailSave(s) ==
  /\ net' = [net EXCEPT !.saves = @ \ {s}, !.overlap = @ \/ s.st = "ok"]
  /\ UNCHANGED <<srv, ui>>

Next ==
  \/ \E ok \in BOOLEAN : LoadDigest(ok)
  \/ \E field \in Fields : SaveDigest(field)
  \/ \E s \in net.saves : ServeSave(s) \/ AnswerSave(s) \/ FailSave(s)

Spec == Init /\ [][Next]_vars

-----------------------------------------------------------------------------
(* Properties                                                              *)

\* No change of the digest is lost: the api holds, of every field, the value
\* last saved for it, although every save writes all of them.  The code keeps
\* this only for changes made one after the other, each answered before the
\* next (FeedPage.tsx, saveDigest).
DigestKeepsChanges == ~net.overlap => srv = net.chosen
=============================================================================
