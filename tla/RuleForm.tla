------------------------------ MODULE RuleForm ------------------------------
(***************************************************************************)
(* The form of the rules page (pages/RegrasPage.tsx): the rail in which a  *)
(* rule is created, edited or copied, and the "Testar" panel, one for a    *)
(* row and for the unsaved form, which asks the api what the terms would   *)
(* have caught.  The table is module RuleTable.                            *)
(*                                                                         *)
(* The fields of a rule are one number, 0 for a form without any included  *)
(* term; what the administrator types is another number.                   *)
(***************************************************************************)
EXTENDS Integers, FiniteSets

CONSTANTS Rules,     \* rule ids
          MaxTerms,  \* bound: fields that can be told apart
          MaxOps,    \* bound: clicks that load the form or ask the api
          Nothing    \* null

VARIABLES srv, ui, net
vars == <<srv, ui, net>>

NoTerms == 0
Terms == 0..MaxTerms
Suggested == MaxTerms
Create == 0             \* the form's and the tester's target that is not a rule
FormTargets == Rules \cup {Create}

TypeOK ==
  /\ srv \in [Rules -> Terms]
  /\ ui.rules \subseteq Rules
  /\ ui.target \in FormTargets /\ ui.form \in Terms /\ ui.rail \in {"rule", "recipient"}
  /\ ui.formError \in BOOLEAN /\ ui.submitting \in BOOLEAN /\ ui.testing \in BOOLEAN
  /\ ui.tester \in FormTargets \cup {Nothing} /\ ui.testError \in BOOLEAN
  /\ ui.result \in [of: FormTargets, terms: Terms] \cup {Nothing}
  /\ net.suggestion \in BOOLEAN /\ net.ops \in 0..MaxOps
  /\ \A s \in net.saves : s.target \in FormTargets /\ s.form \in Terms /\ s.st \in {"sent", "ok"}
  /\ \A t \in net.tests : t.of \in FormTargets /\ t.terms \in Terms /\ t.live \in BOOLEAN

\* The page, with ?produto= or without.
Init ==
  /\ srv = [r \in Rules |-> 1]
  /\ ui = [rules |-> Rules, target |-> Create, form |-> NoTerms, rail |-> "rule",
           formError |-> FALSE, submitting |-> FALSE,
           tester |-> Nothing, testing |-> FALSE, testError |-> FALSE, result |-> Nothing]
  /\ \E suggestion \in BOOLEAN :
       net = [suggestion |-> suggestion, saves |-> {}, tests |-> {}, ops |-> 0]

CanAct == net.ops < MaxOps
Counted(n) == [n EXCEPT !.ops = @ + 1]

-----------------------------------------------------------------------------
(* The tester                                                              *)

\* The panel is there for the form, or for a row that is still in the table.
Panel(u) == u.tester # Nothing /\ u.tester \in u.rules \cup {Create}

\* What is tested: the fields as they stand in the form when they are the
\* panel's, the rule as it was read otherwise.
TestedTerms(u) == IF u.tester = u.target THEN u.form ELSE srv[u.tester]

\* Only the newest request may update the panel.
Invalidated_Not(n) == n
Invalidated(n) == [n EXCEPT !.tests = {[t EXCEPT !.live = FALSE] : t \in @}]

\* fetchRealTesterPreview
Asked(u, n) ==
  IF TestedTerms(u) = NoTerms
    THEN /\ ui' = [u EXCEPT !.testing = FALSE, !.testError = TRUE, !.result = Nothing]
         /\ net' = Counted(Invalidated(n))
    ELSE /\ ui' = [u EXCEPT !.testing = TRUE, !.testError = FALSE, !.result = Nothing]
         /\ net' = [Counted(Invalidated(n)) EXCEPT !.tests =
                      @ \cup {[n |-> n.ops, of |-> u.tester, terms |-> TestedTerms(u), live |-> TRUE]}]

\* The effect on the panel's target: asks for a new one, forgets the old one.
Retargeted(u, n) ==
  IF u.tester = ui.tester THEN ui' = u /\ net' = Counted(n)
  ELSE IF u.tester = Nothing
    THEN ui' = [u EXCEPT !.result = Nothing, !.testError = FALSE] /\ net' = Counted(n)
    ELSE Asked(u, n)

\* "Testar" of a row or of the form, and its second click, "Fechar".
OpenTester(of) ==
  /\ CanAct /\ of # ui.tester
  /\ of = Create => ui.target = Create /\ ui.rail = "rule"
  /\ of # Create => of \in ui.rules
  /\ Retargeted([ui EXCEPT !.tester = of, !.testing = FALSE], Invalidated(net))
  /\ UNCHANGED srv
CloseTester ==
  /\ CanAct /\ ui.tester # Nothing
  /\ Retargeted([ui EXCEPT !.tester = Nothing, !.testing = FALSE], Invalidated(net))
  /\ UNCHANGED srv

\* "Atualizar"
AskAgain ==
  /\ CanAct /\ Panel(ui) /\ ~ui.testing
  /\ Asked(ui, net)
  /\ UNCHANGED srv

AnswerTest(t, ok) ==
  /\ ui' = IF ~t.live THEN ui
           ELSE IF ok THEN [ui EXCEPT !.testing = FALSE, !.result = [of |-> t.of, terms |-> t.terms]]
           ELSE [ui EXCEPT !.testing = FALSE, !.testError = TRUE, !.result = Nothing]
  /\ net' = [net EXCEPT !.tests = @ \ {t}]
  /\ UNCHANGED srv

-----------------------------------------------------------------------------
(* The form                                                                *)

\* loadForm: a tester survives only as the one of the rule that is loaded.
Loaded(target, form, n) ==
  LET kept == target # Create /\ ui.tester = target IN
  Retargeted([ui EXCEPT !.target = target, !.form = form, !.formError = FALSE,
                        !.tester = IF kept THEN @ ELSE Nothing,
                        !.testing = @ /\ kept],
             IF kept THEN n ELSE Invalidated(n))

\* "Nova regra", "Limpar campos" / "Cancelar", "Editar", "Duplicar".
OpenCreate == CanAct /\ Loaded(Create, NoTerms, net) /\ UNCHANGED srv
OpenEdit(r) == CanAct /\ r \in ui.rules /\ Loaded(r, srv[r], net) /\ UNCHANGED srv
OpenDuplicate(r) == CanAct /\ r \in ui.rules /\ Loaded(Create, srv[r], net) /\ UNCHANGED srv

\* The rule suggested from a product's history, whenever it is answered.
AnswerSuggestion(ok) ==
  /\ net.suggestion /\ CanAct
  /\ IF ok THEN Loaded(Create, Suggested, [net EXCEPT !.suggestion = FALSE])
           ELSE ui' = ui /\ net' = [net EXCEPT !.suggestion = FALSE]
  /\ UNCHANGED srv

Type(form) ==
  /\ ui.rail = "rule" /\ form # ui.form
  /\ ui' = [ui EXCEPT !.form = form]
  /\ UNCHANGED <<srv, net>>

\* The recipient's form takes the rail, the rule's is kept behind it.
TurnRail(rail) ==
  /\ rail # ui.rail
  /\ ui' = [ui EXCEPT !.rail = rail]
  /\ UNCHANGED <<srv, net>>

\* submitForm: without a term it says so.
Submit ==
  /\ ui.rail = "rule" /\ ~ui.submitting /\ CanAct
  /\ IF ui.form = NoTerms
       THEN ui' = [ui EXCEPT !.formError = TRUE] /\ net' = Counted(net)
       ELSE /\ ui' = [ui EXCEPT !.formError = FALSE, !.submitting = TRUE]
            /\ net' = [Counted(net) EXCEPT !.saves =
                         @ \cup {[target |-> ui.target, form |-> ui.form, st |-> "sent"]}]
  /\ UNCHANGED srv

\* A new rule is one row more, which the table's next reading shows.
ServeSave(s) ==
  /\ s.st = "sent"
  /\ srv' = IF s.target = Create THEN srv ELSE [srv EXCEPT ![s.target] = s.form]
  /\ net' = [net EXCEPT !.saves = (@ \ {s}) \cup {[s EXCEPT !.st = "ok"]}]
  /\ UNCHANGED ui
\* Saved: the form is cleared, whatever it holds by now.
AnswerSave(s) ==
  /\ s.st = "ok" /\ CanAct
  /\ LET kept == [net EXCEPT !.saves = @ \ {s}] IN
     Retargeted([ui EXCEPT !.target = Create, !.form = NoTerms, !.formError = FALSE, !.submitting = FALSE,
                           !.tester = Nothing, !.testing = FALSE],
                Invalidated(kept))
  /\ UNCHANGED srv
FailSave(s) ==
  /\ ui' = [ui EXCEPT !.formError = TRUE, !.submitting = FALSE]
  /\ net' = [net EXCEPT !.saves = @ \ {s}]
  /\ UNCHANGED srv

\* The table is read again without a rule that was deleted.
RuleGone(r) ==
  /\ r \in ui.rules
  /\ ui' = [ui EXCEPT !.rules = @ \ {r}]
  /\ UNCHANGED <<srv, net>>

Next ==
  \/ \E of \in FormTargets : OpenTester(of)
  \/ CloseTester \/ AskAgain
  \/ \E t \in net.tests, ok \in BOOLEAN : AnswerTest(t, ok)
  \/ OpenCreate \/ Submit
  \/ \E r \in Rules : OpenEdit(r) \/ OpenDuplicate(r) \/ RuleGone(r)
  \/ \E ok \in BOOLEAN : AnswerSuggestion(ok)
  \/ \E form \in Terms : Type(form)
  \/ \E rail \in {"rule", "recipient"} : TurnRail(rail)
  \/ \E s \in net.saves : ServeSave(s) \/ AnswerSave(s) \/ FailSave(s)

Spec == Init /\ [][Next]_vars

-----------------------------------------------------------------------------
(* Properties                                                              *)

\* "A stale preview must never look like it describes what's on screen now"
\* (RegrasPage.tsx:228): the result in the panel is of the panel's target, and
\* while the panel waits there is none.
ResultIsOfPanel ==
  /\ Panel(ui) /\ ui.result # Nothing => ui.result.of = ui.tester
  /\ ui.testing => ui.result = Nothing
=============================================================================
