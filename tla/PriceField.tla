----------------------------- MODULE PriceField ------------------------------
(***************************************************************************)
(* A price in a text field of the panel: how each field writes the stored  *)
(* price, how the one parser reads what stands there                       *)
(* (utils/priceInput.ts), and how the api reads the one price that is sent *)
(* as text (packages/rules/manual_price.py).                               *)
(*                                                                         *)
(* A text is its groups of digits: those a dot separates, and the one      *)
(* after the comma.  A group is its length and its value, so that "05" and *)
(* "5" are two.                                                            *)
(***************************************************************************)
EXTENDS Integers, Sequences

LOCAL INSTANCE SequencesExt

CONSTANTS Prices,      \* prices in cents
          DigitGroups,      \* groups of digits the administrator types
          MAX_SAFE,    \* Number.MAX_SAFE_INTEGER, scaled down
          MaxOps,      \* bound: submissions
          Nothing      \* null

VARIABLES srv, ui, net
vars == <<srv, ui, net>>

\* The fields: the target in the product panel, the form that corrects a match,
\* the target of a rule (which may be left empty), the price of a purchase.
PriceFields == {"target", "edit", "rule", "purchase"}

Empty == [dots |-> <<>>, comma |-> Nothing]
Texts ==
  [dots: {<<a>> : a \in DigitGroups} \cup {<<a, b>> : a \in DigitGroups, b \in DigitGroups}, comma: DigitGroups \cup {Nothing}]

TypeOK ==
  /\ srv.price \in Int \cup {Nothing}
  /\ ui.field \in PriceFields \cup {Nothing} /\ ui.touched \in BOOLEAN /\ ui.error \in BOOLEAN
  /\ net.sent = Nothing \/ net.sent.field \in PriceFields
  /\ net.ops \in 0..MaxOps

Init ==
  /\ srv \in [price: Prices \cup {Nothing}]
  /\ ui = [field |-> Nothing, text |-> Empty, touched |-> FALSE, error |-> FALSE]
  /\ net = [sent |-> Nothing, ops |-> 0]

-----------------------------------------------------------------------------
(* Writing                                                                 *)

Digits(n) == CHOOSE k \in 1..7 : n < 10 ^ k /\ (k > 1 => 10 ^ (k - 1) <= n)
Whole(n) == [len |-> Digits(n), val |-> n]
Pair(n) == [len |-> 2, val |-> n]
\* toLocaleString('pt-BR')
Dotted(n) ==
  IF n < 1000 THEN <<Whole(n)>> ELSE <<Whole(n \div 1000), [len |-> 3, val |-> n % 1000]>>

formatPriceInput(c) == [dots |-> Dotted(c \div 100), comma |-> Pair(c % 100)]
formatPriceForApi(c) == [dots |-> <<Whole(c \div 100)>>, comma |-> Pair(c % 100)]
\* String(cents / 100): a dot, and no zero at the end.
priceToInput(c) ==
  LET reais == Whole(c \div 100)
      rest == c % 100
  IN [dots |-> IF rest = 0 THEN <<reais>>
               ELSE IF rest % 10 = 0 THEN <<reais, Whole(rest \div 10)>> ELSE <<reais, Pair(rest)>>,
      comma |-> Nothing]

Written(f, c) ==
  IF c = Nothing THEN Empty ELSE IF f = "rule" THEN priceToInput(c) ELSE formatPriceInput(c)

-----------------------------------------------------------------------------
(* Reading                                                                 *)

\* The digits one after the other, as one number.
Joined(groups) == FoldLeft(LAMBDA n, g : n * 10 ^ g.len + g.val, 0, groups)
Cents(reais, g) == reais * 100 + (IF g = Nothing THEN 0 ELSE IF g.len = 1 THEN 10 * g.val ELSE g.val)
amountToCents(reais, g) == IF Cents(reais, g) \in 1..MAX_SAFE THEN Cents(reais, g) ELSE Nothing

Thousands(t) == Len(t.dots) > 1 /\ t.dots[1].len <= 3 /\ \A i \in 2..Len(t.dots) : t.dots[i].len = 3
Bare(t) == Len(t.dots) = 1
DotDecimal(t) == Len(t.dots) = 2 /\ t.dots[2].len <= 2 /\ t.comma = Nothing

parsePriceInput_DotIsThousands(t) ==
  IF (Thousands(t) \/ Bare(t)) /\ (t.comma # Nothing => t.comma.len <= 2)
    THEN amountToCents(Joined(t.dots), t.comma)
  ELSE IF DotDecimal(t) THEN amountToCents(Joined(t.dots), Nothing)
  ELSE Nothing
parsePriceInput(t) ==
  IF (Thousands(t) \/ Bare(t)) /\ (t.comma # Nothing => t.comma.len <= 2)
    THEN amountToCents(Joined(t.dots), t.comma)
  ELSE IF DotDecimal(t) THEN amountToCents(t.dots[1].val, t.dots[2])
  ELSE Nothing

\* The api asks for two digits after thousands and a comma, and has no largest price.
parse_manual_price_cents(t) ==
  LET decimal == t.comma # Nothing => t.comma.len \in IF Bare(t) THEN {1, 2} ELSE {2}
      cents == IF (Thousands(t) \/ Bare(t)) /\ decimal THEN Cents(Joined(t.dots), t.comma)
               ELSE IF DotDecimal(t) THEN Cents(t.dots[1].val, t.dots[2])
               ELSE 0
  IN IF cents > 0 THEN cents ELSE Nothing

-----------------------------------------------------------------------------
(* The fields                                                              *)

Open(f) ==
  /\ ui.field = Nothing /\ net.sent = Nothing
  /\ ui' = [field |-> f, text |-> Written(f, srv.price), touched |-> FALSE, error |-> FALSE]
  /\ UNCHANGED <<srv, net>>
Type(t) ==
  /\ ui.field # Nothing /\ ~ui.touched
  /\ ui' = [ui EXCEPT !.text = t, !.touched = TRUE, !.error = FALSE]
  /\ UNCHANGED <<srv, net>>

\* The form that corrects a match sends the text of the price it has read; the
\* others send its cents.
Sent(f, c) == IF f = "edit" THEN parse_manual_price_cents(formatPriceForApi(c)) ELSE c
Submit ==
  /\ ui.field # Nothing /\ net.sent = Nothing /\ net.ops < MaxOps
  /\ LET c == parsePriceInput(ui.text)
     IN IF c # Nothing \/ (ui.field = "rule" /\ ui.text = Empty)
          THEN /\ net' = [ops |-> net.ops + 1,
                          sent |-> [field |-> ui.field, of |-> ui.text, touched |-> ui.touched,
                                    cents |-> IF c = Nothing THEN c ELSE Sent(ui.field, c)]]
               /\ UNCHANGED ui
          ELSE ui' = [ui EXCEPT !.error = TRUE] /\ UNCHANGED net
  /\ UNCHANGED srv
Serve ==
  /\ net.sent # Nothing
  /\ srv' = [price |-> net.sent.cents]
  /\ ui' = [ui EXCEPT !.field = Nothing, !.text = Empty, !.touched = FALSE]
  /\ net' = [net EXCEPT !.sent = Nothing]

Next ==
  \/ \E f \in PriceFields : Open(f)
  \/ \E t \in Texts \cup {Empty} : Type(t)
  \/ Submit \/ Serve

Spec == Init /\ [][Next]_vars

-----------------------------------------------------------------------------
(* Properties                                                              *)

\* What a text is worth, read from its digits alone: all of them one number, the
\* last one or two after a comma, or after a dot, being cents.
Worth(t) ==
  LET last == IF t.comma # Nothing THEN t.comma
              ELSE IF Len(t.dots) > 1 THEN t.dots[Len(t.dots)] ELSE [len |-> 3, val |-> 0]
      all == IF t.comma # Nothing THEN Append(t.dots, t.comma) ELSE t.dots
  IN Joined(all) * (IF last.len > 2 THEN 100 ELSE IF last.len = 1 THEN 10 ELSE 1)

\* A price that is saved is what its text is worth, whichever the field and
\* whoever reads it; "5.749" is five thousand.  A field saved as it was opened
\* keeps the price.
PriceIsReadAsWritten ==
  /\ net.sent # Nothing =>
       /\ net.sent.cents = (IF net.sent.of = Empty THEN Nothing ELSE Worth(net.sent.of))
       /\ ~net.sent.touched => net.sent.cents = srv.price
  /\ ui.error => ui.touched \/ srv.price = Nothing
=============================================================================
