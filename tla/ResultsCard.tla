----------------------------- MODULE ResultsCard -----------------------------
(***************************************************************************)
(* The figures of the savings report (economia/summary.ts, priceRange.ts,  *)
(* utils/savings.ts) and the card made of them to be shared                *)
(* (economia/ResultsCardPanel.tsx, resultsCard.ts): its options, what goes *)
(* into it, where each block is drawn, and its export.                     *)
(*                                                                         *)
(* Lengths are in hundredths of a pixel, positions on a bar in percents.   *)
(* Of a text only its length is kept.                                      *)
(***************************************************************************)
EXTENDS Integers, Sequences, FiniteSets

LOCAL INSTANCE FiniteSetsExt
LOCAL INSTANCE SequencesExt

CONSTANTS Reports,   \* reports: sequences of purchases
          MaxOps,    \* bound: options changed and exports
          Nothing    \* null

VARIABLES srv, ui, net
vars == <<srv, ui, net>>

\* A purchase: what was paid, what the product was seen at (or Nothing, before
\* three prices), the length of its name, and whether a store was typed.
Items == DOMAIN srv.report
Item(i) == srv.report[i]
Saving(item) == item.seen.median - item.paid

TypeOK ==
  /\ ui.showPieces \in BOOLEAN /\ ui.includeStores \in BOOLEAN /\ ui.busy \in BOOLEAN
  /\ net.rendering = Nothing \/ Len(net.rendering.pieces) <= Len(srv.report)
  /\ net.consent \in BOOLEAN /\ net.ops \in 0..MaxOps

\* DEFAULT_CARD_OPTIONS
Init ==
  /\ srv \in [report: Reports]
  /\ ui = [showPieces |-> TRUE, includeStores |-> FALSE, busy |-> FALSE]
  /\ net = [rendering |-> Nothing, exported |-> {}, consent |-> FALSE, ops |-> 0]

-----------------------------------------------------------------------------
(* The figures of the page                                                 *)

WithHistory == {i \in Items : Item(i).seen # Nothing}
savingsBars ==
  LET median == MapThenSumSet(LAMBDA i : Item(i).seen.median, WithHistory)
      paid == MapThenSumSet(LAMBDA i : Item(i).paid, WithHistory)
      widest == Max({median, paid, 1})
  IN IF WithHistory = {} THEN Nothing
     ELSE [median |-> median, paid |-> paid,
           medianWidth |-> (median * 100) \div widest, paidWidth |-> (paid * 100) \div widest]
paidShares ==
  LET total == MapThenSumSet(LAMBDA i : Item(i).paid, Items)
  IN SortSeq([i \in Items |-> (Item(i).paid * 100) \div total], >)

\* The totals are the api's, over the purchases with a history.
estimated_saving_cents == MapThenSumSet(LAMBDA i : Saving(Item(i)), WithHistory)
savingsHeadline ==
  IF WithHistory = {} THEN "none" ELSE IF estimated_saving_cents < 0 THEN "bad" ELSE "good"
savingTone(item) ==
  IF item.seen = Nothing THEN "none"
  ELSE IF Saving(item) > 0 THEN "good" ELSE IF Saving(item) < 0 THEN "bad" ELSE "neutral"

clampPct(v) == Min({100, Max({0, v})})
priceRange_Unclamped(item) ==
  LET min == Min({item.seen.lowest, item.seen.median})
      max == Max({item.seen.highest, item.seen.median})
      position(c) == IF max = min THEN 50 ELSE ((c - min) * 100) \div (max - min)
  IN [medianPos |-> position(item.seen.median), paidPos |-> position(item.paid),
      tone |-> IF item.paid > item.seen.median THEN "bad" ELSE "good",
      outside |-> IF item.paid < min THEN "low" ELSE IF item.paid > max THEN "high" ELSE Nothing]
priceRange(item) ==
  LET min == Min({item.seen.lowest, item.seen.median})
      max == Max({item.seen.highest, item.seen.median})
      position(c) == IF max = min THEN 50 ELSE clampPct(((c - min) * 100) \div (max - min))
  IN [medianPos |-> position(item.seen.median), paidPos |-> position(item.paid),
      tone |-> IF item.paid > item.seen.median THEN "bad" ELSE "good",
      outside |-> IF item.paid < min THEN "low" ELSE IF item.paid > max THEN "high" ELSE Nothing]

-----------------------------------------------------------------------------
(* The card                                                                *)

MAX_PIECES == 4
CARD_WIDTH == 108000
MARGIN == 6000
INNER == CARD_WIDTH - 2 * MARGIN
PIECE_ROW == 7200

pieceOf(item, stores) == [name |-> item.name, paid |-> item.paid, seen |-> item.seen,
                          store |-> stores /\ item.store]
buildResultsAggregates ==
  [pieces |-> IF ui.showPieces THEN [i \in Items |-> pieceOf(Item(i), ui.includeStores)] ELSE <<>>]

\* "R$ 1.234,56", and a saving with its sign and its percentage.
CurrencyLen(cents) ==
  LET digits == CHOOSE k \in 1..8 : cents \div 100 < 10 ^ k /\ (k > 1 => 10 ^ (k - 1) <= cents \div 100)
  IN 3 + digits + (digits - 1) \div 3 + 3
GainLen(piece) == IF piece.seen = Nothing THEN 13 ELSE 12 + CurrencyLen(Max({Saving(piece), -Saving(piece)}))
\* GLYPH_WIDTH_BOLD is 0.64 of the size.
estimateTextWidth(len, size) == len * size * 64
fitSize(len, maxSize, maxWidth, min) == Max({min, Min({maxSize, maxWidth \div (len * 64)})})
truncateToWidth(len, size, maxWidth) == Min({len, Max({4, maxWidth \div (size * 64)})})

numbersWidth(piece) ==
  Min({56000, Max({estimateTextWidth(CurrencyLen(piece.paid), 28), estimateTextWidth(GainLen(piece), 22)})})
\* The width the name takes, with a store typed after it.
nameWidth(piece) ==
  LET len == piece.name + (IF piece.store THEN 13 ELSE 0)
  IN estimateTextWidth(truncateToWidth(len, 30, INNER - numbersWidth(piece) - 3200), 30)

\* The flow of the card from the top: every block as where it begins and ends.
Block(top, height) == [top |-> top, bottom |-> top + height]
buildResultsSvg_EveryPiece(card) ==
  LET shown == Len(card.pieces)
      rows == [i \in 1..shown |-> Block(75000 + (i - 1) * PIECE_ROW, PIECE_ROW)]
      cursor == IF shown = 0 THEN 69000 ELSE 75000 + shown * PIECE_ROW
  IN <<Block(5000, 12000), Block(20000, 29000), Block(52000, 15000)>> \o rows
       \o <<Block(cursor + 2800, 14000), Block(126500, 5500)>>
buildResultsSvg(card) ==
  LET shown == Min({MAX_PIECES, Len(card.pieces)})
      rows == [i \in 1..shown |-> Block(75000 + (i - 1) * PIECE_ROW, PIECE_ROW)]
      more == Len(card.pieces) > shown
      cursor == (IF shown = 0 THEN 69000 ELSE 75000 + shown * PIECE_ROW) + (IF more THEN 4400 ELSE 0)
  IN <<Block(5000, 12000), Block(20000, 29000), Block(52000, 15000)>> \o rows
       \o (IF more THEN <<Block(cursor - 4400, 3000)>> ELSE <<>>)
       \o <<Block(cursor + 2800, 14000), Block(126500, 5500)>>

-----------------------------------------------------------------------------
(* The panel                                                               *)

Counted == [net EXCEPT !.ops = @ + 1]

\* Without pieces there are no stores, and they do not come back with the pieces.
TogglePieces_KeepsStores ==
  /\ net.ops < MaxOps
  /\ ui' = [ui EXCEPT !.showPieces = ~@]
  /\ net' = [Counted EXCEPT !.consent = FALSE]
  /\ UNCHANGED srv
TogglePieces ==
  /\ net.ops < MaxOps
  /\ ui' = [ui EXCEPT !.showPieces = ~@, !.includeStores = ~ui.showPieces /\ @]
  /\ net' = [Counted EXCEPT !.consent = FALSE]
  /\ UNCHANGED srv
ToggleStores ==
  /\ ui.showPieces /\ net.ops < MaxOps
  /\ ui' = [ui EXCEPT !.includeStores = ~@]
  /\ net' = [Counted EXCEPT !.consent = ~ui.includeStores]
  /\ UNCHANGED srv

\* The image is rendered of the card of the click, the options may change.
Export(card) == [Counted EXCEPT !.exported = @ \cup {[card |-> card, consent |-> net.consent]}]
downloadJson ==
  /\ net.ops < MaxOps
  /\ net' = Export(buildResultsAggregates)
  /\ UNCHANGED <<srv, ui>>
downloadPng ==
  /\ ~ui.busy /\ net.ops < MaxOps
  /\ ui' = [ui EXCEPT !.busy = TRUE]
  /\ net' = [Counted EXCEPT !.rendering = [pieces |-> buildResultsAggregates.pieces, consent |-> net.consent]]
  /\ UNCHANGED srv
Rendered(ok) ==
  /\ ui.busy
  /\ ui' = [ui EXCEPT !.busy = FALSE]
  /\ net' = [net EXCEPT !.rendering = Nothing,
                        !.exported = IF ok THEN @ \cup {[card |-> [pieces |-> net.rendering.pieces],
                                                         consent |-> net.rendering.consent]} ELSE @]
  /\ UNCHANGED srv

Next ==
  \/ TogglePieces \/ ToggleStores \/ downloadJson \/ downloadPng
  \/ \E ok \in BOOLEAN : Rendered(ok)

Spec == Init /\ [][Next]_vars

-----------------------------------------------------------------------------
(* Properties                                                              *)

\* The hero, its bars and the rows agree on who paid more: the headline is bad
\* when the paid bar is the longer one, a row is bad when its marker is right of
\* the median's; a marker never leaves its bar, and is at its edge when outside.
ReportAgrees ==
  /\ (savingsBars = Nothing) = (savingsHeadline = "none")
  /\ savingsBars # Nothing => /\ (savingsHeadline = "bad") = (savingsBars.paid > savingsBars.median)
                              /\ Max({savingsBars.paidWidth, savingsBars.medianWidth}) = 100
  /\ \A i \in WithHistory :
       LET r == priceRange(Item(i))
       IN /\ (r.tone = "bad") = (savingTone(Item(i)) = "bad")
          /\ r.paidPos \in 0..100 /\ r.medianPos \in 0..100
          /\ r.outside = "low" => r.paidPos \in {0, 50}
          /\ r.outside = "high" => r.paidPos \in {100, 50}
          /\ r.paidPos > r.medianPos => r.tone = "bad"
  /\ FoldLeft(LAMBDA a, b : a + b, 0, paidShares) \in (100 - Len(srv.report))..100

\* Whatever the number of purchases and the length of their texts, no block of the
\* card begins before the one above ends, a name never reaches its numbers, and the
\* total stays in its box, unless it is too long for the smallest size (fitSize's 22,
\* which 18 characters are).
FitsAtSmallest(len) == estimateTextWidth(len, 22) <= 24400
CardHasRoom ==
  LET blocks == buildResultsSvg(buildResultsAggregates)
  IN /\ \A k \in 1..(Len(blocks) - 1) : blocks[k].bottom <= blocks[k + 1].top
     /\ \A k \in DOMAIN buildResultsAggregates.pieces :
          LET p == buildResultsAggregates.pieces[k] IN nameWidth(p) + numbersWidth(p) <= INNER
     /\ LET len == CurrencyLen(MapThenSumSet(LAMBDA i : Item(i).paid, Items))
        IN FitsAtSmallest(len) => estimateTextWidth(len, fitSize(len, 52, 24400, 22)) <= 24400

\* No store leaves the panel that was not asked for since the pieces were shown,
\* however late the image is ready.
StoresAreOptIn == \A e \in net.exported : (\E k \in DOMAIN e.card.pieces : e.card.pieces[k].store) => e.consent

ReportIsTrue == ReportAgrees /\ CardHasRoom /\ StoresAreOptIn
=============================================================================
