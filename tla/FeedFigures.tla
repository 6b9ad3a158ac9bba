----------------------------- MODULE FeedFigures -----------------------------
(***************************************************************************)
(* The numbers of the feed page, worked out twice: by the api for a card   *)
(* (packages/rules/target.py, routers/matches.py) and by the browser for   *)
(* the rails beside it (utils/target.ts, utils/robustLowestPrice.ts), with *)
(* the card's own price line, sparkline and delivery pill.                 *)
(*                                                                         *)
(* Fractions are compared by cross multiplication: the arithmetic is exact *)
(* where the browser's is floating point.                                  *)
(***************************************************************************)
EXTENDS Integers, Sequences, FiniteSets

LOCAL INSTANCE FiniteSetsExt
LOCAL INSTANCE SequencesExt

CONSTANTS Feeds,     \* feeds: sequences of [rule, price, recent, deliveries]
          Targets,   \* targets of a rule, in cents
          Nothing    \* null

VARIABLES srv, ui, net
vars == <<srv, ui, net>>

\* deliveryStatus.ts, in the order in which one status hides another.
Statuses == <<"sent", "historical", "grouped", "digest_attempted", "digest_skipped", "failed",
              "not_allowlisted", "not_configured", "duplicate", "pending">>
Index == 1..Len(srv.feed)
RuleIds == {srv.feed[i].rule : i \in Index}

TypeOK ==
  /\ srv.target \in Targets \cup {Nothing}
  /\ ui = Nothing \/ DOMAIN ui = {"cards", "rail", "nearest", "sent", "failed", "lowest"}
  /\ net = Nothing

\* Every rule has the same target, or none has one.
Init ==
  /\ srv \in [feed: Feeds, target: Targets \cup {Nothing}]
  /\ ui = Nothing /\ net = Nothing

-----------------------------------------------------------------------------
(* Targets                                                                 *)

targetHit(price, target) == price # Nothing /\ target # Nothing /\ price <= target
targetGapPct(price, target) ==
  IF price = Nothing \/ target = Nothing THEN Nothing
  ELSE IF price <= target THEN 0 ELSE ((price - target) * 100) \div target

TargetOf(rule) == srv.target
\* A target means something for an offer of the last day only.
live_target_price(m) == IF m.recent THEN TargetOf(m.rule) ELSE Nothing
target_hit(m) == targetHit(m.price, live_target_price(m))
target_gap_pct(m) == targetGapPct(m.price, live_target_price(m))

\* GET /rules: the lowest price of the rule's last day.
lowest_price_24h_cents(rule) ==
  LET prices == {srv.feed[i].price : i \in {j \in Index : srv.feed[j].rule = rule /\ srv.feed[j].recent}} \ {Nothing}
  IN IF prices = {} THEN Nothing ELSE Min(prices)

ruleTargetState(rule) ==
  LET target == TargetOf(rule)
      price == lowest_price_24h_cents(rule)
  IN IF target = Nothing THEN [kind |-> "none"]
     ELSE IF price = Nothing THEN [kind |-> "no-offer"]
     ELSE IF targetHit(price, target) THEN [kind |-> "hit"]
     ELSE [kind |-> "gap", gapPct |-> Max({1, targetGapPct(price, target)})]

\* Math.round
Round(a, b) == (2 * a + b) \div (2 * b)
progressPct(rule) ==
  LET price == lowest_price_24h_cents(rule)
  IN IF price = Nothing THEN 0 ELSE Min({100, Round(TargetOf(rule) * 100, price)})
targetRows ==
  [r \in {r \in RuleIds : TargetOf(r) # Nothing} |->
     [state |-> ruleTargetState(r), progress |-> progressPct(r)]]
nearestTargetGapPct ==
  LET open == {targetRows[r].state.gapPct : r \in {q \in DOMAIN targetRows : targetRows[q].state.kind = "gap"}}
  IN IF open = {} THEN Nothing ELSE Min(open)

-----------------------------------------------------------------------------
(* The lowest price that is no mistake                                     *)

PricesOf(rule) == SelectSeq([i \in Index |-> IF srv.feed[i].rule = rule THEN srv.feed[i].price ELSE Nothing],
                            LAMBDA p : p # Nothing)
\* Twice the median, which may lie between two prices.
medianOf(prices) ==
  LET sorted == SortSeq(prices, <)
      mid == Len(sorted) \div 2
  IN IF Len(sorted) % 2 = 0 THEN sorted[mid] + sorted[mid + 1] ELSE 2 * sorted[mid + 1]
robustLowestPriceCents_AnyPrice ==
  LET priced == {i \in Index : srv.feed[i].price # Nothing}
  IN IF priced = {} THEN Nothing ELSE Min({srv.feed[i].price : i \in priced})
robustLowestPriceCents ==
  LET priced == {i \in Index : srv.feed[i].price # Nothing}
      valid == {i \in priced : srv.feed[i].price * 10 >= medianOf(PricesOf(srv.feed[i].rule))}
  IN IF valid = {} THEN Nothing ELSE Min({srv.feed[i].price : i \in valid})

-----------------------------------------------------------------------------
(* The card                                                                *)

\* One status for all the deliveries of a match.
summarizeDeliveryStatus(deliveries) ==
  LET hides(s) == IF s = "not_configured" THEN deliveries = {s} ELSE s \in deliveries
      shown == SelectSeq(Statuses, hides)
  IN IF deliveries = {} THEN "none" ELSE IF shown = <<>> THEN "pending" ELSE shown[1]

\* The height of a point between min and max, in a box with a margin, in hundredths.
toY(value, values, height, pad) ==
  LET span == Max(values) - Min(values)
  IN IF span = 0 THEN height * 50
     ELSE pad * 100 + ((Max(values) - value) * (height - 2 * pad) * 100) \div span
buildSparkGeometry(series, target) ==
  LET values == ToSet(series) \cup ({target} \ {Nothing})
  IN [points |-> [i \in DOMAIN series |-> toY(series[i], values, 34, 4)],
      targetY |-> IF target = Nothing THEN Nothing ELSE toY(target, values, 34, 4)]
\* The chart of the product panel, without a target.
buildChartGeometry(series) == [i \in DOMAIN series |-> toY(series[i], ToSet(series), 150, 16)]

computeAverageDelta30d(series, price) ==
  LET sum == FoldLeft(LAMBDA a, b : a + b, 0, series)
      gap == price * Len(series) - sum
  IN IF price = Nothing \/ Len(series) < 3 THEN Nothing
     ELSE [pct |-> Round(gap * 100, sum), belowAverage |-> gap < 0]

\* The line under the price, where there is one price: how far the target is, or what the month says.
Card(m) ==
  LET series == PricesOf(m.rule)
  IN [hit     |-> target_hit(m),
      gap     |-> IF target_hit(m) THEN Nothing ELSE target_gap_pct(m),
      average |-> IF TargetOf(m.rule) # Nothing THEN Nothing ELSE computeAverageDelta30d(series, m.price),
      status  |-> summarizeDeliveryStatus(m.deliveries),
      spark   |-> IF series = <<>> THEN Nothing ELSE buildSparkGeometry(series, TargetOf(m.rule)),
      chart   |-> buildChartGeometry(series)]

-----------------------------------------------------------------------------
Count(status) == Cardinality({i \in Index : status \in srv.feed[i].deliveries})
Draw ==
  /\ ui = Nothing
  /\ ui' = [cards |-> [i \in Index |-> Card(srv.feed[i])], rail |-> targetRows, nearest |-> nearestTargetGapPct,
            sent |-> Count("sent"), failed |-> Count("failed"), lowest |-> robustLowestPriceCents]
  /\ UNCHANGED <<srv, net>>

Next == Draw
Spec == Init /\ [][Next]_vars

-----------------------------------------------------------------------------
(* Properties                                                              *)

Cards(rule) == {ui.cards[i] : i \in {j \in Index : srv.feed[j].rule = rule}}

\* The rail and the cards of a rule say the same of its target: reached when a
\* card's is, without an offer when no card has one, and else as far as the
\* nearest card, which the rail rounds up to 1%.
RailIsOfCards ==
  \A r \in DOMAIN ui.rail :
    LET gaps == {c.gap : c \in Cards(r)} \ {Nothing}
        row == ui.rail[r]
    IN /\ (row.state.kind = "hit") = (\E c \in Cards(r) : c.hit)
       /\ row.state.kind = "gap" => gaps # {} /\ row.state.gapPct = Max({1, Min(gaps)})
       /\ row.state.kind = "no-offer" => gaps = {} /\ row.progress = 0
       /\ row.progress \in 0..100 /\ (row.state.kind = "hit" => row.progress = 100)
       /\ row.state.kind = "gap" => ui.nearest <= row.state.gapPct

\* The lowest price is a price of the feed, no less than a fifth of its rule's
\* median, and it is there whenever some match has a price.
LowestIsAPrice ==
  LET priced == {i \in Index : srv.feed[i].price # Nothing}
  IN IF priced = {} THEN ui.lowest = Nothing
     ELSE \E i \in priced : /\ srv.feed[i].price = ui.lowest
                            /\ 10 * ui.lowest >= medianOf(PricesOf(srv.feed[i].rule))

\* A card never says of a delivery what the totals deny, and calls the alerts off
\* only when they are for everyone.
PillsAreOfDeliveries ==
  /\ (ui.sent > 0) = (\E i \in Index : ui.cards[i].status = "sent")
  /\ \A i \in Index : LET d == srv.feed[i].deliveries
                          s == ui.cards[i].status
                      IN /\ s = "failed" => ui.failed > 0 /\ "sent" \notin d
                         /\ s = "not_configured" => d = {s}
                         /\ s = "none" <=> d = {}

\* The line is drawn inside its box and a cheaper day is drawn lower; the month's
\* percentage is below zero only for a price below the average.
LinesAreTrue ==
  \A i \in Index :
    LET series == PricesOf(srv.feed[i].rule)
        c == ui.cards[i]
    IN /\ series # <<>> /\ c.spark.targetY # Nothing => c.spark.targetY \in 400..3000
       /\ \A a \in DOMAIN series :
            /\ c.spark.points[a] \in 400..3000 /\ c.chart[a] \in 1600..13400
            /\ \A b \in DOMAIN series : series[a] < series[b] => c.chart[a] > c.chart[b]
       /\ c.average # Nothing => (c.average.pct < 0 => c.average.belowAverage)
                                 /\ (c.average.pct > 0 => ~c.average.belowAverage)

FiguresAreTrue == ui # Nothing => RailIsOfCards /\ LowestIsAPrice /\ PillsAreOfDeliveries /\ LinesAreTrue

\* The rail "never disagrees with what a match's own target_hit/target_gap_pct
\* fields already say about that same rule" (utils/target.ts:4): the percentage a
\* rail says is missing is one that a card of the rule says.
RailAgreesWithCard ==
  ui # Nothing =>
    \A r \in DOMAIN ui.rail :
      ui.rail[r].state.kind = "gap" => \E c \in Cards(r) : c.gap = ui.rail[r].state.gapPct
=============================================================================
