-------------------------------- MODULE MCPanel ------------------------------
(* An instance of the panel for TLC: two of whatever can be confused, one of *)
(* the rest, and bounds per part.                                            *)
EXTENDS Panel, TLC, Sequences

MCMaxOps ==
  [feed |-> 1, rails |-> 1, product |-> 4, table |-> 2, form |-> 4, people |-> 3, history |-> 2,
   economy |-> 2, links |-> 4, login |-> 6, bot |-> 2, groups |-> 2, wizard |-> 2, registry |-> 2,
   card |-> 2, theme |-> 3, price |-> 1, results |-> 4, manual |-> 3]
MCMaxPolls == [listener |-> 4, wizard |-> 1, health |-> 3, past |-> 4]
MCMaxChanges == [wizard |-> 2, health |-> 2, manual |-> 2]

\* Two postings of one product, found by one rule.
MCRuleOf == <<1, 1>>
MCProductOf == [m \in 1..2 |-> CHOOSE p \in Products : TRUE]
MCMessageOf == <<1, 2>>

\* Prices at every boundary of their writing, groups of digits at those of their
\* reading.
MCPrices == {1, 9, 10, 99, 100, 101, 110, 99999, 100000, 100001, 574900, 574990, 574905}
MCDigitGroups ==
  {[len |-> 1, val |-> 5], [len |-> 1, val |-> 0], [len |-> 2, val |-> 5],
   [len |-> 3, val |-> 749], [len |-> 4, val |-> 5749]}

\* Feeds of up to three matches: without a price, at, above and far below the target.
Statuses ==
  {"sent", "historical", "grouped", "digest_attempted", "digest_skipped", "failed",
   "not_allowlisted", "not_configured", "duplicate", "pending"}
Priced == [rule: {1, 2}, price: {Nothing, 100, 2010}, recent: BOOLEAN, deliveries: {{}}]
OneRule == [rule: {1}, price: {100, 2000, 2010}, recent: {TRUE}, deliveries: {{}}]
Told ==
  [rule: {1}, price: {Nothing}, recent: {TRUE},
   deliveries: {{}} \cup {{a, b} : a \in Statuses, b \in Statuses}]
MCFeeds == UNION {[1..1 -> Priced], [1..2 -> Priced], [1..3 -> OneRule], [1..2 -> Told]}

\* Purchases below, within and above the prices seen; one price seen only; a name
\* longer than a line; more pieces than the card has room for.
MCItem ==
  [paid: {10, 30000, 999999},
   seen: {Nothing, [lowest |-> 20000, median |-> 30000, highest |-> 40000],
          [lowest |-> 20000, median |-> 20000, highest |-> 20000]},
   name: {60}, store: {TRUE}]
ManyPieces == {[i \in 1..n |-> [paid |-> 999999, seen |-> Nothing, name |-> 60, store |-> TRUE]] : n \in 3..7}
MCReports == UNION {[1..1 -> MCItem], [1..2 -> MCItem], ManyPieces}
=============================================================================
