--------------------------------- MODULE Panel -------------------------------
(***************************************************************************)
(* The web panel (apps/web/src/App.tsx): the router mounts one page at a   *)
(* time, and the parts of a page that share no state, each a hook or a     *)
(* component of its own, are followed one at a time as well.               *)
(*                                                                         *)
(* Every part is a module with the same three variables: srv, what the api *)
(* holds of it; ui, what the component holds; net, the calls, answers and  *)
(* events on their way between the two, and what the properties remember.  *)
(* Two parts are handlers of the api alone and leave ui at Nothing.        *)
(* The session the pages share is in AdminSession.                         *)
(***************************************************************************)
EXTENDS Integers, FiniteSets

CONSTANTS
  Nothing,                          \* null
  MaxOps,                           \* bound: part -> clicks and calls made in it
  MaxPolls,                         \* bound: part -> readings of a status
  MaxChanges,                       \* bound: part -> changes that happen elsewhere
  Rules, SomeRules,                 \* rule ids, and those a small part needs
  Products,                         \* product keys
  MaxMatch, RuleOf, ProductOf, MessageOf,                             \* LiveFeed
  RAIL_RULES_VISIBLE, MaxScroll, Fields, MaxSaves, MaxHistory,        \* the rest of the feed
  Ranges, FirstRange, MaxTerms, MaxApplies, Recipients,               \* product panel, rules
  Matches, Searches, Choices, NoSearch, NoChoice,                     \* history
  Purchases, Queries, Short,                                          \* savings
  MAX_CODE_ATTEMPTS, MaxLogins, MaxLinks, MaxAccounts,                \* setup
  Sources, Chats, MaxPast,                                            \* sources, health
  Tabs,                                                               \* the theme
  Targets, Feeds, Reports, Prices, DigitGroups, MAX_SAFE,                 \* prices and figures
  Corrections, Detected, RuleTargets                                  \* corrected prices

VARIABLES part, srv, ui, net
vars == <<part, srv, ui, net>>

\* The scopes and products that some match of the feed has.
FeedRules == {RuleOf[m] : m \in 1..MaxMatch}
FeedProducts == {ProductOf[m] : m \in 1..MaxMatch}

Feed == INSTANCE LiveFeed WITH Rules <- FeedRules, Products <- FeedProducts, MaxOps <- MaxOps["feed"]
Rails == INSTANCE FeedRails WITH MaxLoads <- MaxOps["rails"]
Digest == INSTANCE FeedDigest
Address == INSTANCE PanelUrl
Product == INSTANCE ProductPanel WITH MaxSaves <- 1, MaxOps <- MaxOps["product"]
Table == INSTANCE RuleTable WITH MaxOps <- MaxOps["table"]
Form == INSTANCE RuleForm WITH MaxOps <- MaxOps["form"]
Listener == INSTANCE ListenerPoll WITH MaxPolls <- MaxPolls["listener"]
People == INSTANCE Recipients WITH Rules <- SomeRules, MaxOps <- MaxOps["people"]
History == INSTANCE HistoryPage WITH MaxOps <- MaxOps["history"]
Economy == INSTANCE EconomyPage WITH Ids <- Purchases, MaxOps <- MaxOps["economy"]
Links == INSTANCE LinkSearch WITH MaxOps <- MaxOps["links"]
Login == INSTANCE TelegramLogin WITH MaxCalls <- MaxOps["login"]
Bot == INSTANCE SetupBot WITH MaxOps <- MaxOps["bot"]
Groups == INSTANCE SetupGroups WITH MaxOps <- MaxOps["groups"], MaxLoads <- 1
Wizard == INSTANCE SetupWizard WITH MaxChanges <- MaxChanges["wizard"], MaxOps <- MaxOps["wizard"],
                                    MaxPolls <- MaxPolls["wizard"]
Registry == INSTANCE SourcesPage WITH Ids <- Sources, MaxOps <- MaxOps["registry"]
Health == INSTANCE HealthPoll WITH MaxChanges <- MaxChanges["health"], MaxPolls <- MaxPolls["health"]
Past == INSTANCE HealthHistory WITH MaxReads <- MaxPolls["past"]
Card == INSTANCE MatchCard WITH MaxOps <- MaxOps["card"]
Theme == INSTANCE ThemeStore WITH MaxOps <- MaxOps["theme"]
Price == INSTANCE PriceField WITH MaxOps <- MaxOps["price"]
Figures == INSTANCE FeedFigures
Manual == INSTANCE ManualTarget WITH MaxPatches <- MaxOps["manual"], MaxReverts <- 1,
                                     MaxFaults <- MaxChanges["manual"]
Results == INSTANCE ResultsCard WITH MaxOps <- MaxOps["results"]

\* null is no login, no row, nobody, no filter and no theme, a wrong code counts, and
\* the rules are finitely many.
ASSUME PanelAssumption ==
  /\ MAX_CODE_ATTEMPTS \in Nat \ {0} /\ MaxLogins \in Nat /\ MaxOps["manual"] \in Nat
  /\ Nothing \notin Login!Pending \cup Recipients \cup Products \cup History!FilterForm
  /\ Nothing \notin Theme!ThemePreference
  /\ IsFiniteSet(Rules)
  /\ Nothing \notin [price : Manual!Price \cup {Nothing}, source : {Nothing, "manual", "parsed"},
                     original : Manual!Price \cup {Nothing}]

-----------------------------------------------------------------------------
(* Every invariant of a part, in the states of that part                   *)

TypeOK ==
  CASE part = "feed"     -> Feed!TypeOK
    [] part = "rails"    -> Rails!TypeOK
    [] part = "digest"   -> Digest!TypeOK
    [] part = "address"  -> Address!TypeOK
    [] part = "product"  -> Product!TypeOK
    [] part = "table"    -> Table!TypeOK
    [] part = "form"     -> Form!TypeOK
    [] part = "listener" -> Listener!TypeOK
    [] part = "people"   -> People!TypeOK
    [] part = "history"  -> History!TypeOK
    [] part = "economy"  -> Economy!TypeOK
    [] part = "links"    -> Links!TypeOK
    [] part = "login"    -> Login!TypeOK
    [] part = "bot"      -> Bot!TypeOK
    [] part = "groups"   -> Groups!TypeOK
    [] part = "wizard"   -> Wizard!TypeOK
    [] part = "registry" -> Registry!TypeOK
    [] part = "health"   -> Health!TypeOK
    [] part = "past"     -> Past!TypeOK
    [] part = "card"     -> Card!TypeOK
    [] part = "theme"    -> Theme!TypeOK
    [] part = "price"    -> Price!TypeOK
    [] part = "figures"  -> Figures!TypeOK
    [] part = "manual"   -> Manual!TypeOK
    [] part = "results"  -> Results!TypeOK

Init ==
  \/ part = "feed" /\ Feed!Init
  \/ part = "rails" /\ Rails!Init
  \/ part = "digest" /\ Digest!Init
  \/ part = "address" /\ Address!Init
  \/ part = "product" /\ Product!Init
  \/ part = "table" /\ Table!Init
  \/ part = "form" /\ Form!Init
  \/ part = "listener" /\ Listener!Init
  \/ part = "people" /\ People!Init
  \/ part = "history" /\ History!Init
  \/ part = "economy" /\ Economy!Init
  \/ part = "links" /\ Links!Init
  \/ part = "login" /\ Login!Init /\ ui = Nothing
  \/ part = "bot" /\ Bot!Init
  \/ part = "groups" /\ Groups!Init
  \/ part = "wizard" /\ Wizard!Init
  \/ part = "registry" /\ Registry!Init
  \/ part = "health" /\ Health!Init
  \/ part = "past" /\ Past!Init
  \/ part = "card" /\ Card!Init
  \/ part = "theme" /\ Theme!Init
  \/ part = "price" /\ Price!Init
  \/ part = "figures" /\ Figures!Init
  \/ part = "manual" /\ Manual!Init /\ ui = Nothing
  \/ part = "results" /\ Results!Init

\* Leaving a page forgets its state, so that every visit begins in Init.
Next ==
  /\ \/ part = "feed" /\ Feed!Next
     \/ part = "rails" /\ Rails!Next
     \/ part = "digest" /\ Digest!Next
     \/ part = "address" /\ Address!Next
     \/ part = "product" /\ Product!Next
     \/ part = "table" /\ Table!Next
     \/ part = "form" /\ Form!Next
     \/ part = "listener" /\ Listener!Next
     \/ part = "people" /\ People!Next
     \/ part = "history" /\ History!Next
     \/ part = "economy" /\ Economy!Next
     \/ part = "links" /\ Links!Next
     \/ part = "login" /\ Login!Next /\ UNCHANGED ui
     \/ part = "bot" /\ Bot!Next
     \/ part = "groups" /\ Groups!Next
     \/ part = "wizard" /\ Wizard!Next
     \/ part = "registry" /\ Registry!Next
     \/ part = "health" /\ Health!Next
     \/ part = "past" /\ Past!Next
     \/ part = "card" /\ Card!Next
     \/ part = "theme" /\ Theme!Next
     \/ part = "price" /\ Price!Next
     \/ part = "figures" /\ Figures!Next
     \/ part = "manual" /\ Manual!Next /\ UNCHANGED ui
     \/ part = "results" /\ Results!Next
  /\ UNCHANGED part

Spec == Init /\ [][Next]_vars

-----------------------------------------------------------------------------
(* Properties                                                              *)

\* What a page shows once nothing is awaited is what the api holds.  Each part
\* names the ways in which the code lets an older answer win: the feed, the
\* rules, the recipients, the purchases, the sources, the digest's switches,
\* the corrected product, the history of a filter, the wizard's status, the state
\* of Telegram, and the theme that the tabs share.
ShownIsCurrent ==
  CASE part = "feed"     -> Feed!FeedIsCurrent
    [] part = "digest"   -> Digest!DigestKeepsChanges
    [] part = "product"  -> Product!CorrectionIsShown
    [] part = "table"    -> Table!TableIsCurrent
    [] part = "people"   -> People!CardsAreCurrent
    [] part = "history"  -> History!RowsAreOfFilters
    [] part = "economy"  -> Economy!ReportIsCurrent
    [] part = "wizard"   -> Wizard!OwnChangeIsShown
    [] part = "registry" -> Registry!SourcesAreCurrent
    [] part = "health"   -> Health!AdapterIsCurrent
    [] part = "groups"   -> Groups!ListIsOfAccount
    [] part = "theme"    -> Theme!ThemeIsCurrent
    [] OTHER             -> TRUE

\* A number on screen is the number it says it is: a price is read as it was
\* written, by the browser and by the api (utils/priceInput.ts, manual_price.py);
\* the rails of the feed agree with its cards (utils/target.ts); the savings, their
\* bars and the shared card agree, and the card has room (economia/); a price that is
\* called detected was detected, and a corrected one can go back (routers/matches.py).
ShownValuesAreTrue ==
  CASE part = "price"   -> Price!PriceIsReadAsWritten
    [] part = "figures" -> Figures!FiguresAreTrue
    [] part = "results" -> Results!ReportIsTrue
    [] part = "manual"  -> Manual!DetectedIsKept
    [] OTHER            -> TRUE

\* An answer is shown only where what it was asked about still is: the product
\* in the panel, the rule in the tester, the open row, the draft of a card, the
\* text of the search, whatever was opened, closed or typed while it was awaited.
AnswersAreOfWhatIsOpen ==
  CASE part = "product" -> Product!PanelIsOfProduct
    [] part = "table"   -> Table!OpenRowIsInTable
    [] part = "form"    -> Form!ResultIsOfPanel
    [] part = "people"  -> People!PreviewIsOfDraft
    [] part = "links"   -> Links!OptionsAreOfQuery
    [] OTHER            -> TRUE

\* ?produto in the address says which product panel is open, after any clicks, "back"
\* and "forward" (useProductPanel.ts), except from a "back" or "forward" that follows a
\* click on what was open already, or on closing what was closing, until the address
\* changes again: that one the panel takes for its own change and does not follow.
UrlIsTheTruth == part = "address" => Address!UrlIsTheTruth

\* A login that was cancelled, given up or lost is never the session, and a held
\* lock is a login's (telegram_login.py).
DroppedIsNeverSession == part = "login" => Login!DroppedIsNeverSession

\* A price corrected down to its target alerts each recipient at most once, and the
\* rows say what came of it (routers/matches.py).
TargetAlertedOnce == part = "manual" => Manual!AlertedOnce

\* A notice says what happened.  The end of a request to the listener is announced at
\* most once, or twice when a reading showed it before the answer to the request came
\* (useListenerStatus.ts).  A link is called expired when nobody used it, unless an
\* answer that somebody did was lost or went to a loop cancelled, or a loop began on a
\* status no longer true.  The step that says it waits for the recipient's /start does
\* wait for it, unless its loop failed or ended and none was begun since (BotStep.tsx).
NoticesAreHonest ==
  [][/\ part = "listener" => Listener!ToldOnce'
     /\ part = "bot" => Bot!ExpiredIsHonest /\ Bot!WaitedUnlessEnded']_vars

\* Nothing is taken from under the administrator's eyes: a rail does not fold
\* while it is on screen, unless it grew after it was measured, the filters survive
\* leaving the page, a late answer brings no closed form back, the history on screen
\* never goes back, and a card drawn again keeps its draft and offers every action,
\* in its row or its menu.
NothingIsTakenAway ==
  [][/\ part = "rails" => Rails!FoldsOncePassed
     /\ part = "history" => History!FiltersSurvive
     /\ part = "economy" => Economy!TitleKeepsTheForm
     /\ part = "past" => Past!HistoryOnlyAdvances
     /\ part = "card" => Card!OfferedOnce' /\ Card!DraftIsKept]_vars

\* The account the wizard connected is replaced only by being disconnected, or by a
\* login that was let through while the answer of another was being finished
\* (routers/setup.py:450,457), and every source it adds is a group that account reads.
SetupKeepsItsAccount ==
  [][/\ part = "login" => Login!SessionKept
     /\ part = "groups" => Groups!SourceIsRead]_vars
=============================================================================
