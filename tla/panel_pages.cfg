SPECIFICATION Spec
CONSTANTS
  Nothing = Nothing
  MaxOps <- MCMaxOps
  MaxPolls <- MCMaxPolls
  MaxChanges <- MCMaxChanges
  Rules = {1, 2}
  SomeRules = {1}
  Products = {p1, p2}
  MaxMatch = 2
  RuleOf <- MCRuleOf
  ProductOf <- MCProductOf
  MessageOf <- MCMessageOf
  RAIL_RULES_VISIBLE = 1
  MaxScroll = 5
  Fields = {"enabled", "mute"}
  MaxSaves = 2
  MaxHistory = 6
  Ranges = {r90, r30}
  FirstRange = r90
  MaxTerms = 2
  MaxApplies = 2
  Recipients = {1, 2}
  Matches = {m1}
  Searches = {none, text}
  Choices = {none, choice}
  NoSearch = none
  NoChoice = none
  Purchases = {1, 2}
  Queries = {ab, abc}
  Short = short
  MAX_CODE_ATTEMPTS = 2
  MaxLogins = 2
  MaxLinks = 1
  MaxAccounts = 2
  Sources = {1, 2}
  Chats = {c1}
  MaxPast = 3
  Tabs = {t1, t2}
  Targets = {2000}
  Feeds <- MCFeeds
  Reports <- MCReports
  Prices <- MCPrices
  DigitGroups <- MCDigitGroups
  MAX_SAFE = 1000000
  Corrections = {1, 3}
  Detected = 3
  RuleTargets = {0, 2}
INVARIANTS TypeOK ShownIsCurrent AnswersAreOfWhatIsOpen UrlIsTheTruth DroppedIsNeverSession TargetAlertedOnce ShownValuesAreTrue
PROPERTIES NoticesAreHonest NothingIsTakenAway SetupKeepsItsAccount
CHECK_DEADLOCK FALSE
