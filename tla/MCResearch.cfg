SPECIFICATION MCSpec
CONSTANTS
  s1 = s1
  s2 = s2
  e1 = e1
  e2 = e2
  e3 = e3
  p1 = p1
  p2 = p2
  none = none
  Runs = {s1, s2}
  Events <- MCEvents
  Answers <- MCAnswers
  Kind <- MCKind
  Window = 2
  Budget = 1
  Backoff = 1
  NoRun = none
  MaxClock = 2
  Day <- MCDay
  Earnings = 2
  Horizon = 2
  MaxCatalysts = 1
  Pages = {p1, p2}
  NoPage = none
  Addresses <- MCAddresses
  PageOf <- MCPageOf
  Texts <- MCTexts
  Findings <- MCFindings
  Recordings <- MCRecordings
  m1 = m1
  m2 = m2
  x1 = x1
  x2 = x2
  k1 = k1
  k2 = k2
  Calls <- MCCalls
  Author <- MCAuthor
  Sources = {p1, p2}
  Quotes <- MCQuotes
  Words = {"q", "o"}
  WordsOf <- MCWordsOf
  NoWords = "blank"
  CardClock = 2
  ToolCalls = {m1, m2}
  Tickers <- MCTickers
  Untracked = {"U"}
  Namings <- MCNamings
  AttentionTools <- MCAttentionTools
  MaxSearches = 2
  Symbols = {x1, x2}
  Rows <- MCRows
  Names = {"unnamed", "named"}
  Fine = 4
  LastDay = 3
INVARIANTS CitationsInv EvidenceInv SpendInv ReadingsInv
CHECK_DEADLOCK FALSE
