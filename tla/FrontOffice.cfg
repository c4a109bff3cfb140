SPECIFICATION FrontOfficeSpec
CONSTANTS
  Publishers = {p1, p2}
  Story <- FrontOfficeStory
  MaxClaims = 2
  MaxAttempts = 2
  PageSize = 1
  MaxDrops = 1
  Tabs = {t1, t2}
  PrivateTabs = {t2}
  MaxVisits = 2
  MaxKeys = 2
  MaxLoads = 3
  MaxVersion = 3
  Documents = {d1}
  Variants = {1, 2}
  MaxRuns = 2
  MaxQuotes = 1
  MaxPayments = 1
  MaxTurns = 1
  Accounts = {alice, bob}
  Privileged = {alice}
  ConsoleTabs = {tab0}
  Declarations <- FrontOfficeDeclarations
  FileSets <- FrontOfficeFiles
  Requests <- FrontOfficeRequests
  RuleSets <- FrontOfficeRuleSets
  MaxCopies = 3
  MaxSelectedPages = 4
  MaxPrintedSides = 10
  MaxQuoteAmount = 300
  MaxSegments = 3
  MaxWorldChanges = 1
  MaxUpdates = 1
INVARIANTS
  QuietMeansCaughtUp
  PriceMatchesScreen
  PrintsAsPriced
  

  
CHECK_DEADLOCK FALSE
SYMMETRY FrontOfficeSymmetry
