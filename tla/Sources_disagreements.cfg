SPECIFICATION SumSpec
CONSTANTS
  Sites <- MCSites
  Path <- MCPath
  Home = "home"
  Elsewhere = {"away"}
  Entries <- MCEntries
  Suggestions <- MCSuggestions
  Visitors = {e1, e2}
  Playwright = TRUE
  DailyCap = 1
  MaxRedesigns = 1
  MinGroup = 2
  SampleSize = 1
  MaxNested = 2
  None = None
  Rows = {r1, r2}
  Addresses <- MCUrls
  Norm <- MCNorm
  Domain <- MCDomain
  Manifest <- MCManifest
  Tunings = {"low", "high"}
  MaxSyncs = 2
  MaxTunes = 2
  Feeds = {feed}
  Websites = {web}
  Lists <- MCLists
  LinkNorm <- MCLinkNorm
  Title <- MCTitle
  Pages <- ArticlePages
  Selector = TRUE
  Faults = TRUE
  feed = feed
  c1 = c1
  q1 = q1
  f1 = f1
INVARIANTS EveryRequestPermitted SuggestedWorksAgain OneSourcePerIdentity
PROPERTY HandTuningIsKept
CHECK_DEADLOCK FALSE
