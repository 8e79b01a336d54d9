SPECIFICATION PipelineSpec
CONSTANTS
  ordinary = ordinary
  auto = auto
  Article = {ordinary}
  AutoInclude <- MCNoArticle
  MaxDate = 3
  Retention = 1
  XtcKeep = 1
  MaxRuns = 3
  Backfill = FALSE
  Faults = {"crash"}
  N = 4
  BatchSize = 3
  Limit = 3
  MaxInFlight = 2
  Costs = {1}
  MaxFaults = 2
  Url = {u1, u2, u3}
  TitleKey = {t1, t2}
  NoKey = NoKey
  NoUrl = NoUrl
  MaxEntries = 3
  Subject = {n1, n2}
  NoSubject = NoSubject
  ByHand = ByHand
  Filer = {c1}
  MaxIds = 2
  MaxEligible = 6
  TriageMax = 5
  DeepKeep = 5
  ExplorationSlots = 1
  ShortlistKeep = 4
  PerClusterCap = 1
  Protected = 1
  SoftTarget = 1
  HardMax = 2
  MaxTime = 4
  HoursADay = 2
  Lookback = 3
  Delay = 1
  PageLimit = 1
  MaxPages = 5
  MaxRemoved = 1
INVARIANTS PipelineTypeOK NumbersFollowDates RowsFollowFiles LineupsNeverRepeat RetentionHolds OneVerdict OnlyPoisonRejected NothingLost ArticlesKeptApart WorkStaysWithItsName AutoIncludedPublished ShortlistDiverse FetchComplete NothingFallsBetween
PROPERTIES ArchiveRefined StageEnds
CHECK_DEADLOCK FALSE
