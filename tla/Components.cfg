SPECIFICATION Spec
CONSTANTS
  CacheKey = {h1, h2}
  Embedder = {1, 2, 3}
  TouchThreshold = 2
  MaxEntries = 1
  Ttl = 1
  MaxTime = 3
  MaxReopen = 1
  MaxQueue = 2
  MaxEvents = 4
  m1 = m1
  m2 = m2
  m3 = m3
  Mem <- TheMem
  Archived = {m3}
  TextOf <- TheTextOf
  UpdatedAt <- TheUpdatedAt
  MaxCrashes = 2
  MaxWrites = 1
  MaxKills = 1
  c1 = c1
  c2 = c2
  c3 = c3
  PgCall <- TheCalls
  Client = {k1, k2}
  Poison <- ThePoison
  Twins <- TheTwins
  FlushMax = 2
  FlushThreshold = 2
  MaxParallel = 1
  MaxRetries = 1
  MaxFaults = 1
  BothTables = TRUE
  PgOps <- TheOps
  MaxLinks = 8
  MaxTrouble = 2
  MaxSubscriptions = 2
  Stored = {1, 2, 3}
  Text <- TheTexts
  Closeness <- TheCloseness
  Relevance <- TheRelevance
  Shared <- TheShared
  Precision = 4
  SemanticWeight = 7
  KeywordWeight = 3
  OverFetch = 1
  TopKs = {2}
  Threshold = 1
  Channels = {"postgres", "bm25", "off"}
  Outsiders = {3}
  MaxRecallWrites = 1
  Field = {"f", "g"}
  PlainField = {"f", "g"}
  Value <- TheValues
  Operation <- TheOperations
  Spelling <- TheSpelling
  Numeral <- TheNumeral
  Word <- TheWord
  Lower <- TheLower
  Sizes = {1, 4}
  Overlaps = {0, 1, 2, 3}
  MinSize = 3
  MaxLength = 7
  MaxHttpRetries = 2
  HttpDeadline = 3
  HttpTimeout = 2
  HttpDelays = {0, 1, 3}
  MaxTexts = 3
  Instance = {1, 2}
  ProcessOf <- TheProcessOf
  ModelOf <- TheModelOf
  OldText <- TheOldText
  NewText = {"x", "z"}
  MaxPgEdits = 1
  MaxPgUpsets = 1
INVARIANTS AgeBound WrittenOrOnTheWay TelemetryInOrder DatabaseAsPromised CheckpointsAreWhole
INVARIANTS UpgradeSurvivesCrashes PgAckedIsStored ListenersAreHeld OnlyFittingReturned
INVARIANTS BetterInBothComesFirst FiltersAgree PhrasesSurvive RetriesAreBounded
INVARIANTS HashesTellTexts VectorTablesFit
PROPERTIES TelemetryCloseReturns PgCallsReturn SubscriberHears
CHECK_DEADLOCK FALSE
