SPECIFICATION RecallSpec
CONSTANTS
  Stored = {1, 2}
  Text <- TheTexts
  Closeness <- TheCloseness
  Relevance <- TheRelevance
  Shared <- TheShared
  Precision = 4
  SemanticWeight = 7
  KeywordWeight = 3
  OverFetch = 1
  TopKs = {1, 2}
  Threshold = 1
  Channels = {"sqlite"}
  Outsiders = {}
  MaxRecallWrites = 0
INVARIANT BetterInBothComesFirst
CHECK_DEADLOCK FALSE
