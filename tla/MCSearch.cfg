SPECIFICATION SearchSpec
CONSTANTS
  N = 3
  MaxValue <- MCMaxValue
  Words <- MCWords
  Extends <- MCExtends
  Last = 3
  StatWord <- MCStatWord
  wordlist_extend = TRUE
  MaxRecords = 2
  Queries <- MCQueries
  Fuzzy <- MCFuzzy
  any_keywords = FALSE
  Recorded = {0, 1, 2, 3}
  Normal = {0, 1, 2}
INVARIANTS
  TypeOK
  NothingSkipped
  AnswerIsMeaning
PROPERTIES
  WalkKeepsPromise
  CursorAdvances
