SPECIFICATION CollectionSpec
CONSTANTS
  u1 = u1  u2 = u2  NoRef = NoRef
  URLs <- MCURLs
  Refs <- MCRefs
  MaxDocID = 10
  MaxEdition = 2
  Kinds <- MCKinds
  Described = {TRUE}
  RemoveBadURLs = TRUE
  RemoveUnretrievedURLs = FALSE
  PurgeURLs <- NoURLs
  MaxDigs = 2
  MaxPurges = 1
  MaxMerges = 1
  MaxDug = 4
  MaxDugMerged = 8
  MaxDugOther = 3
  Kills = TRUE
INVARIANTS
  CollectionOK
  IDsFresh
  IndexConsistent
  PostingsTruthful
  PostingIDsSpent
  FoundStaysFound
PROPERTIES
  PurgedWordsGone
CHECK_DEADLOCK FALSE
