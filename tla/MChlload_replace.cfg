SPECIFICATION LoadSpec
CONSTANTS
  u1 = u1  u2 = u2
  URLs <- MCURLs
  Refs <- MCRefs
  NoRef = NoRef
  MaxDocID = 4
INVARIANT IndexConsistent
