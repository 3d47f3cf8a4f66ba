SPECIFICATION Spec
CONSTANTS
  u1 = u1
  u2 = u2
  URLs <- MCURLs
  Refs <- MCRefs
  NoRef = NoRef
  MaxDocID = 5
SYMMETRY MCSymmetry
INVARIANTS
  TypeOK
  NextIDFresh
  IndexConsistent
  ExcerptsOwned
PROPERTY CounterNeverBack
