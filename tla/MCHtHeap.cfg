SPECIFICATION Spec
CONSTANTS
  i0 = i0  i1 = i1  j1 = j1  i2 = i2
  Items <- MCItems
  Hop <- MCHop
  NoItem = NoItem
  MaxCount = 6
INVARIANTS
  OrderedWhileGrowing
PROPERTY QueueSpec
