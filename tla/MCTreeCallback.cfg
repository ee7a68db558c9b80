CONSTANTS
  Items <- MCItems
  NoItem = NoItem
  Root = "r"
  Kids <- MCKids
  MaxDepth = 2
  PrefValues = {p1, p2}

SPECIFICATION Spec

SYMMETRY MCSymmetry

PROPERTIES
  CallbackOnlyOnChange

CHECK_DEADLOCK FALSE
