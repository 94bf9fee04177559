CONSTANTS
  Word = 8
  InitialSize = 2
  ExpandableSize = 5
  Suggested = {0, 3, 7}
SPECIFICATION Spec
INVARIANTS OfferFits CapBounded
PROPERTIES EventShowsRead
