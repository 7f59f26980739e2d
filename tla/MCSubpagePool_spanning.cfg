\* A blob that starts on one page and ends on the next.
CONSTANTS
  SubpageSize = 2
  PageUnits = 2
  PoolUnits = 4
  Sizes = {2, 3}
  MaxGroups = 2
  SlatMode = TRUE
SPECIFICATION Spec
INVARIANT HeldBlobPagesMarked
