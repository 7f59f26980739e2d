\* Subpage pool: what its callers rely on while they hold blobs.
CONSTANTS
  SubpageSize = 2
  PageUnits = 2
  PoolUnits = 4
  Sizes = {2, 3}
  MaxGroups = 2
  SlatMode = TRUE
SPECIFICATION Spec
INVARIANT TypeOK
INVARIANT HeldBlobEntryMarked
INVARIANT HeldBlobsSealed
