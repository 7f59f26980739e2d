\* Releasing a blob through the find_if of subpage_pool_free.
CONSTANTS
  SubpageSize = 2
  PageUnits = 2
  PoolUnits = 4
  Sizes = {2, 3}
  MaxGroups = 2
  SlatMode = TRUE
SPECIFICATION Spec
INVARIANT ReleasedBlobUntracked
