\* Cipher contexts of both kinds created, duplicated, keyed, used and freed
\* in any order over the subpage pool, with provider teardown and reload.
CONSTANTS
  SubpageSize = 2
  PageUnits = 2
  PoolUnits = 4
  Sizes = {2}
  MaxGroups = 1
  SlatMode = TRUE
  Ctxs = {c1, c2}
  c1 = c1
  c2 = c2
  Kinds = {"CTR", "GCM"}
  BlobSize = 2
  MaxObjs = 6
  NULL = NULL
SPECIFICATION CtxSpec
INVARIANT CtxTypeOK
INVARIANT HeldBlobEntryMarked
INVARIANT ContextBlobsSealed
INVARIANT NoBlobUseAfterRelease
