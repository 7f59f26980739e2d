\* GCM contexts duplicated and used: dupctx shares aad and staging_buffer,
\* which final, init_aad and einit free on their own.
CONSTANTS
  SubpageSize = 2
  PageUnits = 2
  PoolUnits = 4
  Sizes = {2}
  MaxGroups = 1
  SlatMode = TRUE
  Ctxs = {c1, c2}
  c1 = c1
  c2 = c2
  Kinds = {"CTR", "GCM"}
  BlobSize = 2
  MaxObjs = 6
  NULL = NULL
SPECIFICATION CtxSpec
INVARIANT HeapObjectsFreedOnce
