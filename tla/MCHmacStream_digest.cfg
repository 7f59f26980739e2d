\* An HMAC asked for with SHA1.
CONSTANTS
    c1 = c1
    c2 = c2
    NoKey = NoKey
    NoDigest = NoDigest
    Garbage = Garbage
    Ctxs <- MCOneCtx
    Keys <- MCShortKey
    Digests = {"SHA1"}
    InLens = {64}
    MaxBytes = 64
    MaxInits = 1
    SlatMode = TRUE
SPECIFICATION Spec
INVARIANT MacIsHmac
\* A context stops once the application has no more bytes, inits or
\* slots to give it.
CHECK_DEADLOCK FALSE
