\* One context streaming a SHA-256 HMAC on the sealed path.
CONSTANTS
    c1 = c1
    c2 = c2
    NoKey = NoKey
    NoDigest = NoDigest
    Garbage = Garbage
    Ctxs <- MCOneCtx
    Keys <- MCTwoKeys
    Digests = {"SHA256"}
    InLens = {0, 20, 50, 64, 100}
    MaxBytes = 164
    MaxInits = 1
    SlatMode = TRUE
SPECIFICATION Spec
INVARIANT TypeOK
INVARIANT BufferHoldsUnhashedTail
\* A context stops once the application has no more bytes, inits or
\* slots to give it.
CHECK_DEADLOCK FALSE
