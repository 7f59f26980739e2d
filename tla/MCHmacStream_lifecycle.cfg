\* Two context slots: new, dup and free of shared objects.
CONSTANTS
    c1 = c1
    c2 = c2
    NoKey = NoKey
    NoDigest = NoDigest
    Garbage = Garbage
    Ctxs <- MCTwoCtxs
    Keys <- MCShortKey
    Digests = {"SHA256"}
    InLens = {20, 64}
    MaxBytes = 84
    MaxInits = 1
    SlatMode = TRUE
SPECIFICATION Spec
SYMMETRY MCSymmetry
INVARIANT BuffersFreedExactlyWhenUnshared
\* A context stops once the application has no more bytes, inits or
\* slots to give it.
CHECK_DEADLOCK FALSE
