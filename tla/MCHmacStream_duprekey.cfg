\* A context duplicated before init, both then keyed.
CONSTANTS
    c1 = c1
    c2 = c2
    NoKey = NoKey
    NoDigest = NoDigest
    Garbage = Garbage
    Ctxs <- MCTwoCtxs
    Keys <- MCTwoKeys
    Digests = {"SHA256"}
    InLens = {20}
    MaxBytes = 20
    MaxInits = 1
    SlatMode = TRUE
SPECIFICATION Spec
SYMMETRY MCSymmetry
PROPERTY KeyOfLockedCodeNeverChanges
\* A context stops once the application has no more bytes, inits or
\* slots to give it.
CHECK_DEADLOCK FALSE
