\* Two context slots streaming on the sealed path: hmac_dup shares the
\* block buffer and hash state, so both copies' updates write into one
\* buffer.  TLC finds BufferHoldsUnhashedTail violated in seven steps.
CONSTANTS
    c1 = c1
    c2 = c2
    NoKey = NoKey
    NoDigest = NoDigest
    Garbage = Garbage
    Ctxs <- MCTwoCtxs
    Keys <- MCShortKey
    Digests = {"SHA256"}
    InLens = {0, 20, 50, 64, 100}
    MaxBytes = 164
    MaxInits = 1
    SlatMode = TRUE
SPECIFICATION Spec
SYMMETRY MCSymmetry
INVARIANT BufferHoldsUnhashedTail
CHECK_DEADLOCK FALSE
