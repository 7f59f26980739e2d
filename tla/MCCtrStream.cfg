\* One CTR message split into updates in every way: streaming equals one-shot encryption.
CONSTANTS
    n1 = n1
    n2 = n2
    NoNonce = NoNonce
    Nonces <- MCNonces
    BlockSize = 16
    CtrBits = 2
    InLens = {0, 1, 15, 16, 17, 33}
    MaxBytes = 50
    MaxInits = 1
SYMMETRY MCSymmetry
SPECIFICATION Spec
INVARIANT TypeOK
INVARIANT StreamIsOneShotEncryption
\* A context stops once the application has no more bytes or inits to give it.
CHECK_DEADLOCK FALSE
