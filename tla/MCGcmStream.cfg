\* Messages that pass their AAD as a first update shorter than a block.
CONSTANTS
    k1 = k1
    k2 = k2
    v1 = v1
    v2 = v2
    NoKey = NoKey
    NoIv = NoIv
    NoTag = NoTag
    Forged = Forged
    Keys <- MCOneKey
    Ivs <- MCIvs
    Modes = {"enc", "dec"}
    AadLens = {0, 13}
    DataLens = {0, 5, 16, 20}
    IvLens = {16}
    TlsAadLens = {20}
    MaxBytes = 32
    MaxInits = 2
    FirstUpdateIsAad = TRUE
SPECIFICATION Spec
SYMMETRY MCSymmetry
INVARIANT TypeOK
INVARIANT OutputIsGcm
INVARIANT FinalIsGcm
\* A context stops once the application has no more bytes or inits to give it.
CHECK_DEADLOCK FALSE
