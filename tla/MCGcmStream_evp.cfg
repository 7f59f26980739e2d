\* Messages that pass AAD the EVP way: out = NULL updates before the data, or none.
CONSTANTS
    k1 = k1
    k2 = k2
    v1 = v1
    v2 = v2
    NoKey = NoKey
    NoIv = NoIv
    NoTag = NoTag
    Forged = Forged
    Keys <- MCOneKey
    Ivs <- MCIvs
    Modes = {"enc"}
    AadLens = {13}
    DataLens = {5}
    IvLens = {12}
    TlsAadLens = {13}
    MaxBytes = 5
    MaxInits = 1
    FirstUpdateIsAad = FALSE
SPECIFICATION Spec
SYMMETRY MCSymmetry
INVARIANT FinalIsGcm
\* A context stops once the application has no more bytes or inits to give it.
CHECK_DEADLOCK FALSE
