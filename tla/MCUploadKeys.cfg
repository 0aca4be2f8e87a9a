\* Two videos, every tail of up to three characters, one of four.
SPECIFICATION KeysSpec
CONSTANTS
    v1 = v1
    v2 = v2
    Videos = {v1, v2}
    None = None
    Tails <- MCTails
SYMMETRY VideoSymmetry
INVARIANTS
    VerdictNamesUpload
    PlainUploadIsRecognized
