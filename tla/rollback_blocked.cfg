\* A branch that was deleted blocks the revert of an unchanged file.
CONSTANTS
    a1 = a1
    a2 = a2
    before = before
    patched = patched
    edited = edited
    Admin <- MCAdmin
    Blob <- MCBlob
    Before <- before
    Patched <- patched
    None = None
    MaxEdits = 1
    NoAdmin = NoAdmin
SPECIFICATION Safe
SYMMETRY AdminSymmetry
PROPERTIES
    BlockedMeansChanged
CHECK_DEADLOCK FALSE
