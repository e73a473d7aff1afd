\* A proposal in flight overwrites the record of a revert.
CONSTANTS
    a1 = a1
    a2 = a2
    before = before
    patched = patched
    edited = edited
    Admin <- MCAdmin
    Blob <- MCBlob
    Before <- before
    Patched <- patched
    None = None
    MaxEdits = 1
    NoAdmin = NoAdmin
SPECIFICATION Safe
SYMMETRY AdminSymmetry
PROPERTIES
    RolledBackIsFinal
CHECK_DEADLOCK FALSE
