\* Two requests, two commits of other people, every fault.
CONSTANTS
    a1 = a1
    a2 = a2
    before = before
    patched = patched
    edited = edited
    Admin <- MCAdmin
    Blob <- MCBlob
    Before <- before
    Patched <- patched
    None = None
    MaxEdits = 2
    NoAdmin = NoAdmin
SPECIFICATION Spec
INVARIANTS
    OneReverter
    ProposedIsClean
    RolledBackIsRecorded
PROPERTIES
    RevertsRecordedMerge
    CallsReturn
CHECK_DEADLOCK FALSE
