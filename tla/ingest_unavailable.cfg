\* One request, one failure of the database after another.
SPECIFICATION Safe
CONSTANTS
    s1 = s1
    s2 = s2
    e1 = e1
    e2 = e2
    Sender = {s1, s2}
    EventId = {e1, e2}
    Batch <- Crossed
    Thread = {t1}
    Nobody = Nobody
    MaxFaults = 2
INVARIANTS
    StorageFailureIs503
