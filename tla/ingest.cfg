\* Batches in opposite order, one with an event twice; one failure.
SPECIFICATION Spec
CONSTANTS
    s1 = s1
    s2 = s2
    e1 = e1
    e2 = e2
    Sender = {s1, s2}
    EventId = {e1, e2}
    Batch <- Crossed
    Thread = {t1, t2}
    Nobody = Nobody
    MaxFaults = 1
INVARIANTS
    CountedOnce
PROPERTIES
    ImplementsInbox
    Delivered
