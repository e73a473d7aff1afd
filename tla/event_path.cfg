\* Batches with an event in common, one failure of a request, every fault of the worker.
CONSTANTS
    s1 = s1
    s2 = s2
    t1 = t1
    t2 = t2
    fa = fa
    Sender = {s1, s2}
    EventId = {1, 2}
    Batch <- Overlapping
    Thread = {t1, t2}
    Nobody = Nobody
    MaxFaults = 1
    Worker = {w1}
    NumEvents = 2
    Fingerprint = {fa}
    Fp <- OneGroup
    BatchSize = 1
    MaxAttempts = 2
    SlowWorkers = FALSE
    NoWorker = NoWorker
    NoEvent = NoEvent
SPECIFICATION PathSpec
SYMMETRY ThreadSymmetry
PROPERTIES
    ImplementsService
