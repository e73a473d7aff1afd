\* Leases may lapse under a live worker: an event is counted twice.
CONSTANTS
    w1 = w1
    w2 = w2
    fa = fa
    fb = fb
    Worker <- MCWorker
    Fingerprint <- MCFingerprint
    NumEvents = 2
    Fp <- FpSame
    BatchSize = 2
    MaxAttempts = 2
    SlowWorkers = TRUE
    NoWorker = NoWorker
    NoEvent = NoEvent
SPECIFICATION Safe
SYMMETRY WorkerSymmetry
INVARIANTS
    NeverCountedTwice
