\* Two workers, three events, every fault; leases may lapse under a live worker.
CONSTANTS
    w1 = w1
    w2 = w2
    fa = fa
    fb = fb
    Worker <- MCWorker
    Fingerprint <- MCFingerprint
    NumEvents = 3
    Fp <- FpPair
    BatchSize = 2
    MaxAttempts = 2
    SlowWorkers = TRUE
    NoWorker = NoWorker
    NoEvent = NoEvent
SPECIFICATION Safe
SYMMETRY WorkerSymmetry
INVARIANTS
    TypeOK
    AnalysisAccounted
    NoOccurrenceLost
PROPERTIES
    AnalysedOnce
