\* The same, with leases that outlive their batches.
CONSTANTS
    w1 = w1
    w2 = w2
    fa = fa
    fb = fb
    Worker <- MCWorker
    Fingerprint <- MCFingerprint
    NumEvents = 3
    Fp <- FpPair
    BatchSize = 2
    MaxAttempts = 2
    SlowWorkers = FALSE
    NoWorker = NoWorker
    NoEvent = NoEvent
SPECIFICATION Spec
INVARIANTS
    NeverCountedTwice
    ExclusiveClaims
PROPERTIES
    ImplementsLifecycleFairly
