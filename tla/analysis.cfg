\* An incident found by a scan and by an event worker, two failures.
SPECIFICATION Spec
CONSTANTS
    server = server
    worker = worker
    original = original
    patched = patched
    patchedTwice = patchedTwice
    None = None
    Scanner <- MCScanner
    Worker <- MCWorker
    Blob <- MCBlob
    Before = original
    DefaultMode = "propose_only"
    Channels = TRUE
    EnvWebhook = TRUE
    MaxFaults = 2
INVARIANTS OneEntry EntryRestores PermittedOnly
PROPERTY AlertGoesOut
