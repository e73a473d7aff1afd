\* Notification channels are configured, no webhook in the environment.
SPECIFICATION Spec
CONSTANTS
    server = server
    worker = worker
    original = original
    patched = patched
    patchedTwice = patchedTwice
    None = None
    Scanner <- MCScanner
    Worker <- MCWorker
    Blob <- MCBlob
    Before = original
    DefaultMode = "propose_only"
    Channels = TRUE
    EnvWebhook = FALSE
    MaxFaults = 2
INVARIANT AlertNotSilenced
