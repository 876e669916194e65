\* Two jobs of one recording, two workers.
CONSTANTS
    r1 = r1
    w1 = w1
    w2 = w2
    NoWorker = NoWorker
    NoLease = NoLease
    NoJob = NoJob
    Job <- TwoJobs
    Recording <- OneRecording
    RecordingOf <- Together
    Deletable <- OneRecording
    Worker <- Workers
    MaxAttempts = 2
    LeaseTime = 1
    MaxAge = 1
SYMMETRY WorkersAlike
SPECIFICATION Spec
INVARIANT
    RowsAgree
PROPERTIES
    LeaseHolderDecides
    PublicationFence
    ImplementsLifecycle
