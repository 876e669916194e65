\* One job of three attempts, two workers, one synchronous caller.
CONSTANTS
    r1 = r1
    w1 = w1
    w2 = w2
    NoWorker = NoWorker
    NoLease = NoLease
    NoJob = NoJob
    Job <- OneJob
    Recording <- OneRecording
    RecordingOf <- OneJobOf
    Deletable <- OneRecording
    Worker <- Workers
    Caller = {c1}
    MaxAttempts = 3
    LeaseTime = 2
    MaxAge = 1
SYMMETRY WorkersAlike
SPECIFICATION SyncSpec
INVARIANTS
    TablesAgree
    ClaimsAgree
PROPERTY
    WorkersRespectLeases
