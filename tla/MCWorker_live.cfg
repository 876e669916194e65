\* Two jobs of one recording, one worker, nothing is deleted.
CONSTANTS
    r1 = r1
    w1 = w1
    w2 = w2
    NoWorker = NoWorker
    NoLease = NoLease
    NoJob = NoJob
    Job <- TwoJobs
    Recording <- OneRecording
    RecordingOf <- Together
    Deletable = {}
    Worker <- JustOne
    MaxAttempts = 2
    LeaseTime = 2
    MaxAge = 1
SPECIFICATION FairSpec
PROPERTIES
    JobsSettle
