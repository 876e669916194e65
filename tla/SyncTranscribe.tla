--------------------------- MODULE SyncTranscribe ---------------------------
(***************************************************************************)
(* The synchronous command `transcribe` (TranscriptionService.transcribe)  *)
(* beside the queue workers, on the same job table.  Its job is added as   *)
(* pending, then marked running by update_job_status: it has no worker_id  *)
(* and no lease, and is published without an owner.                        *)
(***************************************************************************)
EXTENDS TranscriptionWorker

CONSTANT Caller       \* processes that run the synchronous command

VARIABLE calls        \* [Caller -> [pc, job]]

syncVars == <<jobs, published, recordings, work, calls>>

CallState == [pc  : {"idle", "added", "running", "failing"},
              job : Job \cup {NoJob}]

NoCall == [pc |-> "idle", job |-> NoJob]

SyncTypeOK == TypeOK /\ calls \in [Caller -> CallState]

SyncInit == Init /\ calls = [c \in Caller |-> NoCall]

-----------------------------------------------------------------------------
MoveTo(c, pc) == calls' = [calls EXCEPT ![c].pc = pc]

Return(c) == calls' = [calls EXCEPT ![c] = NoCall]

\* add_job in the pending state, like an enqueued one
AddOwnJob(c) ==
    /\ calls[c].pc = "idle"
    /\ \E j \in Job :
         /\ AddJob(j)
         /\ calls' = [calls EXCEPT ![c] = [pc |-> "added", job |-> j]]

\* update_job_status(RUNNING), outside the try: a job that is no longer
\* pending, or gone, makes the command fail.
MarkRunning(c) ==
    LET j == calls[c].job IN
    /\ calls[c].pc = "added"
    /\ IF jobs[j].status = "pending"
       THEN /\ jobs' = [jobs EXCEPT ![j].status = "running",
                                    ![j].attempts = @ + 1]
            /\ MoveTo(c, "running")
            /\ UNCHANGED <<published, recordings>>
       ELSE Return(c) /\ UNCHANGED queue

\* complete_transcription without a worker_id: no lease is required
PublishUnowned(c) ==
    LET j == calls[c].job IN
    /\ calls[c].pc = "running"
    /\ CASE jobs[j].status = "running" /\ ~jobs[j].cancel ->
                InsertTranscript(j) /\ Return(c)
         [] jobs[j].status = "succeeded" ->
                Return(c) /\ UNCHANGED queue
         [] jobs[j].status \in {"pending", "failed", "cancelled"} \cup Missing
            \/ (jobs[j].status = "running" /\ jobs[j].cancel) ->
                MoveTo(c, "failing") /\ UNCHANGED queue

EngineRaises(c) ==
    /\ calls[c].pc = "running"
    /\ MoveTo(c, "failing")
    /\ UNCHANGED queue

\* Mutant of MarkFailed: any status becomes failed.
MarkFailedAlways(c) ==
    /\ calls[c].pc = "failing"
    /\ ~NoRow(calls[c].job)
    /\ Finish(calls[c].job, "failed")
    /\ Return(c)

\* update_job_status(FAILED); a refused transition is swallowed
MarkFailed(c) ==
    LET j == calls[c].job IN
    /\ calls[c].pc = "failing"
    /\ IF jobs[j].status = "running" THEN Finish(j, "failed") ELSE UNCHANGED queue
    /\ Return(c)

\* Interrupted (KeyboardInterrupt is not an Exception) or killed.
Interrupt(c) ==
    /\ calls[c].pc # "idle"
    /\ Return(c)
    /\ UNCHANGED queue

CallStep(c) ==
    /\ \/ AddOwnJob(c) \/ MarkRunning(c) \/ PublishUnowned(c)
       \/ EngineRaises(c) \/ MarkFailed(c) \/ Interrupt(c)
    /\ UNCHANGED work

SyncNext ==
    \/ Next /\ UNCHANGED calls
    \/ \E c \in Caller : CallStep(c)

SyncSpec == SyncInit /\ [][SyncNext]_syncVars

-----------------------------------------------------------------------------
\* Beside the synchronous command, whose runs have no lease, the tables still
\* agree: no queued job is lost to the claim query, and a transcript exists
\* exactly for the jobs that succeeded (complete_transcription, MarkFailed).
TablesAgree == QueuedJobsAreClaimable /\ PublishedIffSucceeded

\* Even beside the synchronous command, no worker, user or passing of time
\* ends a run whose lease another worker still holds (_require_valid_lease,
\* _recover_expired_jobs): only a step of the caller can.
WorkersRespectLeases ==
    [][\A w \in Worker, j \in Job :
         calls' = calls /\ Owns(w, j, 0) /\ jobs'[j].status # "running"
           => work[w].job = j /\ work'[w] # work[w]]_syncVars

\* Only the owner of the valid lease publishes or ends a leased run, as the
\* README says; the synchronous caller finishes whatever is running.
OnlyLeaseOwnerFinishes ==
    [][\A w \in Worker, j \in Job :
         Owns(w, j, 0) /\ jobs'[j].status # "running"
           => work[w].job = j /\ work'[w] # work[w]]_syncVars
=============================================================================
