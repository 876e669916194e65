------------------------------ MODULE JobQueue ------------------------------
(***************************************************************************)
(* The persistent queue: the rows of transcription_jobs, transcripts and   *)
(* recordings, and the repository operations that read and write them.     *)
(* Every operation here is one BEGIN IMMEDIATE transaction, hence atomic.  *)
(*                                                                         *)
(* Time.  A lease is kept as the time that is left of it, so that time may *)
(* pass for ever: lease_expires_at = clock + jobs[j].lease.  The caller of *)
(* an operation samples `now` before the transaction waits for the write   *)
(* lock, so an operation works with a clock reading that is `age` ticks    *)
(* old, age \in 0..MaxAge (busy_timeout bounds the wait).  Hence           *)
(*      lease_expires_at > now   is   jobs[j].lease + age > 0, and         *)
(*      now + lease_seconds      is   LeaseTime - age ticks from here.     *)
(*                                                                         *)
(* Abstracted: settings, progress numbers, phases, error texts, time       *)
(* stamps other than the lease, and the event rows that every operation    *)
(* appends in the same transaction.                                        *)
(***************************************************************************)
EXTENDS Integers, FiniteSets

CONSTANTS Job,          \* job numbers: their order is ORDER BY created_at, id
          Recording,    \* the recordings of the library
          RecordingOf,  \* [Job -> Recording]: recording_id
          Deletable,    \* the recordings somebody may delete
          Worker,       \* worker_id values
          MaxAttempts,  \* max_attempts
          LeaseTime,    \* lease_seconds, in ticks
          MaxAge,       \* how old a sampled clock may be, in ticks
          NoWorker,     \* NULL of worker_id
          NoLease       \* NULL of lease_expires_at

ASSUME JobAssumption == Job \subseteq Nat
ASSUME RecordingAssumption ==
    /\ RecordingOf \in [Job -> Recording]
    /\ Deletable \subseteq Recording
ASSUME AttemptsAssumption == MaxAttempts \in Nat \ {0}
ASSUME LeaseAssumption == LeaseTime \in Nat \ {0} /\ MaxAge \in Nat
ASSUME NullAssumption == NoWorker \notin Worker /\ NoLease \notin Int

VARIABLES jobs,         \* the rows of transcription_jobs
          published,    \* the jobs that have a row in transcripts
          recordings    \* the rows of recordings

queue == <<jobs, published, recordings>>

Active  == {"pending", "running"}
Settled == {"succeeded", "failed", "cancelled"}
Missing == {"absent", "deleted"}
Status  == Active \cup Settled \cup Missing

Age == 0 .. MaxAge

JobRow == [status   : Status,
           worker   : Worker \cup {NoWorker},
           lease    : Int \cup {NoLease},
           attempts : 0 .. MaxAttempts,
           cancel   : BOOLEAN]     \* cancel_requested_at IS NOT NULL

NewRow == [status |-> "absent", worker |-> NoWorker, lease |-> NoLease,
           attempts |-> 0, cancel |-> FALSE]

QueueTypeOK ==
    /\ jobs \in [Job -> JobRow]
    /\ published \subseteq Job
    /\ recordings \subseteq Recording

QueueInit ==
    /\ jobs = [j \in Job |-> NewRow]
    /\ published = {}
    /\ recordings = Recording

-----------------------------------------------------------------------------
(* What the operations look at.                                            *)

NoRow(j) == jobs[j].status \in Missing

\* Mutant of Owns: the lease is valid, whoever holds it.
SomebodyOwns(w, j, age) ==
    /\ jobs[j].status = "running"
    /\ jobs[j].lease # NoLease
    /\ jobs[j].lease + age > 0

\* _require_valid_lease
Owns(w, j, age) ==
    /\ jobs[j].status = "running"
    /\ jobs[j].worker = w
    /\ jobs[j].lease # NoLease
    /\ jobs[j].lease + age > 0

\* Mutant of Expired: off by one.
ExpiredEarly(j, age) ==
    /\ jobs[j].status = "running"
    /\ jobs[j].lease # NoLease => jobs[j].lease + age <= 1

\* the WHERE clause of _recover_expired_jobs
Expired(j, age) ==
    /\ jobs[j].status = "running"
    /\ jobs[j].lease # NoLease => jobs[j].lease + age <= 0

\* the WHERE clause of claim_next_job
Claimable(row) ==
    /\ row.status = "pending"
    /\ ~row.cancel
    /\ row.attempts < MaxAttempts

\* Mutant of RecoveredRow: a cancelled run is queued again.
RecoveredForgettingCancel(row) ==
    [row EXCEPT !.status = IF row.attempts >= MaxAttempts THEN "failed" ELSE "pending",
                !.worker = NoWorker,
                !.lease  = NoLease]

\* what _recover_expired_jobs writes over an expired row
RecoveredRow(row) ==
    [row EXCEPT !.status = IF row.cancel THEN "cancelled"
                           ELSE IF row.attempts >= MaxAttempts THEN "failed"
                           ELSE "pending",
                !.worker = NoWorker,
                !.lease  = NoLease]

Recovered(age) ==
    [j \in Job |-> IF Expired(j, age) THEN RecoveredRow(jobs[j]) ELSE jobs[j]]

ClaimedRow(row, w, age) ==
    [row EXCEPT !.status = "running", !.worker = w, !.lease = LeaseTime - age,
                !.attempts = row.attempts + 1]

\* ORDER BY created_at, id LIMIT 1
Oldest(S) == CHOOSE j \in S : \A k \in S : j <= k

ClaimableJobs(table) == {j \in Job : Claimable(table[j])}

\* Mutant of HasClaimableWork: expired leases are not worth a transaction.
HasPendingWork(age) == \E j \in Job : Claimable(jobs[j])

\* _has_claimable_work: the read-only preflight of a claim
HasClaimableWork(age) ==
    \E j \in Job : Claimable(jobs[j]) \/ Expired(j, age)

-----------------------------------------------------------------------------
(* Operations of the claim holder.  The caller has checked what the code   *)
(* checks inside the transaction; see TranscriptionWorker for the outcomes *)
(* of a failed check.                                                      *)

\* update_claimed_job and renew_lease: the lease starts again at the sampled time
ExtendLease(j, age) ==
    /\ jobs' = [jobs EXCEPT ![j].lease = LeaseTime - age]
    /\ UNCHANGED <<published, recordings>>

\* _finish_claimed and update_job_status with a terminal status
Finish(j, status) ==
    /\ jobs' = [jobs EXCEPT ![j].status = status, ![j].lease = NoLease]
    /\ UNCHANGED <<published, recordings>>

\* the writing branch of complete_transcription
InsertTranscript(j) ==
    /\ published' = published \cup {j}
    /\ jobs' = [jobs EXCEPT ![j].status = "succeeded", ![j].lease = NoLease]
    /\ UNCHANGED recordings

-----------------------------------------------------------------------------
(* Operations of the users of the queue.                                   *)

\* add_job: the foreign key refuses a job of a recording that is gone
AddJob(j) ==
    /\ jobs[j].status = "absent"
    /\ RecordingOf[j] \in recordings
    /\ jobs' = [jobs EXCEPT ![j].status = "pending"]
    /\ UNCHANGED <<published, recordings>>

\* request_job_cancel
RequestCancel(j) ==
    /\ jobs[j].status \in Active
    /\ jobs' = [jobs EXCEPT ![j].cancel = TRUE,
                            ![j].status = IF @ = "pending" THEN "cancelled" ELSE @]
    /\ UNCHANGED <<published, recordings>>

\* Mutant of RetryJob: the name of the former worker stays.
RetryKeepingWorker(j) ==
    /\ jobs[j].status \in {"failed", "cancelled"}
    /\ jobs[j].attempts < MaxAttempts
    /\ jobs' = [jobs EXCEPT ![j].status = "pending", ![j].cancel = FALSE,
                            ![j].lease = NoLease]
    /\ UNCHANGED <<published, recordings>>

\* retry_job
RetryJob(j) ==
    /\ jobs[j].status \in {"failed", "cancelled"}
    /\ jobs[j].attempts < MaxAttempts
    /\ jobs' = [jobs EXCEPT ![j].status = "pending", ![j].cancel = FALSE,
                            ![j].worker = NoWorker, ![j].lease = NoLease]
    /\ UNCHANGED <<published, recordings>>

JobsOf(r) == {j \in Job : RecordingOf[j] = r}

\* delete_recording: transcripts, jobs (their events cascade) and the recording
DeleteRecording(r) ==
    /\ r \in recordings \cap Deletable
    /\ \A j \in JobsOf(r) : jobs[j].status \notin Active
    /\ jobs' = [j \in Job |-> IF j \in JobsOf(r) /\ jobs[j].status \in Settled
                              THEN [NewRow EXCEPT !.status = "deleted"]
                              ELSE jobs[j]]
    /\ published' = published \ JobsOf(r)
    /\ recordings' = recordings \ {r}

\* Time passes.  A lease that every sampled clock sees as expired need not
\* get older.
Tick ==
    /\ jobs' = [j \in Job |->
                  IF jobs[j].lease = NoLease THEN jobs[j]
                  ELSE [jobs[j] EXCEPT !.lease = IF @ > -MaxAge THEN @ - 1 ELSE @]]
    /\ UNCHANGED <<published, recordings>>

-----------------------------------------------------------------------------
(* Properties of the tables, whoever uses them.                            *)

\* A queued job can always be claimed: no operation leaves a pending row that
\* the WHERE clause of claim_next_job (repository.py) would pass over for
\* ever, nor one that still names a worker or a lease.
QueuedJobsAreClaimable ==
    \A j \in Job : jobs[j].status = "pending" =>
        Claimable(jobs[j]) /\ jobs[j].worker = NoWorker /\ jobs[j].lease = NoLease

\* A job has a transcript exactly when it succeeded: complete_transcription
\* settles and publishes at once, and recovery, retry, cancellation and
\* deletion never separate the two.
PublishedIffSucceeded ==
    \A j \in Job : j \in published <=> jobs[j].status = "succeeded"

\* A lease that is running belongs to somebody, and a job that is not running
\* has none: otherwise recovery would never take the job back.
LeasesBelongToRuns ==
    \A j \in Job : jobs[j].lease # NoLease =>
        jobs[j].status = "running" /\ jobs[j].worker \in Worker

\* delete_recording and add_job never leave a waiting or running job without
\* its recording, in whatever order they commit.
ActiveJobsKeepRecording ==
    \A j \in Job : jobs[j].status \in Active => RecordingOf[j] \in recordings

\* The three tables agree between any two transactions: what waits can be
\* claimed, what succeeded and nothing else is published, what has a lease
\* runs, and what waits or runs has its recording.
RowsAgree == /\ QueuedJobsAreClaimable /\ PublishedIffSucceeded
             /\ LeasesBelongToRuns /\ ActiveJobsKeepRecording

\* Every row keeps its recording: what retry_job relies on when it makes a
\* settled job active again without looking at the recording.
RowsKeepRecording ==
    \A j \in Job : ~NoRow(j) => RecordingOf[j] \in recordings

\* What add_job inserts is fresh: no attempt, no worker, no cancellation.
AbsentRowsAreNew ==
    \A j \in Job : jobs[j].status = "absent" => jobs[j] = NewRow

\* The consistency of the tables between two transactions.
QueueConsistent ==
    /\ AbsentRowsAreNew
    /\ QueuedJobsAreClaimable
    /\ PublishedIffSucceeded
    /\ LeasesBelongToRuns
    /\ RowsKeepRecording
=============================================================================
