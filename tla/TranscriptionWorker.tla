------------------------ MODULE TranscriptionWorker ------------------------
(***************************************************************************)
(* Queue workers over the job table: TranscriptionWorker.run_once,         *)
(* TranscriptionService.process_claimed_job and the _LeaseHeartbeat thread *)
(* that renews the lease meanwhile, with the users who enqueue, cancel,    *)
(* retry and delete.                                                       *)
(*                                                                         *)
(* A worker's program counter names the database access it does next:      *)
(*   idle         claim_next_job                                           *)
(*   start        get_job: do I still own it?                              *)
(*   check        _raise_if_cancelled, then reading recording and model    *)
(*   loading      update_claimed_job (LOADING_MODEL)                       *)
(*   engine       the engine runs; each event begins a _raise_if_cancelled *)
(*   progress     update_claimed_job of that event                         *)
(*   recheck      it raised RuntimeError: _raise_if_cancelled once more    *)
(*   finalizing   update_claimed_job (FINALIZING)                          *)
(*   publish      complete_transcription                                   *)
(*   cancelled    TranscriptionCancelled was raised; the lease guard next  *)
(*   finishCancel finish_claimed_cancel                                    *)
(*   error        another exception: claimed_job_cancel_requested          *)
(*   fail         fail_claimed_job                                         *)
(*   readBack     get_job after a finish committed: `assert result`        *)
(*   dead         an exception left run_once and ended the worker thread   *)
(*                                                                         *)
(* A process that dies is replaced by one with a fresh worker_id; as no    *)
(* step looks at another worker's record, the model gives it the old name. *)
(***************************************************************************)
EXTENDS JobQueue

CONSTANT NoJob
ASSUME NoJobAssumption == NoJob \notin Job

VARIABLE work   \* [Worker -> WorkerState]

vars == <<jobs, published, recordings, work>>

Steps == {"start", "check", "loading", "engine", "progress", "recheck",
          "finalizing", "publish", "cancelled", "finishCancel", "error", "fail", "readBack"}

WorkerState == [pc      : Steps \cup {"idle", "dead"},
                job     : Job \cup {NoJob},
                attempt : 0 .. MaxAttempts,   \* attempt_count as claimed
                lost    : BOOLEAN]            \* the heartbeat's _lost event

IdleWorker == [pc |-> "idle", job |-> NoJob, attempt |-> 0, lost |-> FALSE]

TypeOK ==
    /\ QueueTypeOK
    /\ work \in [Worker -> WorkerState]
    /\ \A w \in Worker : work[w].pc = "idle" <=> work[w].job = NoJob

Init == QueueInit /\ work = [w \in Worker |-> IdleWorker]

-----------------------------------------------------------------------------
At(w, pcs) == work[w].pc \in pcs

Goto(w, pc) == work' = [work EXCEPT ![w].pc = pc]

\* run_once is over and its heartbeat has stopped.
Stop(w) == work' = [work EXCEPT ![w] = IdleWorker]

\* _check_lease_guard does not raise.
Guard(w) == ~work[w].lost

\* The places where _check_lease_guard raises LeaseOwnershipLost: the worker
\* leaves the job alone.
LoseLease(w) ==
    /\ At(w, {"start", "check", "engine", "recheck", "publish", "cancelled", "error"})
    /\ ~Guard(w)
    /\ Stop(w)
    /\ UNCHANGED queue

\* claim_next_job: recovery and claim in one transaction.
Claim(w) ==
    /\ At(w, {"idle"})
    /\ \E age \in Age :
         /\ HasClaimableWork(age)
         /\ LET table == Recovered(age)
                ready == ClaimableJobs(table)
                j     == Oldest(ready)
            IN  IF ready = {}
                THEN jobs' = table /\ UNCHANGED work
                ELSE /\ jobs' = [table EXCEPT ![j] = ClaimedRow(table[j], w, age)]
                     /\ work' = [work EXCEPT ![w] =
                                   [pc |-> "start", job |-> j,
                                    attempt |-> table[j].attempts + 1, lost |-> FALSE]]
    /\ UNCHANGED <<published, recordings>>

\* The ownership check of process_claimed_job does not look at the lease time.
Begin(w) ==
    /\ At(w, {"start"})
    /\ Guard(w)
    /\ LET row == jobs[work[w].job] IN
       IF row.status = "running" /\ row.worker = w THEN Goto(w, "check") ELSE Stop(w)
    /\ UNCHANGED queue

\* _raise_if_cancelled on the way to step `next`
CheckCancelled(w, next) ==
    LET j == work[w].job IN
    /\ Guard(w)
    /\ \E age \in Age :
         IF ~Owns(w, j, age) THEN Stop(w)
         ELSE Goto(w, IF jobs[j].cancel THEN "cancelled" ELSE next)
    /\ UNCHANGED queue

Prepare(w)     == At(w, {"check"})  /\ CheckCancelled(w, "loading")
ReportEvent(w) == At(w, {"engine"}) /\ CheckCancelled(w, "progress")
EngineDone(w)  == At(w, {"engine"}) /\ CheckCancelled(w, "finalizing")
CheckAgain(w)  == At(w, {"recheck"}) /\ CheckCancelled(w, "error")

\* The recording, its media file or the model is missing, or the engine raises.
EngineFails(w) ==
    /\ At(w, {"loading", "engine"})
    /\ Goto(w, "error")
    /\ UNCHANGED queue

AfterUpdate == [loading |-> "engine", progress |-> "engine", finalizing |-> "publish"]

\* update_claimed_job: a lost lease ends the run, KeyError is an error, and so is
\* the RuntimeError "cancellation was requested", but persist_event looks at the
\* flag first.
UpdateProgress(w) ==
    LET j == work[w].job IN
    /\ At(w, DOMAIN AfterUpdate)
    /\ \E age \in Age :
         \/ /\ NoRow(j)
            /\ Goto(w, "error")
            /\ UNCHANGED queue
         \/ /\ Owns(w, j, age) /\ jobs[j].cancel
            /\ Goto(w, IF At(w, {"progress"}) THEN "recheck" ELSE "error")
            /\ UNCHANGED queue
         \/ /\ ~NoRow(j) /\ ~Owns(w, j, age)
            /\ Stop(w)
            /\ UNCHANGED queue
         \/ /\ Owns(w, j, age) /\ ~jobs[j].cancel
            /\ ExtendLease(j, age)
            /\ Goto(w, AfterUpdate[work[w].pc])

\* Mutant of PublishRow: the cancel flag is not read again at publication.
PublishDespiteCancel(w, j, age) ==
    IF Owns(w, j, age) THEN InsertTranscript(j) /\ Stop(w)
    ELSE Stop(w) /\ UNCHANGED queue

\* complete_transcription with worker_id, for a row that is still there
PublishRow(w, j, age) ==
    LET exists    == j \in published
        succeeded == jobs[j].status = "succeeded"
        running   == jobs[j].status = "running"
    IN  CASE exists /\ succeeded ->                  \* existing transcript returned
                 Stop(w) /\ UNCHANGED queue
          [] (exists /\ ~succeeded) \/ (~exists /\ ~running) ->  \* RuntimeError, ValueError
                 Goto(w, "error") /\ UNCHANGED queue
          [] ~exists /\ running /\ ~Owns(w, j, age) ->             \* LeaseOwnershipLost
                 Stop(w) /\ UNCHANGED queue
          [] ~exists /\ Owns(w, j, age) /\ jobs[j].cancel ->             \* RuntimeError
                 Goto(w, "error") /\ UNCHANGED queue
          [] ~exists /\ Owns(w, j, age) /\ ~jobs[j].cancel ->
                 InsertTranscript(j) /\ Stop(w)

Publish(w) ==
    LET j == work[w].job IN
    /\ At(w, {"publish"})
    /\ Guard(w)
    /\ \E age \in Age :
         IF NoRow(j) THEN Goto(w, "error") /\ UNCHANGED queue     \* KeyError
         ELSE PublishRow(w, j, age)

\* _finish_claimed: the KeyError of a row that is gone is not caught on the
\* way out of run_once.
FinishClaimed(w, status) ==
    LET j == work[w].job IN
    \E age \in Age :
      \/ NoRow(j) /\ Goto(w, "dead") /\ UNCHANGED queue
      \/ ~NoRow(j) /\ ~Owns(w, j, age) /\ Stop(w) /\ UNCHANGED queue
      \/ Owns(w, j, age) /\ Finish(j, status) /\ Goto(w, "readBack")

FinishCancel(w) ==
    /\ At(w, {"cancelled", "finishCancel"})
    /\ At(w, {"cancelled"}) => Guard(w)
    /\ FinishClaimed(w, "cancelled")

FinishFailed(w) == At(w, {"fail"}) /\ FinishClaimed(w, "failed")

\* `except Exception`: the cancel flag decides between cancelled and failed.
HandleError(w) ==
    LET j == work[w].job IN
    /\ At(w, {"error"})
    /\ Guard(w)
    /\ \E age \in Age :
         IF ~Owns(w, j, age) THEN Stop(w)
         ELSE Goto(w, IF jobs[j].cancel THEN "finishCancel" ELSE "fail")
    /\ UNCHANGED queue

\* _finish_claimed reads the row again after its commit and asserts it is there.
ReadBack(w) ==
    /\ At(w, {"readBack"})
    /\ IF NoRow(work[w].job) THEN Goto(w, "dead") ELSE Stop(w)
    /\ UNCHANGED queue

\* sqlite3.OperationalError: inside the try it is one more engine error, in
\* the handlers it leaves run_once and the controller calls run_once again.
DatabaseBusy(w) ==
    /\ \/ At(w, {"check", "loading", "engine", "progress", "recheck", "finalizing", "publish"})
          /\ Goto(w, "error")
       \/ At(w, {"start", "cancelled", "finishCancel", "error", "fail", "readBack"})
          /\ Stop(w)
    /\ UNCHANGED queue

\* _LeaseHeartbeat._renew: a second thread of the worker, at any moment
HeartbeatRenew(w) ==
    LET j == work[w].job IN
    /\ At(w, Steps)
    /\ ~work[w].lost
    /\ \E age \in Age :
         IF Owns(w, j, age) THEN ExtendLease(j, age) /\ UNCHANGED work
         ELSE work' = [work EXCEPT ![w].lost = TRUE] /\ UNCHANGED queue

\* the bounded retries after SQLite errors are used up, or time is short
HeartbeatGivesUp(w) ==
    /\ At(w, Steps)
    /\ ~work[w].lost
    /\ work' = [work EXCEPT ![w].lost = TRUE]
    /\ UNCHANGED queue

\* The process ends at any point; a new one starts idle.
Crash(w) ==
    /\ ~At(w, {"idle"})
    /\ Stop(w)
    /\ UNCHANGED queue

-----------------------------------------------------------------------------
WorkerStep(w) ==
    \/ Claim(w) \/ Begin(w) \/ Prepare(w) \/ ReportEvent(w) \/ CheckAgain(w)
    \/ EngineDone(w) \/ UpdateProgress(w) \/ Publish(w) \/ FinishCancel(w) \/ HandleError(w)
    \/ FinishFailed(w) \/ ReadBack(w) \/ LoseLease(w)

Trouble(w) == EngineFails(w) \/ DatabaseBusy(w) \/ HeartbeatGivesUp(w) \/ Crash(w)

UserStep ==
    /\ \/ \E j \in Job : AddJob(j) \/ RequestCancel(j) \/ RetryJob(j)
       \/ \E r \in Recording : DeleteRecording(r)
    /\ UNCHANGED work

TimePasses == Tick /\ UNCHANGED work

Next ==
    \/ \E w \in Worker : WorkerStep(w) \/ HeartbeatRenew(w) \/ Trouble(w)
    \/ UserStep
    \/ TimePasses

Spec == Init /\ [][Next]_vars

\* A worker thread that runs keeps stepping, an engine that reports a finite
\* recording gets to its end, and time passes.
Fairness ==
    /\ \A w \in Worker : WF_vars(WorkerStep(w)) /\ SF_vars(EngineDone(w))
    /\ WF_vars(TimePasses)

FairSpec == Spec /\ Fairness
-----------------------------------------------------------------------------
(* Properties.                                                             *)

\* While w holds an unexpired lease on j nobody else ends the run of j, and
\* nobody else publishes it: update, publication, failure and recovery all go
\* through _require_valid_lease or through the expiry test of
\* _recover_expired_jobs, and each of them works with its own, older, clock.
LeaseHolderDecides ==
    [][\A w \in Worker, j \in Job :
         Owns(w, j, 0) /\ jobs'[j].status # "running"
           => work[w].job = j /\ work'[w] # work[w]]_vars

\* A worker publishes only the attempt it claimed: after its lease was
\* recovered and the job claimed again (perhaps by a later run of the same
\* worker), the late result of complete_transcription is refused.
PublicationFence ==
    [][\A w \in Worker, j \in Job :
         /\ j \in published' \ published
         /\ work[w].pc = "publish" /\ work[w].job = j /\ work'[w] = IdleWorker
         => jobs[j].worker = w /\ jobs[j].attempts = work[w].attempt]_vars

\* What fences the publication: the row names w only while w is in the very
\* run whose claim wrote that name, so the attempt numbers agree.
ClaimsAgree ==
    \A w \in Worker : \A j \in Job :
        /\ jobs[j].status = "running" /\ jobs[j].worker = w
        /\ work[w].pc # "idle" /\ work[w].job = j
        => work[w].attempt = jobs[j].attempts

\* The job table under its workers, users and the clock is a JobLifecycle.
lifeOfJobs == [j \in Job |-> [state     |-> jobs[j].status,
                              attempts  |-> jobs[j].attempts,
                              doomed    |-> jobs[j].cancel,
                              published |-> j \in published]]

Lifecycle == INSTANCE JobLifecycle WITH life <- lifeOfJobs

\* The refinement: transitions, attempt limit, no publication of a doomed run.
ImplementsLifecycle == Lifecycle!Spec

\* A job that waits or runs is eventually settled, or gone with its recording:
\* a crashed or lost run is recovered when its lease expires and attempts are
\* bounded (claim_next_job, _recover_expired_jobs).
JobsSettle ==
    \A j \in Job : jobs[j].status \in Active ~> jobs[j].status \notin Active

\* The controller thread of the API ends only on a recorded SQLite error
\* (api.py, _WorkerController._run): no other exception leaves run_once.
NoSilentWorkerDeath == \A w \in Worker : work[w].pc # "dead"
=============================================================================
