--------------------- MODULE TranscriptionWorkerProofs ---------------------
(***************************************************************************)
(* Theorems about the queue under its workers, alone and beside the        *)
(* synchronous command, for every set of jobs, workers, callers and        *)
(* recordings and every lease time and attempt limit.                      *)
(***************************************************************************)
EXTENDS SyncTranscribe, WellFoundedInduction, TLAPS

\* The selection of claim_next_job picks one of the ready jobs.
LEMMA OldestIsReady ==
    ASSUME NEW S \in SUBSET Job, S # {}
    PROVE  Oldest(S) \in S
  <1>1. S \subseteq Nat
    BY JobAssumption
  <1> DEFINE less == {ss \in Nat \X Nat : ss[1] < ss[2]}
  <1>2. \A k, j \in Nat : k < j => <<k, j>> \in less
    OBVIOUS
  <1>3. IsWellFoundedOn(less, Nat)
    BY NatLessThanWellFounded DEF OpToRel
  <1> HIDE DEF less
  <1>4. PICK j \in S : \A k \in S : <<k, j>> \notin less
    BY <1>1, <1>3, WFMin
  <1>5. ASSUME NEW k \in S
        PROVE  j <= k
    <2>1. k \in Nat /\ j \in Nat
      BY <1>1
    <2>2. ~(k < j)
      BY <1>2, <1>4, <2>1
    <2> QED
      BY <2>1, <2>2
  <1> QED
    BY <1>5 DEF Oldest

\* What the invariance proofs use of a claim: the recovered table, and what
\* happens to its oldest ready job.
LEMMA RecoveredType ==
    ASSUME TypeOK, NEW age \in Age
    PROVE  /\ Recovered(age) \in [Job -> JobRow]
           /\ \A j \in Job : Recovered(age)[j] =
                  IF Expired(j, age) THEN RecoveredRow(jobs[j]) ELSE jobs[j]
           /\ ClaimableJobs(Recovered(age)) \in SUBSET Job
  BY DEF TypeOK, QueueTypeOK, Recovered, RecoveredRow, JobRow, Status, Active,
         Settled, Missing, ClaimableJobs
-----------------------------------------------------------------------------
\* The inductive invariant.  The tables alone do not fence a publication: that
\* the row names w only during the run whose claim wrote the name (ClaimsAgree)
\* needs pending rows to name nobody (QueuedJobsAreClaimable).
IInv == TypeOK /\ QueueConsistent /\ ClaimsAgree

\* The empty queue with idle workers satisfies it.
LEMMA InitIInv == Init => IInv
  BY NullAssumption, AttemptsAssumption
     DEF Init, QueueInit, IInv, TypeOK, QueueTypeOK, JobRow, NewRow, Status, Active, Settled,
         Missing, WorkerState, IdleWorker, Steps, QueueConsistent,
         QueuedJobsAreClaimable, PublishedIffSucceeded, LeasesBelongToRuns,
         RowsKeepRecording, NoRow, Missing, ClaimsAgree, AbsentRowsAreNew

\* Steps that only move a worker within its run, or end the run.
LEMMA MoveKeeps ==
    ASSUME IInv, UNCHANGED queue, NEW w \in Worker,
           \/ Stop(w)
           \/ work[w].pc # "idle" /\ \E pc \in Steps \cup {"dead"} : Goto(w, pc)
           \/ work[w].pc # "idle" /\ work' = [work EXCEPT ![w].lost = TRUE]
    PROVE  IInv'
  <1>1. TypeOK'
    <2>1. QueueTypeOK'
      BY DEF IInv, TypeOK, QueueTypeOK, queue
    <2>2. CASE Stop(w)
      BY <2>1, <2>2, AttemptsAssumption DEF IInv, TypeOK, Stop, IdleWorker, WorkerState
    <2>3. CASE work[w].pc # "idle" /\ \E pc \in Steps \cup {"dead"} : Goto(w, pc)
      <3>1. PICK pc \in Steps \cup {"dead"} : Goto(w, pc)
        BY <2>3
      <3>2. pc # "idle" /\ pc \in Steps \cup {"idle", "dead"}
        BY DEF Steps
      <3> QED
        BY <2>1, <2>3, <3>1, <3>2 DEF IInv, TypeOK, Goto, WorkerState
    <2>4. CASE work[w].pc # "idle" /\ work' = [work EXCEPT ![w].lost = TRUE]
      BY <2>1, <2>4 DEF IInv, TypeOK, WorkerState
    <2> QED
      BY <2>2, <2>3, <2>4
  <1>2. QueueConsistent'
    BY DEF IInv, QueueConsistent, QueuedJobsAreClaimable, PublishedIffSucceeded,
           LeasesBelongToRuns, RowsKeepRecording, NoRow, Missing, AbsentRowsAreNew, queue, Claimable
  <1>3. ClaimsAgree'
    BY DEF IInv, TypeOK, ClaimsAgree, queue, Stop, Goto, WorkerState, IdleWorker
  <1> QED
    BY <1>1, <1>2, <1>3 DEF IInv

\* Recovery keeps the tables consistent: running rows become claimable, failed
\* or cancelled ones.
LEMMA RecoveredConsistent ==
    ASSUME IInv, NEW age \in Age, NEW j \in Job, Expired(j, age)
    PROVE  LET row == Recovered(age)[j] IN
           /\ row.status \in {"pending", "failed", "cancelled"}
           /\ row.status = "pending" => Claimable(row)
           /\ row.worker = NoWorker
           /\ row.lease = NoLease
           /\ RecordingOf[j] \in recordings
           /\ j \notin published
  BY AttemptsAssumption
     DEF IInv, TypeOK, QueueTypeOK, QueueConsistent, PublishedIffSucceeded,
         RowsKeepRecording, NoRow, Missing, Recovered, RecoveredRow, Expired, JobRow,
         Claimable, Active

\* The claim: what it recovers is consistent, and the claimed row names the run.
LEMMA ClaimKeeps ==
    ASSUME IInv, NEW w \in Worker, Claim(w)
    PROVE  IInv'
  <1>1. PICK age \in Age :
          LET table == Recovered(age)
              ready == ClaimableJobs(table)
              j     == Oldest(ready)
          IN  IF ready = {}
              THEN jobs' = table /\ UNCHANGED work
              ELSE /\ jobs' = [table EXCEPT ![j] = ClaimedRow(table[j], w, age)]
                   /\ work' = [work EXCEPT ![w] =
                                 [pc |-> "start", job |-> j,
                                  attempt |-> table[j].attempts + 1, lost |-> FALSE]]
    BY DEF Claim
  <1> DEFINE table == Recovered(age)
             ready == ClaimableJobs(table)
             j     == Oldest(ready)
  <1>2. UNCHANGED <<published, recordings>> /\ work[w].pc = "idle"
    BY DEF Claim, At
  <1>3. /\ table \in [Job -> JobRow]
        /\ \A k \in Job : table[k] = IF Expired(k, age) THEN RecoveredRow(jobs[k]) ELSE jobs[k]
        /\ ready \in SUBSET Job
        /\ \A k \in ready : Claimable(table[k])
    BY RecoveredType DEF IInv, ClaimableJobs
  <1>4. \A k \in Job : Expired(k, age) =>
           /\ table[k].status \in {"pending", "failed", "cancelled"}
           /\ table[k].status = "pending" => Claimable(table[k])
           /\ table[k].worker = NoWorker
           /\ table[k].lease = NoLease
           /\ RecordingOf[k] \in recordings
           /\ k \notin published
    BY RecoveredConsistent
  <1>5. \A k \in Job : ~Expired(k, age) => table[k] = jobs[k]
    BY <1>3
  <1> HIDE DEF table, ready, j
  <1>6. CASE ready = {}
    <2>1. jobs' = table /\ UNCHANGED work
      BY <1>1, <1>6 DEF table, ready
    <2>2. TypeOK'
      BY <2>1, <1>2, <1>3 DEF IInv, TypeOK, QueueTypeOK
    <2>3. QueueConsistent'
      BY <2>1, <1>2, <1>3, <1>4, <1>5
         DEF IInv, TypeOK, QueueTypeOK, QueueConsistent, QueuedJobsAreClaimable,
             PublishedIffSucceeded, LeasesBelongToRuns, RowsKeepRecording, NoRow, Missing,
             AbsentRowsAreNew, Active, Expired
    <2>4. ClaimsAgree'
      BY <2>1, <1>3, <1>4, <1>5 DEF IInv, ClaimsAgree
    <2> QED
      BY <2>2, <2>3, <2>4 DEF IInv
  <1>7. CASE ready # {}
    <2>1. /\ j \in ready
          /\ j \in Job
      BY <1>3, <1>7, OldestIsReady DEF j
    <2>2. /\ jobs' = [table EXCEPT ![j] = ClaimedRow(table[j], w, age)]
          /\ work' = [work EXCEPT ![w] =
                        [pc |-> "start", job |-> j,
                         attempt |-> table[j].attempts + 1, lost |-> FALSE]]
      BY <1>1, <1>7 DEF table, ready, j
    <2>3. Claimable(table[j]) /\ table[j] \in JobRow
      BY <1>3, <2>1
    <2>4. ClaimedRow(table[j], w, age) \in JobRow
      <3>1. LeaseTime - age \in Int
        BY LeaseAssumption DEF Age
      <3>2. table[j].attempts + 1 \in 0 .. MaxAttempts
        BY <2>3, AttemptsAssumption DEF Claimable, JobRow
      <3> QED
        BY <2>3, <3>1, <3>2 DEF ClaimedRow, JobRow, Status, Active
    <2>5. TypeOK'
      <3>1. jobs' \in [Job -> JobRow]
        BY <1>3, <2>2, <2>4
      <3>2. table[j].attempts + 1 \in 0 .. MaxAttempts
        BY <2>3, AttemptsAssumption DEF Claimable, JobRow
      <3>3. work' \in [Worker -> WorkerState]
        BY <2>1, <2>2, <3>2 DEF IInv, TypeOK, WorkerState, Steps
      <3>4. \A v \in Worker : work'[v].pc = "idle" <=> work'[v].job = NoJob
        BY <2>1, <2>2, NoJobAssumption DEF IInv, TypeOK
      <3> QED
        BY <1>2, <3>1, <3>3, <3>4 DEF IInv, TypeOK, QueueTypeOK
    <2>6. QueueConsistent'
      <3>1. /\ jobs'[j] = ClaimedRow(table[j], w, age)
            /\ jobs'[j].status = "running"
            /\ jobs'[j].worker = w
        BY <1>3, <2>1, <2>2, <2>3 DEF ClaimedRow, JobRow
      <3>2. \A k \in Job : k # j => jobs'[k] = table[k]
        BY <1>3, <2>1, <2>2
      <3>3. RecordingOf[j] \in recordings /\ j \notin published
        BY <1>4, <1>5, <2>1, <2>3
           DEF IInv, QueueConsistent, PublishedIffSucceeded, RowsKeepRecording, NoRow, Missing,
               Claimable, Active
      <3> QED
        BY <1>2, <1>3, <1>4, <1>5, <2>1, <3>1, <3>2, <3>3
           DEF IInv, TypeOK, QueueTypeOK, QueueConsistent, QueuedJobsAreClaimable,
               PublishedIffSucceeded, LeasesBelongToRuns, RowsKeepRecording, NoRow, Missing,
               AbsentRowsAreNew, Active, Expired
    <2>7. ClaimsAgree'
      <3> SUFFICES ASSUME NEW v \in Worker, NEW k \in Job,
                          jobs'[k].status = "running", jobs'[k].worker = v,
                          work'[v].pc # "idle", work'[v].job = k
                   PROVE  work'[v].attempt = jobs'[k].attempts
        BY DEF ClaimsAgree
      <3>1. jobs'[j].worker = w /\ jobs'[j].attempts = table[j].attempts + 1
        BY <1>3, <2>1, <2>2, <2>3 DEF ClaimedRow, JobRow
      <3>2. work'[w].job = j /\ work'[w].attempt = table[j].attempts + 1
        BY <2>2 DEF IInv, TypeOK
      <3>3. CASE v = w
        BY <3>1, <3>2, <3>3
      <3>4. CASE v # w
        <4>1. k # j /\ work'[v] = work[v]
          BY <2>2, <3>1, <3>4 DEF IInv, TypeOK
        <4>2. jobs'[k] = table[k]
          BY <1>3, <2>1, <2>2, <4>1
        <4> QED
          BY <1>4, <1>5, <4>1, <4>2 DEF IInv, ClaimsAgree
      <3> QED
        BY <3>3, <3>4
    <2> QED
      BY <2>5, <2>6, <2>7 DEF IInv
  <1> QED
    BY <1>6, <1>7

\* A step that names no worker in a new row and changes no attempt number
\* cannot separate a worker from its claim.
SameClaims ==
    \A k \in Job : jobs'[k].status = "running" =>
        /\ jobs[k].status = "running"
        /\ jobs'[k].worker = jobs[k].worker
        /\ jobs'[k].attempts = jobs[k].attempts

\* Such a step keeps the invariant if it keeps the tables.
LEMMA WriteKeeps ==
    ASSUME IInv, QueueTypeOK', QueueConsistent', SameClaims,
           \/ UNCHANGED work
           \/ \E w \in Worker : Stop(w)
           \/ \E w \in Worker : /\ work[w].pc # "idle"
                                /\ \E pc \in Steps : Goto(w, pc)
    PROVE  IInv'
  <1>1. TypeOK'
    <2>1. CASE UNCHANGED work
      BY <2>1 DEF IInv, TypeOK
    <2>2. CASE \E w \in Worker : Stop(w)
      BY <2>2, AttemptsAssumption DEF IInv, TypeOK, Stop, IdleWorker, WorkerState
    <2>3. CASE \E w \in Worker : /\ work[w].pc # "idle"
                                 /\ \E pc \in Steps : Goto(w, pc)
      BY <2>3 DEF IInv, TypeOK, Goto, WorkerState, Steps
    <2> QED
      BY <2>1, <2>2, <2>3
  <1>2. \A v \in Worker : work'[v].pc # "idle" =>
           /\ work[v].pc # "idle"
           /\ work'[v].job = work[v].job
           /\ work'[v].attempt = work[v].attempt
    BY DEF IInv, TypeOK, Stop, Goto, IdleWorker, WorkerState
  <1>3. ClaimsAgree'
    BY <1>2 DEF IInv, ClaimsAgree, SameClaims
  <1> QED
    BY <1>1, <1>3 DEF IInv

\* One row is written: what its new contents must satisfy for the tables to
\* stay consistent.
GoodRow(j, row) ==
    /\ row.status # "absent"
    /\ row.status = "pending" =>
          Claimable(row) /\ row.worker = NoWorker /\ row.lease = NoLease
    /\ row.lease # NoLease => row.status = "running" /\ row.worker \in Worker
    /\ row.status \notin Missing => RecordingOf[j] \in recordings

\* A good row keeps the three tables consistent.
LEMMA RowWriteKeeps ==
    ASSUME IInv, NEW j \in Job, NEW row \in JobRow,
           jobs' = [jobs EXCEPT ![j] = row],
           recordings' = recordings,
           published' = published \/ published' = published \cup {j},
           j \in published' <=> row.status = "succeeded",
           GoodRow(j, row)
    PROVE  QueueTypeOK' /\ QueueConsistent'
  <1>1. jobs \in [Job -> JobRow] /\ published \subseteq Job
    BY DEF IInv, TypeOK, QueueTypeOK
  <1>2. /\ jobs'[j] = row
        /\ \A k \in Job : k # j => jobs'[k] = jobs[k]
        /\ \A k \in Job : k # j => (k \in published' <=> k \in published)
    BY <1>1
  <1>3. QueueTypeOK'
    BY <1>1 DEF IInv, TypeOK, QueueTypeOK
  <1>4. AbsentRowsAreNew'
    BY <1>2 DEF IInv, QueueConsistent, AbsentRowsAreNew, GoodRow, NewRow
  <1>5. QueuedJobsAreClaimable'
    BY <1>2 DEF IInv, QueueConsistent, QueuedJobsAreClaimable, GoodRow, Claimable
  <1>6. PublishedIffSucceeded'
    BY <1>2 DEF IInv, QueueConsistent, PublishedIffSucceeded, GoodRow
  <1>7. LeasesBelongToRuns'
    BY <1>2 DEF IInv, QueueConsistent, LeasesBelongToRuns, GoodRow
  <1>8. RowsKeepRecording'
    BY <1>2 DEF IInv, QueueConsistent, RowsKeepRecording, NoRow, Missing, GoodRow
  <1> QED
    BY <1>3, <1>4, <1>5, <1>6, <1>7, <1>8 DEF QueueConsistent

\* The writes that _require_valid_lease guards.
LEMMA OwnedWrite ==
    ASSUME IInv, NEW w \in Worker, NEW j \in Job, NEW age \in Age, Owns(w, j, age),
           \/ ExtendLease(j, age)
           \/ \E status \in {"failed", "cancelled"} : Finish(j, status)
           \/ InsertTranscript(j)
    PROVE  QueueTypeOK' /\ QueueConsistent' /\ SameClaims
  <1>1. /\ jobs \in [Job -> JobRow]
        /\ jobs[j] \in JobRow
        /\ jobs[j].status = "running" /\ jobs[j].worker = w
        /\ j \notin published
        /\ RecordingOf[j] \in recordings
    BY DEF IInv, TypeOK, QueueTypeOK, Owns, QueueConsistent, PublishedIffSucceeded,
           RowsKeepRecording, NoRow, Missing, Active
  <1>2. CASE ExtendLease(j, age)
    <2> DEFINE row == [jobs[j] EXCEPT !.lease = LeaseTime - age]
    <2>1. LeaseTime - age \in Int
      BY LeaseAssumption DEF Age
    <2>2. row \in JobRow /\ GoodRow(j, row) /\ row.status # "succeeded"
      BY <1>1, <2>1 DEF JobRow, GoodRow, Missing
    <2>3. jobs' = [jobs EXCEPT ![j] = row]
      BY <1>2 DEF ExtendLease
    <2>4. SameClaims
      BY <1>1, <2>3 DEF SameClaims, JobRow
    <2> HIDE DEF row
    <2> QED
      BY <1>1, <1>2, <2>2, <2>3, <2>4, RowWriteKeeps DEF ExtendLease
  <1>3. CASE \E status \in {"failed", "cancelled"} : Finish(j, status)
    <2>1. PICK status \in {"failed", "cancelled"} : Finish(j, status)
      BY <1>3
    <2> DEFINE row == [jobs[j] EXCEPT !.status = status, !.lease = NoLease]
    <2>2. row \in JobRow /\ GoodRow(j, row) /\ row.status # "succeeded"
      BY <1>1 DEF JobRow, GoodRow, Status, Settled, Active, Missing
    <2>3. jobs' = [jobs EXCEPT ![j] = row]
      BY <1>1, <2>1 DEF Finish
    <2>4. SameClaims
      BY <1>1, <2>3 DEF SameClaims, JobRow
    <2> HIDE DEF row
    <2> QED
      BY <1>1, <2>1, <2>2, <2>3, <2>4, RowWriteKeeps DEF Finish
  <1>4. CASE InsertTranscript(j)
    <2> DEFINE row == [jobs[j] EXCEPT !.status = "succeeded", !.lease = NoLease]
    <2>1. row \in JobRow /\ GoodRow(j, row) /\ row.status = "succeeded"
      BY <1>1 DEF JobRow, GoodRow, Status, Settled, Active, Missing
    <2>2. jobs' = [jobs EXCEPT ![j] = row]
      BY <1>1, <1>4 DEF InsertTranscript
    <2>3. SameClaims
      BY <1>1, <2>2 DEF SameClaims, JobRow
    <2> HIDE DEF row
    <2> QED
      BY <1>1, <1>4, <2>1, <2>2, <2>3, RowWriteKeeps DEF InsertTranscript
  <1> QED
    BY <1>2, <1>3, <1>4

\* A worker between two steps has a job, which is what its record names.
LEMMA BusyHasJob ==
    ASSUME TypeOK, NEW w \in Worker, work[w].pc # "idle"
    PROVE  work[w].job \in Job
  BY DEF TypeOK, WorkerState

\* update_claimed_job writes only an owned row.
LEMMA UpdateKeeps ==
    ASSUME IInv, NEW w \in Worker, UpdateProgress(w)
    PROVE  IInv'
  <1> DEFINE j == work[w].job
  <1>1. /\ work[w].pc \in {"loading", "progress", "finalizing"}
        /\ AfterUpdate[work[w].pc] \in Steps
    BY DEF UpdateProgress, At, AfterUpdate, Steps
  <1>2. j \in Job
    BY <1>1, BusyHasJob DEF IInv
  <1>3. PICK age \in Age :
          \/ (Goto(w, "error") \/ Goto(w, "recheck")) /\ UNCHANGED queue
          \/ Stop(w) /\ UNCHANGED queue
          \/ Owns(w, j, age) /\ ExtendLease(j, age) /\ Goto(w, AfterUpdate[work[w].pc])
    BY DEF UpdateProgress
  <1>4. CASE (Goto(w, "error") \/ Goto(w, "recheck")) /\ UNCHANGED queue
    BY <1>1, <1>4, MoveKeeps DEF Steps
  <1>5. CASE Stop(w) /\ UNCHANGED queue
    BY <1>5, MoveKeeps
  <1>6. CASE Owns(w, j, age) /\ ExtendLease(j, age) /\ Goto(w, AfterUpdate[work[w].pc])
    <2>1. QueueTypeOK' /\ QueueConsistent' /\ SameClaims
      BY <1>2, <1>6, OwnedWrite
    <2> QED
      BY <1>1, <1>6, <2>1, WriteKeeps
  <1> QED
    BY <1>3, <1>4, <1>5, <1>6

\* complete_transcription publishes only an owned row.
LEMMA PublishKeeps ==
    ASSUME IInv, NEW w \in Worker, Publish(w)
    PROVE  IInv'
  <1> DEFINE j == work[w].job
  <1>1. work[w].pc = "publish"
    BY DEF Publish, At
  <1>2. j \in Job /\ jobs[j] \in JobRow
    BY <1>1, BusyHasJob DEF IInv, TypeOK, QueueTypeOK
  <1>3. PICK age \in Age :
          \/ Goto(w, "error") /\ UNCHANGED queue
          \/ Stop(w) /\ UNCHANGED queue
          \/ Owns(w, j, age) /\ InsertTranscript(j) /\ Stop(w)
    <2>1. PICK age \in Age : IF NoRow(j) THEN Goto(w, "error") /\ UNCHANGED queue
                             ELSE PublishRow(w, j, age)
      BY DEF Publish
    <2>3. Owns(w, j, age) => jobs[j].status = "running"
      BY DEF Owns
    <2> QED
      BY <2>1, <2>3 DEF PublishRow
  <1>4. CASE Goto(w, "error") /\ UNCHANGED queue
    BY <1>1, <1>4, MoveKeeps DEF Steps
  <1>5. CASE Stop(w) /\ UNCHANGED queue
    BY <1>5, MoveKeeps
  <1>6. CASE Owns(w, j, age) /\ InsertTranscript(j) /\ Stop(w)
    <2>1. QueueTypeOK' /\ QueueConsistent' /\ SameClaims
      BY <1>2, <1>6, OwnedWrite
    <2> QED
      BY <1>6, <2>1, WriteKeeps
  <1> QED
    BY <1>3, <1>4, <1>5, <1>6

\* _finish_claimed ends only an owned row.
LEMMA FinishKeeps ==
    ASSUME IInv, NEW w \in Worker, work[w].pc # "idle",
           NEW status \in {"failed", "cancelled"}, FinishClaimed(w, status)
    PROVE  IInv'
  <1> DEFINE j == work[w].job
  <1>1. j \in Job
    BY BusyHasJob DEF IInv
  <1>2. PICK age \in Age :
          \/ Goto(w, "dead") /\ UNCHANGED queue
          \/ Stop(w) /\ UNCHANGED queue
          \/ Owns(w, j, age) /\ Finish(j, status) /\ Goto(w, "readBack")
    BY DEF FinishClaimed
  <1>3. CASE (Goto(w, "dead") \/ Stop(w)) /\ UNCHANGED queue
    BY <1>3, MoveKeeps DEF Steps
  <1>4. CASE Owns(w, j, age) /\ Finish(j, status) /\ Goto(w, "readBack")
    <2>1. QueueTypeOK' /\ QueueConsistent' /\ SameClaims
      BY <1>1, <1>4, OwnedWrite
    <2> QED
      BY <1>4, <2>1, WriteKeeps DEF Steps
  <1> QED
    BY <1>2, <1>3, <1>4

\* The heartbeat extends only an owned lease.
LEMMA HeartbeatKeeps ==
    ASSUME IInv, NEW w \in Worker, HeartbeatRenew(w)
    PROVE  IInv'
  <1> DEFINE j == work[w].job
  <1>1. work[w].pc # "idle"
    BY DEF HeartbeatRenew, At, Steps
  <1>2. j \in Job
    BY <1>1, BusyHasJob DEF IInv
  <1>3. PICK age \in Age :
          \/ Owns(w, j, age) /\ ExtendLease(j, age) /\ UNCHANGED work
          \/ work' = [work EXCEPT ![w].lost = TRUE] /\ UNCHANGED queue
    BY DEF HeartbeatRenew
  <1>4. CASE Owns(w, j, age) /\ ExtendLease(j, age) /\ UNCHANGED work
    <2>1. QueueTypeOK' /\ QueueConsistent' /\ SameClaims
      BY <1>2, <1>4, OwnedWrite
    <2> QED
      BY <1>4, <2>1, WriteKeeps
  <1>5. CASE work' = [work EXCEPT ![w].lost = TRUE] /\ UNCHANGED queue
    BY <1>1, <1>5, MoveKeeps
  <1> QED
    BY <1>3, <1>4, <1>5

\* Every other step of a worker only moves it.
LEMMA MovesKeep ==
    ASSUME IInv, NEW w \in Worker,
           \/ Begin(w) \/ Prepare(w) \/ ReportEvent(w) \/ CheckAgain(w) \/ EngineDone(w)
           \/ EngineFails(w)
           \/ HandleError(w) \/ ReadBack(w) \/ LoseLease(w) \/ DatabaseBusy(w)
           \/ HeartbeatGivesUp(w) \/ Crash(w)
    PROVE  IInv'
  <1>1. UNCHANGED queue
    BY DEF Begin, Prepare, ReportEvent, CheckAgain, EngineDone, CheckCancelled, EngineFails,
           HandleError, ReadBack, LoseLease, DatabaseBusy, HeartbeatGivesUp, Crash
  <1>2. \/ Stop(w)
        \/ work[w].pc # "idle" /\ \E pc \in Steps \cup {"dead"} : Goto(w, pc)
        \/ work[w].pc # "idle" /\ work' = [work EXCEPT ![w].lost = TRUE]
    <2>1. CASE Begin(w)
      BY <2>1 DEF Begin, At, Steps
    <2>2. CASE Prepare(w) \/ ReportEvent(w) \/ CheckAgain(w) \/ EngineDone(w)
      BY <2>2 DEF Prepare, ReportEvent, CheckAgain, EngineDone, CheckCancelled, At, Steps
    <2>3. CASE EngineFails(w) \/ HandleError(w) \/ ReadBack(w)
      BY <2>3 DEF EngineFails, HandleError, ReadBack, At, Steps
    <2>4. CASE LoseLease(w) \/ DatabaseBusy(w) \/ Crash(w)
      BY <2>4 DEF LoseLease, DatabaseBusy, Crash, At, Steps
    <2>5. CASE HeartbeatGivesUp(w)
      BY <2>5 DEF HeartbeatGivesUp, At, Steps
    <2> QED
      BY <2>1, <2>2, <2>3, <2>4, <2>5
  <1> QED
    BY <1>1, <1>2, MoveKeeps

\* Every step of a worker keeps the invariant.
LEMMA WorkerKeeps ==
    ASSUME IInv, NEW w \in Worker, WorkerStep(w) \/ HeartbeatRenew(w) \/ Trouble(w)
    PROVE  IInv'
  <1>1. CASE Claim(w)
    BY <1>1, ClaimKeeps
  <1>2. CASE UpdateProgress(w)
    BY <1>2, UpdateKeeps
  <1>3. CASE Publish(w)
    BY <1>3, PublishKeeps
  <1>4. CASE FinishCancel(w)
    BY <1>4, FinishKeeps DEF FinishCancel, At
  <1>5. CASE FinishFailed(w)
    BY <1>5, FinishKeeps DEF FinishFailed, At
  <1>6. CASE HeartbeatRenew(w)
    BY <1>6, HeartbeatKeeps
  <1> QED
    BY <1>1, <1>2, <1>3, <1>4, <1>5, <1>6, MovesKeep DEF WorkerStep, Trouble

\* Adding, cancelling, retrying and deleting keep it.
LEMMA UserKeeps ==
    ASSUME IInv, UserStep
    PROVE  IInv'
  <1>0. /\ UNCHANGED work
        /\ jobs \in [Job -> JobRow]
        /\ \A k \in Job : jobs[k].status = "absent" =>
              /\ jobs[k].worker = NoWorker /\ jobs[k].lease = NoLease
              /\ jobs[k].attempts = 0 /\ ~jobs[k].cancel
        /\ \A k \in Job : k \in published <=> jobs[k].status = "succeeded"
        /\ \A k \in Job : jobs[k].status \notin Missing => RecordingOf[k] \in recordings
        /\ \A k \in Job : jobs[k].lease # NoLease =>
              jobs[k].status = "running" /\ jobs[k].worker \in Worker
    BY DEF UserStep, IInv, TypeOK, QueueTypeOK, QueueConsistent, AbsentRowsAreNew,
           NewRow, PublishedIffSucceeded, RowsKeepRecording, NoRow, Missing, LeasesBelongToRuns
  <1>1. ASSUME NEW j \in Job, AddJob(j)
        PROVE  QueueTypeOK' /\ QueueConsistent' /\ SameClaims
    <2> DEFINE row == [jobs[j] EXCEPT !.status = "pending"]
    <2>1. jobs[j] \in JobRow /\ jobs[j].status = "absent" /\ RecordingOf[j] \in recordings
      BY <1>0, <1>1 DEF AddJob
    <2>2. row \in JobRow
      BY <2>1 DEF JobRow, Status, Active
    <2>3. GoodRow(j, row) /\ row.status # "succeeded"
      BY <1>0, <2>1, AttemptsAssumption DEF JobRow, GoodRow, Missing, Claimable
    <2>4. jobs' = [jobs EXCEPT ![j] = row] /\ j \notin published
      BY <1>0, <1>1, <2>1 DEF AddJob
    <2>5. SameClaims
      BY <1>0, <2>1, <2>4 DEF SameClaims, JobRow
    <2> HIDE DEF row
    <2> QED
      BY <1>1, <2>2, <2>3, <2>4, <2>5, RowWriteKeeps DEF AddJob
  <1>2. ASSUME NEW j \in Job, RequestCancel(j)
        PROVE  QueueTypeOK' /\ QueueConsistent' /\ SameClaims
    <2> DEFINE row == [jobs[j] EXCEPT !.cancel = TRUE,
                                      !.status = IF @ = "pending" THEN "cancelled" ELSE @]
    <2>1. jobs[j] \in JobRow /\ jobs[j].status \in {"pending", "running"}
      BY <1>0, <1>2 DEF RequestCancel, Active
    <2>2. row \in JobRow
      BY <2>1 DEF JobRow, Status, Settled
    <2>3. /\ jobs' = [jobs EXCEPT ![j] = row]
          /\ j \notin published
      BY <1>0, <1>2, <2>1 DEF RequestCancel
    <2>4. GoodRow(j, row) /\ row.status # "succeeded"
      BY <1>0, <2>1 DEF JobRow, GoodRow, Active, Missing
    <2>5. SameClaims
      BY <1>0, <2>1, <2>3 DEF SameClaims, JobRow
    <2> HIDE DEF row
    <2> QED
      BY <1>2, <2>2, <2>3, <2>4, <2>5, RowWriteKeeps DEF RequestCancel
  <1>3. ASSUME NEW j \in Job, RetryJob(j)
        PROVE  QueueTypeOK' /\ QueueConsistent' /\ SameClaims
    <2>1. jobs[j] \in JobRow /\ jobs[j].status \in {"failed", "cancelled"}
      BY <1>0, <1>3 DEF RetryJob
    <2> DEFINE row == [jobs[j] EXCEPT !.status = "pending", !.cancel = FALSE,
                                      !.worker = NoWorker, !.lease = NoLease]
    <2>2. /\ jobs' = [jobs EXCEPT ![j] = row]
          /\ j \notin published
          /\ RecordingOf[j] \in recordings
          /\ jobs[j].attempts < MaxAttempts
      BY <1>0, <1>3, <2>1 DEF RetryJob, Missing
    <2>3. row \in JobRow
      BY <2>1 DEF JobRow, Status, Active
    <2>4. GoodRow(j, row) /\ row.status # "succeeded"
      BY <2>1, <2>2 DEF JobRow, GoodRow, Missing, Claimable
    <2>5. SameClaims
      BY <1>0, <2>1, <2>2 DEF SameClaims, JobRow
    <2> HIDE DEF row
    <2> QED
      BY <1>3, <2>2, <2>3, <2>4, <2>5, RowWriteKeeps DEF RetryJob
  <1>4. ASSUME NEW r \in Recording, DeleteRecording(r)
        PROVE  QueueTypeOK' /\ QueueConsistent' /\ SameClaims
    <2> DEFINE gone == [NewRow EXCEPT !.status = "deleted"]
    <2>1. gone.status = "deleted" /\ gone.lease = NoLease
      BY DEF NewRow
    <2>2. gone \in JobRow
      <3>1. 0 \in 0 .. MaxAttempts /\ "deleted" \in Status /\ "absent" \in Status
        BY AttemptsAssumption DEF Status, Missing
      <3>2. NewRow \in JobRow
        BY <3>1 DEF NewRow, JobRow
      <3> QED
        BY <3>1, <3>2 DEF JobRow
    <2>3. /\ jobs' = [k \in Job |-> IF k \in JobsOf(r) /\ jobs[k].status \in Settled
                                    THEN gone ELSE jobs[k]]
          /\ published' = published \ JobsOf(r)
          /\ recordings' = recordings \ {r}
          /\ \A k \in JobsOf(r) : jobs[k].status \notin Active
      BY <1>4 DEF DeleteRecording
    <2> HIDE DEF gone
    <2>4. QueueTypeOK'
      BY <1>0, <2>2, <2>3 DEF IInv, TypeOK, QueueTypeOK
    <2>5. \A k \in Job : \/ jobs'[k] = jobs[k] /\ RecordingOf[k] # r
                         \/ jobs'[k] = jobs[k] /\ jobs[k].status \in Missing /\ RecordingOf[k] = r
                         \/ jobs'[k] = gone /\ RecordingOf[k] = r
      BY <1>0, <2>3 DEF JobsOf, JobRow, Status
    <2>6. AbsentRowsAreNew'
      <3>1. gone.status = "deleted"
        BY <2>1
      <3> QED
        BY <2>5, <3>1 DEF IInv, QueueConsistent, AbsentRowsAreNew
    <2>7. QueuedJobsAreClaimable' /\ LeasesBelongToRuns'
      BY <2>1, <2>5 DEF IInv, QueueConsistent, QueuedJobsAreClaimable, Claimable,
                        LeasesBelongToRuns
    <2>8. PublishedIffSucceeded'
      BY <1>0, <2>1, <2>3, <2>5 DEF PublishedIffSucceeded, JobsOf, Missing
    <2>9. RowsKeepRecording'
      BY <1>0, <2>1, <2>3, <2>5 DEF RowsKeepRecording, NoRow, Missing
    <2>10. QueueConsistent'
      BY <2>6, <2>7, <2>8, <2>9 DEF QueueConsistent
    <2>11. SameClaims
      BY <2>1, <2>5 DEF SameClaims
    <2> QED
      BY <2>4, <2>10, <2>11
  <1> QED
    BY <1>0, <1>1, <1>2, <1>3, <1>4, WriteKeeps DEF UserStep

\* Time takes leases down and nothing else.
LEMMA TickKeeps ==
    ASSUME IInv, TimePasses
    PROVE  IInv'
  <1>1. /\ UNCHANGED <<published, recordings, work>>
        /\ jobs \in [Job -> JobRow]
    BY DEF TimePasses, Tick, IInv, TypeOK, QueueTypeOK
  <1>2. \A j \in Job : jobs[j].lease # NoLease => jobs[j].lease \in Int /\ jobs[j].lease - 1 \in Int
    BY <1>1 DEF JobRow
  <1>3. QueueTypeOK'
    BY <1>1, <1>2, LeaseAssumption DEF TimePasses, Tick, IInv, TypeOK, QueueTypeOK, JobRow
  <1>4. \A j \in Job : /\ jobs'[j].status = jobs[j].status
                       /\ jobs'[j].worker = jobs[j].worker
                       /\ jobs'[j].attempts = jobs[j].attempts
                       /\ jobs'[j].cancel = jobs[j].cancel
                       /\ jobs'[j].lease = NoLease <=> jobs[j].lease = NoLease
                       /\ jobs[j].lease = NoLease => jobs'[j] = jobs[j]
    BY <1>1, <1>2, NullAssumption DEF TimePasses, Tick, JobRow
  <1>5. QueueConsistent'
    <2>1. AbsentRowsAreNew'
      <3>1. NewRow.lease = NoLease
        BY DEF NewRow
      <3>2. \A j \in Job : jobs[j].status = "absent" => jobs'[j] = NewRow
        BY <1>4, <3>1 DEF IInv, QueueConsistent, AbsentRowsAreNew
      <3> QED
        BY <1>4, <3>2 DEF AbsentRowsAreNew
    <2>2. QueuedJobsAreClaimable' /\ LeasesBelongToRuns'
      BY <1>4 DEF IInv, QueueConsistent, QueuedJobsAreClaimable, Claimable, LeasesBelongToRuns
    <2>3. PublishedIffSucceeded' /\ RowsKeepRecording'
      BY <1>1, <1>4 DEF IInv, QueueConsistent, PublishedIffSucceeded, RowsKeepRecording,
                        NoRow, Missing
    <2> QED
      BY <2>1, <2>2, <2>3 DEF QueueConsistent
  <1>6. SameClaims
    BY <1>4 DEF SameClaims
  <1> QED
    BY <1>1, <1>3, <1>5, <1>6, WriteKeeps

\* Every step keeps the invariant.
LEMMA StepKeepsIInv == IInv /\ [Next]_vars => IInv'
  <1> SUFFICES ASSUME IInv, [Next]_vars
               PROVE  IInv'
    OBVIOUS
  <1>1. CASE \E w \in Worker : WorkerStep(w) \/ HeartbeatRenew(w) \/ Trouble(w)
    BY <1>1, WorkerKeeps
  <1>2. CASE UserStep
    BY <1>2, UserKeeps
  <1>3. CASE TimePasses
    BY <1>3, TickKeeps
  <1>4. CASE UNCHANGED vars
    <2>1. UNCHANGED work /\ QueueTypeOK' /\ QueueConsistent' /\ SameClaims
      BY <1>4
         DEF vars, IInv, TypeOK, QueueTypeOK, QueueConsistent, QueuedJobsAreClaimable,
             Claimable, PublishedIffSucceeded, LeasesBelongToRuns, AbsentRowsAreNew,
             RowsKeepRecording, NoRow, Missing, SameClaims
    <2> QED
      BY <2>1, WriteKeeps
  <1> QED
    BY <1>1, <1>2, <1>3, <1>4 DEF Next

-----------------------------------------------------------------------------
\* The invariant of the queue: types, the consistency of the three tables and
\* the agreement of rows and runs, in every reachable state.
THEOREM QueueInvariant == Spec => []IInv
  BY InitIInv, StepKeepsIInv, PTL DEF Spec

\* Every reachable state is well typed.
THEOREM TypeCorrect == Spec => []TypeOK
  BY QueueInvariant, PTL DEF IInv

\* No queued job is ever left where claim_next_job cannot see it, a transcript
\* exists exactly for succeeded jobs, leases belong to runs, and waiting or
\* running jobs keep their recording.
THEOREM TablesConsistent == Spec => []QueueConsistent
  BY QueueInvariant, PTL DEF IInv

\* No queued job is ever left where claim_next_job cannot see it.
THEOREM QueuedStayClaimable == Spec => []QueuedJobsAreClaimable
  BY TablesConsistent, PTL DEF QueueConsistent

\* A transcript exists exactly for the jobs that succeeded.
THEOREM TranscriptsMatch == Spec => []PublishedIffSucceeded
  BY TablesConsistent, PTL DEF QueueConsistent

\* A lease belongs to a running job and names its worker.
THEOREM LeasesMatch == Spec => []LeasesBelongToRuns
  BY TablesConsistent, PTL DEF QueueConsistent

\* A waiting or running job keeps its recording, whatever is deleted.
THEOREM ActiveKeepRecording == Spec => []ActiveJobsKeepRecording
  <1>1. QueueConsistent => ActiveJobsKeepRecording
    BY DEF QueueConsistent, RowsKeepRecording, ActiveJobsKeepRecording, NoRow,
           Active, Missing
  <1> QED
    BY <1>1, TablesConsistent, PTL

\* The tables agree: no lost job, no transcript but of a job that succeeded, no
\* lease without a run, no job without media.
THEOREM RowsStayConsistent == Spec => []RowsAgree
  BY QueuedStayClaimable, TranscriptsMatch, LeasesMatch, ActiveKeepRecording, PTL DEF RowsAgree

\* A row names a run only while it is in the attempt that run claimed.
THEOREM RunsMatchClaims == Spec => []ClaimsAgree
  BY QueueInvariant, PTL DEF IInv

-----------------------------------------------------------------------------
\* Who may publish a job or end a run: every step that adds a transcript or
\* takes a running row out of "running" is the owner's own step, or recovery of
\* an expired lease, or a step that finds the row not running.
LEMMA OwnerActs ==
    ASSUME IInv, [Next]_vars, NEW j \in Job,
           \/ j \in published' \ published
           \/ jobs[j].status = "running" /\ jobs'[j].status # "running"
    PROVE  \/ \E v \in Worker, age \in Age :
                 /\ Owns(v, j, age)
                 /\ work[v].job = j
                 /\ Stop(v) \/ (Goto(v, "readBack") /\ work[v].pc # "readBack")
                 /\ work[v].pc # "idle"
           \/ \E age \in Age : Expired(j, age) /\ published' = published
  <1>1. jobs \in [Job -> JobRow]
    BY DEF IInv, TypeOK, QueueTypeOK
  <1>2. ~UNCHANGED <<jobs, published>>
    OBVIOUS
  <1>3. ASSUME NEW v \in Worker, Claim(v)
        PROVE  \E age \in Age : Expired(j, age) /\ published' = published
    <2>1. published' = published
      BY <1>3 DEF Claim
    <2>2. PICK age \in Age :
            LET table == Recovered(age)
                ready == ClaimableJobs(table)
                k     == Oldest(ready)
            IN  IF ready = {} THEN jobs' = table /\ UNCHANGED work
                ELSE jobs' = [table EXCEPT ![k] = ClaimedRow(table[k], v, age)]
      BY <1>3 DEF Claim
    <2> DEFINE table == Recovered(age)
               ready == ClaimableJobs(table)
               k     == Oldest(ready)
    <2>3. table \in [Job -> JobRow] /\ table[j] = IF Expired(j, age) THEN RecoveredRow(jobs[j])
                                                  ELSE jobs[j]
      BY RecoveredType DEF IInv
    <2>4. CASE ready = {}
      BY <2>1, <2>2, <2>3, <2>4
    <2>5. CASE ready # {}
      <3>1. ready \in SUBSET Job
        BY DEF ClaimableJobs
      <3>2. k \in ready
        BY <3>1, <2>5, OldestIsReady
      <3>3. /\ k \in Job /\ table[k] \in JobRow
            /\ jobs' = [table EXCEPT ![k] = ClaimedRow(table[k], v, age)]
        BY <2>2, <2>3, <2>5, <3>1, <3>2
      <3> HIDE DEF table, ready, k
      <3>4. jobs'[k].status = "running"
        BY <2>3, <3>3 DEF ClaimedRow, JobRow
      <3>5. k # j /\ jobs'[j] = table[j]
        BY <2>1, <2>3, <3>3, <3>4
      <3> QED
        BY <2>1, <2>3, <3>5
    <2> QED
      BY <2>4, <2>5
  <1>4. ASSUME NEW v \in Worker, UpdateProgress(v) \/ HeartbeatRenew(v)
        PROVE  FALSE
    <2>1. /\ published' = published
          /\ \/ UNCHANGED jobs
             \/ \E t \in Age :
                   jobs' = [jobs EXCEPT ![work[v].job].lease = LeaseTime - t]
      BY <1>4 DEF UpdateProgress, HeartbeatRenew, ExtendLease, queue
    <2>2. work[v].job \in Job
      BY <1>4, BusyHasJob DEF UpdateProgress, HeartbeatRenew, At, AfterUpdate, Steps, IInv
    <2> DEFINE k == work[v].job
    <2>3. ASSUME NEW t \in Age, jobs' = [jobs EXCEPT ![k].lease = LeaseTime - t]
          PROVE  jobs'[j].status = jobs[j].status
      <3>1. jobs'[k].status = jobs[k].status
        BY <1>1, <2>2, <2>3 DEF JobRow
      <3>2. j # k => jobs'[j] = jobs[j]
        BY <1>1, <2>2, <2>3
      <3> QED
        BY <3>1, <3>2
    <2> QED
      BY <2>1, <2>3
  <1>5. ASSUME NEW v \in Worker, Publish(v)
        PROVE  \E age \in Age : Owns(v, j, age) /\ work[v].job = j /\ Stop(v)
                                /\ work[v].pc = "publish"
    <2> DEFINE k == work[v].job
    <2>1. k \in Job /\ work[v].pc = "publish"
      BY <1>5, BusyHasJob DEF Publish, At, IInv
    <2>2. PICK age \in Age : /\ ~UNCHANGED queue => ~NoRow(k)
                             /\ ~NoRow(k) => PublishRow(v, k, age)
      BY <1>5 DEF Publish
    <2>3. PublishRow(v, k, age)
      BY <1>2, <2>1, <2>2 DEF queue
    <2>4. Owns(v, k, age) /\ InsertTranscript(k) /\ Stop(v)
      BY <1>2, <2>3 DEF queue, PublishRow, Owns
    <2>5. k = j
      BY <1>1, <2>1, <2>4 DEF InsertTranscript
    <2> QED
      BY <2>1, <2>4, <2>5
  <1>6. ASSUME NEW v \in Worker, FinishCancel(v) \/ FinishFailed(v)
        PROVE  \E age \in Age : /\ Owns(v, j, age) /\ work[v].job = j
                                /\ Goto(v, "readBack")
                                /\ work[v].pc \notin {"idle", "readBack"}
    <2> DEFINE k == work[v].job
    <2>1. k \in Job /\ work[v].pc \notin {"idle", "readBack"}
      BY <1>6, BusyHasJob DEF FinishCancel, FinishFailed, At, IInv
    <2>2. PICK age \in Age, status \in {"failed", "cancelled"} :
            Owns(v, k, age) /\ Finish(k, status) /\ Goto(v, "readBack")
      BY <1>2, <1>6 DEF FinishCancel, FinishFailed, FinishClaimed, queue
    <2>3. k = j
      BY <1>1, <2>1, <2>2 DEF Finish
    <2> QED
      BY <2>1, <2>2, <2>3
  <1>7. CASE UserStep
    <2>1. ASSUME NEW k \in Job, AddJob(k) \/ RequestCancel(k) \/ RetryJob(k)
          PROVE  FALSE
      BY <1>1, <2>1 DEF AddJob, RequestCancel, RetryJob, JobRow, Active
    <2>2. ASSUME NEW r \in Recording, DeleteRecording(r)
          PROVE  FALSE
      BY <1>1, <2>2 DEF DeleteRecording, JobsOf, Active, Settled
    <2> QED
      BY <1>7, <2>1, <2>2 DEF UserStep
  <1>8. CASE TimePasses
    BY <1>1, <1>8 DEF TimePasses, Tick, JobRow
  <1>9. ASSUME NEW v \in Worker,
               \/ Begin(v) \/ Prepare(v) \/ ReportEvent(v) \/ CheckAgain(v) \/ EngineDone(v)
               \/ EngineFails(v)
               \/ HandleError(v) \/ ReadBack(v) \/ LoseLease(v) \/ DatabaseBusy(v)
               \/ HeartbeatGivesUp(v) \/ Crash(v)
        PROVE  FALSE
    BY <1>2, <1>9
       DEF Begin, Prepare, ReportEvent, CheckAgain, EngineDone, CheckCancelled, EngineFails, queue,
           HandleError, ReadBack, LoseLease, DatabaseBusy, HeartbeatGivesUp, Crash
  <1>10. CASE UNCHANGED vars
    BY <1>2, <1>10 DEF vars
  <1> QED
    BY <1>3, <1>4, <1>5, <1>6, <1>7, <1>8, <1>9, <1>10 DEF Next, WorkerStep, Trouble

\* A worker publishes only the attempt it claimed.
THEOREM PublicationIsFenced == Spec => PublicationFence
  <1>1. IInv /\ [Next]_vars =>
          \A w \in Worker, j \in Job :
             /\ j \in published' \ published
             /\ work[w].pc = "publish" /\ work[w].job = j /\ work'[w] = IdleWorker
             => jobs[j].worker = w /\ jobs[j].attempts = work[w].attempt
    <2> SUFFICES ASSUME IInv, [Next]_vars, NEW w \in Worker, NEW j \in Job,
                        j \in published' \ published,
                        work[w].pc = "publish", work[w].job = j, work'[w] = IdleWorker
                 PROVE  jobs[j].worker = w /\ jobs[j].attempts = work[w].attempt
      OBVIOUS
    <2>1. PICK v \in Worker, age \in Age : Owns(v, j, age) /\ (Stop(v) \/ Goto(v, "readBack"))
      BY OwnerActs
    <2>2. v = w
      BY <2>1 DEF Stop, Goto, IdleWorker, IInv, TypeOK
    <2>3. jobs[j].status = "running" /\ jobs[j].worker = w
      BY <2>1, <2>2 DEF Owns
    <2> QED
      BY <2>3 DEF IInv, ClaimsAgree
  <1> QED
    BY <1>1, QueueInvariant, PTL DEF Spec, PublicationFence

\* Whoever takes a job from "running" while w holds an unexpired lease is w.
LEMMA LeaseStep ==
    ASSUME IInv, [Next]_vars, NEW w \in Worker, NEW j \in Job,
           Owns(w, j, 0), jobs'[j].status # "running"
    PROVE  work[w].job = j /\ work'[w] # work[w]
  <1>1. jobs[j].status = "running" /\ jobs[j].worker = w /\ jobs[j] \in JobRow
    BY DEF Owns, IInv, TypeOK, QueueTypeOK
  <1>2. ASSUME NEW age \in Age PROVE ~Expired(j, age)
    BY <1>1, LeaseAssumption, NullAssumption DEF Owns, Expired, JobRow, Age
  <1>3. PICK v \in Worker, age \in Age :
          /\ Owns(v, j, age) /\ work[v].job = j /\ work[v].pc # "idle"
          /\ Stop(v) \/ (Goto(v, "readBack") /\ work[v].pc # "readBack")
    BY <1>1, <1>2, OwnerActs
  <1>4. v = w
    BY <1>1, <1>3 DEF Owns
  <1> QED
    BY <1>3, <1>4 DEF Stop, Goto, IdleWorker, IInv, TypeOK, WorkerState

\* Nobody but the holder of an unexpired lease ends the run or publishes it.
THEOREM LeaseHolderAlone == Spec => LeaseHolderDecides
  <1>1. IInv /\ [Next]_vars =>
          \A w \in Worker, j \in Job :
             Owns(w, j, 0) /\ jobs'[j].status # "running"
               => work[w].job = j /\ work'[w] # work[w]
    BY LeaseStep
  <1> QED
    BY <1>1, QueueInvariant, PTL DEF Spec, LeaseHolderDecides
-----------------------------------------------------------------------------
(* The synchronous command beside the workers.                             *)

\* The invariant of the queue holds beside the command too, and a call that is
\* under way has a job.
SyncIInv ==
    /\ IInv /\ SyncTypeOK
    /\ \A c \in Caller : calls[c].pc # "idle" => calls[c].job \in Job

\* No call is under way in the beginning.
LEMMA SyncStarts == SyncInit => SyncIInv
  BY InitIInv DEF SyncInit, SyncIInv, SyncTypeOK, IInv, CallState, NoCall

\* A call begins with a job, moves on within its run, or returns.
LEMMA CallMoves ==
    ASSUME SyncIInv, NEW c \in Caller, CallStep(c)
    PROVE  \/ calls[c].pc = "idle" /\ \E j \in Job :
                 calls' = [calls EXCEPT ![c] = [pc |-> "added", job |-> j]]
           \/ calls[c].pc = "added" /\ MoveTo(c, "running")
           \/ calls[c].pc = "running" /\ MoveTo(c, "failing")
           \/ calls[c].pc # "idle" /\ Return(c)
  <1>1. CASE AddOwnJob(c)
    BY <1>1 DEF AddOwnJob
  <1>2. CASE MarkRunning(c)
    BY <1>2 DEF MarkRunning
  <1>3. CASE PublishUnowned(c)
    <2>1. calls[c].pc = "running" /\ jobs[calls[c].job].status \in Status
             /\ jobs[calls[c].job].cancel \in BOOLEAN
      BY <1>3 DEF PublishUnowned, SyncIInv, IInv, TypeOK, QueueTypeOK, JobRow
    <2> QED
      BY <1>3, <2>1 DEF PublishUnowned, Status, Active, Settled
  <1>4. CASE EngineRaises(c) \/ MarkFailed(c) \/ Interrupt(c)
    BY <1>4 DEF EngineRaises, MarkFailed, Interrupt
  <1> QED
    BY <1>1, <1>2, <1>3, <1>4 DEF CallStep

\* So a call that is under way keeps a job, and every step of it shows.
LEMMA CallsStayTyped ==
    ASSUME SyncIInv, NEW c \in Caller, CallStep(c)
    PROVE  /\ calls' \in [Caller -> CallState]
           /\ \A d \in Caller : calls'[d].pc # "idle" => calls'[d].job \in Job
           /\ calls' # calls
  BY CallMoves DEF SyncIInv, SyncTypeOK, CallState, Return, MoveTo, NoCall

\* What a call writes keeps the tables, and names no worker in a row that it
\* makes running: it was pending, and pending rows name nobody.
LEMMA CallKeepsTables ==
    ASSUME SyncIInv, NEW c \in Caller, CallStep(c)
    PROVE  /\ QueueTypeOK' /\ QueueConsistent'
           /\ \A k \in Job : jobs'[k].status = "running" =>
                 \/ jobs'[k].worker = NoWorker
                 \/ jobs'[k].worker = jobs[k].worker /\ jobs'[k].attempts = jobs[k].attempts
                    /\ jobs[k].status = "running"
  <1> DEFINE j == calls[c].job
             named == \A k \in Job : jobs'[k].status = "running" =>
                         \/ jobs'[k].worker = NoWorker
                         \/ jobs'[k].worker = jobs[k].worker
                            /\ jobs'[k].attempts = jobs[k].attempts
                            /\ jobs[k].status = "running"
  <1>1. /\ IInv /\ jobs \in [Job -> JobRow]
        /\ calls[c].pc # "idle" => j \in Job
        /\ \A k \in Job : k \in published <=> jobs[k].status = "succeeded"
        /\ \A k \in Job : jobs[k].status \notin Missing => RecordingOf[k] \in recordings
        /\ \A k \in Job : jobs[k].status = "pending" =>
              Claimable(jobs[k]) /\ jobs[k].worker = NoWorker /\ jobs[k].lease = NoLease
    BY DEF SyncIInv, IInv, TypeOK, QueueTypeOK, QueueConsistent, PublishedIffSucceeded,
           RowsKeepRecording, NoRow, QueuedJobsAreClaimable
  <1>2. CASE UNCHANGED queue
    <2>1. QueueTypeOK' /\ QueueConsistent'
      BY <1>2 DEF queue, SyncIInv, IInv, TypeOK, QueueTypeOK, QueueConsistent,
                  QueuedJobsAreClaimable, Claimable, PublishedIffSucceeded, LeasesBelongToRuns,
                  AbsentRowsAreNew, RowsKeepRecording, NoRow, Missing
    <2> QED
      BY <1>2, <2>1 DEF queue
  <1>3. ASSUME NEW k \in Job, AddJob(k)
        PROVE  QueueTypeOK' /\ QueueConsistent' /\ named
    <2> DEFINE row == [jobs[k] EXCEPT !.status = "pending"]
    <2>1. /\ jobs[k] \in JobRow /\ jobs[k].status = "absent" /\ RecordingOf[k] \in recordings
          /\ jobs[k] = NewRow /\ k \notin published
          /\ jobs' = [jobs EXCEPT ![k] = row] /\ UNCHANGED <<published, recordings>>
      BY <1>1, <1>3 DEF AddJob, IInv, QueueConsistent, AbsentRowsAreNew
    <2>2. /\ jobs[k].worker = NoWorker /\ jobs[k].lease = NoLease
          /\ jobs[k].attempts = 0 /\ ~jobs[k].cancel
      BY <2>1 DEF NewRow
    <2>3. row \in JobRow
      BY <2>1 DEF JobRow, Status, Active
    <2>4. GoodRow(k, row) /\ row.status = "pending" /\ row.status # "succeeded"
      BY <2>1, <2>2, AttemptsAssumption DEF JobRow, GoodRow, Missing, Claimable
    <2>5. named
      BY <1>1, <2>1, <2>4
    <2> HIDE DEF row, named
    <2> QED
      BY <1>1, <2>1, <2>3, <2>4, <2>5, RowWriteKeeps
  <1>4. CASE /\ calls[c].pc # "idle" /\ jobs[j].status = "pending"
             /\ jobs' = [jobs EXCEPT ![j].status = "running", ![j].attempts = @ + 1]
             /\ UNCHANGED <<published, recordings>>
    <2> DEFINE row == [jobs[j] EXCEPT !.status = "running", !.attempts = @ + 1]
    <2>1. /\ j \in Job /\ jobs[j] \in JobRow /\ RecordingOf[j] \in recordings
          /\ jobs[j].worker = NoWorker /\ jobs[j].lease = NoLease
          /\ jobs[j].attempts + 1 \in 0 .. MaxAttempts /\ j \notin published
      BY <1>1, <1>4, AttemptsAssumption DEF Claimable, JobRow, Missing
    <2>2. jobs' = [jobs EXCEPT ![j] = row]
      BY <1>1, <1>4, <2>1
    <2>3. row \in JobRow /\ GoodRow(j, row) /\ row.status = "running" /\ row.worker = NoWorker
      BY <2>1 DEF JobRow, Status, Active, GoodRow, Missing
    <2>4. named
      BY <1>1, <2>1, <2>2, <2>3
    <2> HIDE DEF row, named
    <2> QED
      BY <1>1, <1>4, <2>1, <2>2, <2>3, <2>4, RowWriteKeeps
  <1>5. CASE calls[c].pc # "idle" /\ jobs[j].status = "running" /\ InsertTranscript(j)
    <2> DEFINE row == [jobs[j] EXCEPT !.status = "succeeded", !.lease = NoLease]
    <2>1. j \in Job /\ jobs[j] \in JobRow /\ RecordingOf[j] \in recordings
      BY <1>1, <1>5 DEF Missing
    <2>2. jobs' = [jobs EXCEPT ![j] = row]
      BY <1>1, <1>5, <2>1 DEF InsertTranscript
    <2>3. row \in JobRow /\ GoodRow(j, row) /\ row.status = "succeeded"
      BY <2>1 DEF JobRow, Status, Settled, GoodRow, Missing
    <2>4. named
      BY <1>1, <2>1, <2>2, <2>3
    <2> HIDE DEF row, named
    <2> QED
      BY <1>1, <1>5, <2>1, <2>2, <2>3, <2>4, RowWriteKeeps DEF InsertTranscript
  <1>6. CASE calls[c].pc # "idle" /\ jobs[j].status = "running" /\ Finish(j, "failed")
    <2> DEFINE row == [jobs[j] EXCEPT !.status = "failed", !.lease = NoLease]
    <2>1. /\ j \in Job /\ jobs[j] \in JobRow /\ RecordingOf[j] \in recordings
          /\ j \notin published
      BY <1>1, <1>6 DEF Missing
    <2>2. jobs' = [jobs EXCEPT ![j] = row]
      BY <1>1, <1>6, <2>1 DEF Finish
    <2>3. row \in JobRow /\ GoodRow(j, row) /\ row.status = "failed"
      BY <2>1 DEF JobRow, Status, Settled, GoodRow, Missing
    <2>4. named
      BY <1>1, <2>1, <2>2, <2>3
    <2> HIDE DEF row, named
    <2> QED
      BY <1>1, <1>6, <2>1, <2>2, <2>3, <2>4, RowWriteKeeps DEF Finish
  <1> HIDE DEF j, named
  <1>7. CASE AddOwnJob(c)
    BY <1>3, <1>7 DEF AddOwnJob, named
  <1>8. CASE MarkRunning(c)
    BY <1>2, <1>4, <1>8 DEF MarkRunning, j, named
  <1>9. CASE PublishUnowned(c)
    BY <1>1, <1>2, <1>5, <1>9 DEF PublishUnowned, j, named, IInv, TypeOK, JobRow, Status, Active,
       Settled
  <1>10. CASE MarkFailed(c)
    BY <1>2, <1>6, <1>10 DEF MarkFailed, j, named
  <1>11. CASE EngineRaises(c) \/ Interrupt(c)
    BY <1>2, <1>11 DEF EngineRaises, Interrupt, named
  <1> QED
    BY <1>7, <1>8, <1>9, <1>10, <1>11 DEF CallStep, named

\* Every step keeps the invariant: those of the queue as they do without the
\* command, those of a call because nobody's name is in the row they make run.
LEMMA SyncStepKeeps == SyncIInv /\ [SyncNext]_syncVars => SyncIInv'
  <1> SUFFICES ASSUME SyncIInv, [SyncNext]_syncVars
               PROVE  SyncIInv'
    OBVIOUS
  <1>1. CASE [Next]_vars /\ UNCHANGED calls
    <2>1. IInv'
      BY <1>1, StepKeepsIInv DEF SyncIInv
    <2> QED
      BY <1>1, <2>1 DEF SyncIInv, SyncTypeOK, IInv
  <1>2. ASSUME NEW c \in Caller, CallStep(c)
        PROVE  SyncIInv'
    <2>1. /\ UNCHANGED work
          /\ IInv /\ jobs \in [Job -> JobRow]
      BY <1>2 DEF CallStep, SyncIInv, IInv, TypeOK, QueueTypeOK
    <2>2. /\ QueueTypeOK' /\ QueueConsistent'
          /\ \A k \in Job : jobs'[k].status = "running" =>
                \/ jobs'[k].worker = NoWorker
                \/ jobs'[k].worker = jobs[k].worker /\ jobs'[k].attempts = jobs[k].attempts
                   /\ jobs[k].status = "running"
      BY <1>2, CallKeepsTables
    <2>3. IInv'
      BY <2>1, <2>2, NullAssumption DEF IInv, TypeOK, ClaimsAgree
    <2>4. /\ calls' \in [Caller -> CallState]
          /\ \A d \in Caller : calls'[d].pc # "idle" => calls'[d].job \in Job
      BY <1>2, CallsStayTyped
    <2> QED
      BY <2>3, <2>4 DEF SyncIInv, SyncTypeOK, IInv
  <1> QED
    BY <1>1, <1>2 DEF SyncNext, syncVars, vars

\* The invariant of the queue beside the synchronous command.
THEOREM SyncInvariant == SyncSpec => []SyncIInv
  BY SyncStarts, SyncStepKeeps, PTL DEF SyncSpec

\* Beside the command, whose runs have no lease, no queued job is lost to the
\* claim query and a transcript exists exactly for the jobs that succeeded.
THEOREM TablesAgreeBesideCalls == SyncSpec => []TablesAgree
  <1>1. SyncIInv => TablesAgree
    BY DEF SyncIInv, IInv, QueueConsistent, TablesAgree
  <1> QED
    BY <1>1, SyncInvariant, PTL

\* Beside the command, a row names a worker only in the attempt its run claimed.
THEOREM ClaimsAgreeBesideCalls == SyncSpec => []ClaimsAgree
  <1>1. SyncIInv => ClaimsAgree
    BY DEF SyncIInv, IInv
  <1> QED
    BY <1>1, SyncInvariant, PTL

\* Whoever ends a run whose lease a worker still holds is that worker, or a
\* synchronous call.
THEOREM LeasesAreRespected == SyncSpec => WorkersRespectLeases
  <1>1. SyncIInv /\ [SyncNext]_syncVars =>
          \A w \in Worker, j \in Job :
             calls' = calls /\ Owns(w, j, 0) /\ jobs'[j].status # "running"
               => work[w].job = j /\ work'[w] # work[w]
    <2> SUFFICES ASSUME SyncIInv, [SyncNext]_syncVars, NEW w \in Worker, NEW j \in Job,
                        calls' = calls, Owns(w, j, 0), jobs'[j].status # "running"
                 PROVE  work[w].job = j /\ work'[w] # work[w]
      OBVIOUS
    <2>1. IInv
      BY DEF SyncIInv
    <2>2. ASSUME NEW c \in Caller, CallStep(c)
          PROVE  FALSE
      BY <2>2, CallsStayTyped
    <2> QED
      BY <2>1, <2>2, LeaseStep DEF SyncNext, syncVars, vars
  <1> QED
    BY <1>1, SyncInvariant, PTL DEF SyncSpec, WorkersRespectLeases
=============================================================================
