-------------------------- MODULE LifecycleProofs --------------------------
(***************************************************************************)
(* The job table under its workers, users and clock implements the life    *)
(* every job is promised (JobLifecycle), for every set of jobs, workers    *)
(* and recordings, every lease time and every attempt limit.               *)
(*                                                                         *)
(* The mapping forgets who holds a lease and where the workers are.  What  *)
(* the step of a worker that records a cancellation needs on top of the    *)
(* invariant of the queue is that the row it still owns was cancelled by a *)
(* user: it looked at the flag several transactions ago (CancelIsSeen).    *)
(***************************************************************************)
EXTENDS TranscriptionWorkerProofs

Cancelling == {"cancelled", "finishCancel"}

\* A worker on its way to record a cancellation still finds the flag on the
\* row, if the row is still its own: only retry_job clears the flag, and it
\* takes no running row.
CancelIsSeen ==
    \A w \in Worker : work[w].pc \in Cancelling =>
        /\ work[w].job \in Job
        /\ jobs[work[w].job].status = "running" /\ jobs[work[w].job].worker = w
           => jobs[work[w].job].cancel

LInv == IInv /\ CancelIsSeen

\* One job stands still or takes a step of the abstract specification.
Moves(j) == \/ lifeOfJobs'[j] = lifeOfJobs[j]
            \/ Lifecycle!Step(lifeOfJobs[j], lifeOfJobs'[j])

\* A running row keeps its worker and its flag, unless it was just claimed.
RunKept(j) ==
    jobs'[j].status = "running" =>
       \/ /\ jobs[j].status = "running"
          /\ jobs'[j].worker = jobs[j].worker
          /\ jobs[j].cancel => jobs'[j].cancel
       \/ \E v \in Worker : jobs'[j].worker = v /\ work'[v].pc = "start"

\* The row looks the same to the abstract specification.
StandsStill(j) ==
    /\ jobs'[j].status = jobs[j].status
    /\ jobs'[j].attempts = jobs[j].attempts
    /\ jobs'[j].cancel = jobs[j].cancel
    /\ j \in published' <=> j \in published

\* A row that looks the same to the abstract specification stutters.
LEMMA StandingMoves ==
    ASSUME NEW j \in Job, StandsStill(j)
    PROVE  Moves(j)
  BY DEF StandsStill, Moves, lifeOfJobs

\* The abstract picture of one row before and after a step.
LEMMA Pictures ==
    ASSUME NEW j \in Job
    PROVE  LET b == lifeOfJobs[j]
               a == lifeOfJobs'[j]
           IN  /\ b = [state |-> b.state, attempts |-> b.attempts,
                       doomed |-> b.doomed, published |-> b.published]
               /\ a = [state |-> a.state, attempts |-> a.attempts,
                       doomed |-> a.doomed, published |-> a.published]
               /\ b.state = jobs[j].status /\ a.state = jobs'[j].status
               /\ b.attempts = jobs[j].attempts /\ a.attempts = jobs'[j].attempts
               /\ b.doomed = jobs[j].cancel /\ a.doomed = jobs'[j].cancel
               /\ b.published = (j \in published) /\ a.published = (j \in published')
               /\ j \notin published => b.published = FALSE
               /\ j \notin published' => a.published = FALSE
               /\ j \in published' => a.published = TRUE
  <1> DEFINE b == lifeOfJobs[j]
             a == lifeOfJobs'[j]
  <1>1. /\ b = [state |-> b.state, attempts |-> b.attempts,
                doomed |-> b.doomed, published |-> b.published]
        /\ a = [state |-> a.state, attempts |-> a.attempts,
                doomed |-> a.doomed, published |-> a.published]
        /\ b.state = jobs[j].status /\ a.state = jobs'[j].status
        /\ b.attempts = jobs[j].attempts /\ a.attempts = jobs'[j].attempts
        /\ b.doomed = jobs[j].cancel /\ a.doomed = jobs'[j].cancel
        /\ b.published = (j \in published) /\ a.published = (j \in published')
    BY DEF lifeOfJobs
  <1>2. /\ j \notin published => (j \in published) = FALSE
        /\ j \notin published' => (j \in published') = FALSE
        /\ j \in published' => (j \in published') = TRUE
    OBVIOUS
  <1> HIDE DEF a, b
  <1>3. /\ j \notin published => b.published = FALSE
        /\ j \notin published' => a.published = FALSE
        /\ j \in published' => a.published = TRUE
    BY <1>1, <1>2
  <1> QED
    BY <1>1, <1>3 DEF a, b

\* A step of a row that neither publishes nor touches the flag is an attempt
\* that starts, is abandoned or ends.
LEMMA AttemptMoves ==
    ASSUME NEW j \in Job,
           jobs'[j].cancel = jobs[j].cancel, j \in published' <=> j \in published,
           \/ /\ jobs[j].status \in {"pending", "running"} /\ jobs'[j].status = "running"
              /\ jobs[j].cancel = FALSE
              /\ jobs[j].attempts < MaxAttempts
              /\ jobs'[j].attempts = jobs[j].attempts + 1
           \/ /\ jobs[j].status = "running"
              /\ jobs'[j].attempts = jobs[j].attempts
              /\ \/ jobs'[j].status = "failed"
                 \/ jobs'[j].status = "cancelled" /\ jobs[j].cancel = TRUE
                 \/ /\ jobs'[j].status = "pending" /\ jobs[j].cancel = FALSE
                    /\ jobs[j].attempts < MaxAttempts
    PROVE  Moves(j)
  <1> DEFINE b == lifeOfJobs[j]
             a == lifeOfJobs'[j]
  <1>1. /\ b = [state |-> b.state, attempts |-> b.attempts,
                doomed |-> b.doomed, published |-> b.published]
        /\ a = [state |-> a.state, attempts |-> a.attempts,
                doomed |-> a.doomed, published |-> a.published]
        /\ b.state = jobs[j].status /\ a.state = jobs'[j].status
        /\ b.attempts = jobs[j].attempts /\ a.attempts = jobs'[j].attempts
        /\ b.doomed = jobs[j].cancel /\ a.doomed = b.doomed
        /\ b.published = a.published
    <2> HIDE DEF a, b
    <2> QED
      BY Pictures DEF a, b
  <1> HIDE DEF a, b
  <1>2. CASE /\ jobs[j].status = "pending" /\ jobs'[j].status = "running"
             /\ jobs[j].cancel = FALSE
             /\ jobs[j].attempts < MaxAttempts
             /\ jobs'[j].attempts = jobs[j].attempts + 1
    <2>1. Lifecycle!Start(b, a)
      BY <1>1, <1>2 DEF Lifecycle!Start
    <2> QED
      BY <2>1 DEF Moves, Lifecycle!Step, a, b
  <1>3. CASE /\ jobs[j].status = "running" /\ jobs'[j].status = "running"
             /\ jobs[j].cancel = FALSE
             /\ jobs[j].attempts < MaxAttempts
             /\ jobs'[j].attempts = jobs[j].attempts + 1
    <2>1. Lifecycle!Restart(b, a)
      BY <1>1, <1>3 DEF Lifecycle!Restart
    <2> QED
      BY <2>1 DEF Moves, Lifecycle!Step, a, b
  <1>4. CASE jobs[j].status = "running" /\ jobs'[j].attempts = jobs[j].attempts
             /\ jobs'[j].status = "failed"
    <2>1. Lifecycle!Fail(b, a)
      BY <1>1, <1>4 DEF Lifecycle!Fail
    <2> QED
      BY <2>1 DEF Moves, Lifecycle!Step, a, b
  <1>5. CASE jobs[j].status = "running" /\ jobs'[j].attempts = jobs[j].attempts
             /\ jobs'[j].status = "cancelled" /\ jobs[j].cancel = TRUE
    <2>1. Lifecycle!Cancel(b, a)
      BY <1>1, <1>5 DEF Lifecycle!Cancel
    <2> QED
      BY <2>1 DEF Moves, Lifecycle!Step, a, b
  <1>6. CASE jobs[j].status = "running" /\ jobs'[j].attempts = jobs[j].attempts
             /\ jobs'[j].status = "pending" /\ jobs[j].cancel = FALSE
             /\ jobs[j].attempts < MaxAttempts
    <2>1. Lifecycle!Abandon(b, a)
      BY <1>1, <1>6 DEF Lifecycle!Abandon
    <2> QED
      BY <2>1 DEF Moves, Lifecycle!Step, a, b
  <1> QED
    BY <1>2, <1>3, <1>4, <1>5, <1>6

\* A row that is written by itself.
LEMMA OneRow ==
    ASSUME IInv, NEW j \in Job, NEW row \in JobRow, jobs' = [jobs EXCEPT ![j] = row],
           published' = published \/ published' = published \cup {j},
           Moves(j), RunKept(j)
    PROVE  \A k \in Job : Moves(k) /\ RunKept(k)
  <1>1. jobs \in [Job -> JobRow]
    BY DEF IInv, TypeOK, QueueTypeOK
  <1> SUFFICES ASSUME NEW k \in Job, k # j
               PROVE  Moves(k) /\ RunKept(k)
    OBVIOUS
  <1>2. jobs'[k] = jobs[k] /\ (k \in published' <=> k \in published)
    BY <1>1
  <1>3. Moves(k)
    BY <1>2, StandingMoves DEF StandsStill
  <1> QED
    BY <1>2, <1>3 DEF RunKept

\* The claim: recovered rows end, wait or start again; the chosen one starts.
LEMMA ClaimMoves ==
    ASSUME IInv, NEW w \in Worker, Claim(w)
    PROVE  \A k \in Job : Moves(k) /\ RunKept(k)
  <1> SUFFICES ASSUME NEW k \in Job
               PROVE  Moves(k) /\ RunKept(k)
    OBVIOUS
  <1>1. PICK age \in Age :
          LET table == Recovered(age)
              ready == ClaimableJobs(table)
              j     == Oldest(ready)
          IN  IF ready = {}
              THEN jobs' = table /\ UNCHANGED work
              ELSE /\ jobs' = [table EXCEPT ![j] = ClaimedRow(table[j], w, age)]
                   /\ work' = [work EXCEPT ![w] =
                                 [pc |-> "start", job |-> j,
                                  attempt |-> table[j].attempts + 1, lost |-> FALSE]]
    BY DEF Claim
  <1> DEFINE table == Recovered(age)
             ready == ClaimableJobs(table)
             j     == Oldest(ready)
  <1>2. published' = published /\ work \in [Worker -> WorkerState]
    BY DEF Claim, IInv, TypeOK
  <1>3. /\ table \in [Job -> JobRow]
        /\ table[k] = IF Expired(k, age) THEN RecoveredRow(jobs[k]) ELSE jobs[k]
        /\ ready \in SUBSET Job
        /\ k \in ready => Claimable(table[k])
        /\ jobs[k] \in JobRow /\ table[k] \in JobRow
    BY RecoveredType DEF IInv, ClaimableJobs, TypeOK, QueueTypeOK
  <1>4. ready # {} => j \in ready
    BY <1>3, OldestIsReady
  <1> HIDE DEF table, ready, j
  <1>5. \/ jobs'[k] = table[k]
        \/ /\ jobs'[k] = ClaimedRow(table[k], w, age)
           /\ Claimable(table[k])
           /\ work'[w].pc = "start"
    <2>1. CASE ready = {}
      BY <1>1, <2>1 DEF table, ready
    <2>2. CASE ready # {}
      <3>1. /\ jobs' = [table EXCEPT ![j] = ClaimedRow(table[j], w, age)]
            /\ work' = [work EXCEPT ![w] =
                          [pc |-> "start", job |-> j,
                           attempt |-> table[j].attempts + 1, lost |-> FALSE]]
        BY <1>1, <2>2 DEF table, ready, j
      <3>2. work'[w].pc = "start"
        BY <1>2, <3>1
      <3>3. CASE k = j
        <4>1. jobs'[k] = ClaimedRow(table[k], w, age)
          BY <1>3, <3>1, <3>3
        <4> QED
          BY <1>3, <1>4, <2>2, <3>2, <3>3, <4>1
      <3>4. CASE k # j
        BY <1>3, <3>1, <3>4
      <3> QED
        BY <3>3, <3>4
    <2> QED
      BY <2>1, <2>2
  <1>6. CASE jobs'[k] = table[k] /\ ~Expired(k, age)
    <2>1. jobs'[k] = jobs[k]
      BY <1>3, <1>6
    <2>2. Moves(k)
      BY <1>2, <2>1, StandingMoves DEF StandsStill
    <2> QED
      BY <2>1, <2>2 DEF RunKept
  <1>7. CASE jobs'[k] = table[k] /\ Expired(k, age)
    <2>1. /\ jobs'[k] = RecoveredRow(jobs[k])
          /\ jobs[k].status = "running"
      BY <1>3, <1>7 DEF Expired
    <2>2. /\ jobs'[k].status = IF jobs[k].cancel THEN "cancelled"
                               ELSE IF jobs[k].attempts >= MaxAttempts THEN "failed"
                               ELSE "pending"
          /\ jobs'[k].attempts = jobs[k].attempts
          /\ jobs'[k].cancel = jobs[k].cancel
      BY <1>3, <2>1 DEF RecoveredRow, JobRow
    <2>3. Moves(k)
      <3>1. jobs[k].attempts \in Nat /\ MaxAttempts \in Nat /\ jobs[k].cancel \in BOOLEAN
        BY <1>3, AttemptsAssumption DEF JobRow
      <3>2. k \in published' <=> k \in published
        BY <1>2
      <3>3. CASE jobs[k].cancel = TRUE
        BY <2>1, <2>2, <3>2, <3>3, AttemptMoves
      <3>4. CASE jobs[k].cancel = FALSE /\ jobs[k].attempts >= MaxAttempts
        BY <2>1, <2>2, <3>2, <3>4, AttemptMoves
      <3>5. CASE jobs[k].cancel = FALSE /\ jobs[k].attempts < MaxAttempts
        <4>1. jobs'[k].status = "pending"
          BY <2>2, <3>1, <3>5
        <4> QED
          BY <2>1, <2>2, <3>2, <3>5, <4>1, AttemptMoves
      <3>6. jobs[k].cancel = TRUE \/ jobs[k].cancel = FALSE
        BY <3>1, Zenon
      <3>7. jobs[k].attempts >= MaxAttempts \/ jobs[k].attempts < MaxAttempts
        BY <3>1
      <3> QED
        BY <3>3, <3>4, <3>5, <3>6, <3>7
    <2> QED
      BY <2>2, <2>3 DEF RunKept
  <1>8. CASE /\ jobs'[k] = ClaimedRow(table[k], w, age)
             /\ Claimable(table[k])
             /\ work'[w].pc = "start"
    <2>1. /\ jobs'[k].status = "running" /\ jobs'[k].worker = w
          /\ jobs'[k].attempts = table[k].attempts + 1
          /\ jobs'[k].cancel = table[k].cancel
          /\ ~table[k].cancel /\ table[k].attempts < MaxAttempts
          /\ table[k].status = "pending"
      BY <1>3, <1>8 DEF ClaimedRow, Claimable, JobRow
    <2>2. RunKept(k)
      BY <1>8, <2>1 DEF RunKept
    <2>3. /\ table[k].attempts = jobs[k].attempts
          /\ table[k].cancel = jobs[k].cancel
          /\ jobs[k].status \in {"pending", "running"}
          /\ jobs[k].cancel = FALSE
      BY <1>3, <2>1 DEF RecoveredRow, JobRow, Expired
    <2>4. Moves(k)
      BY <1>2, <2>1, <2>3, AttemptMoves
    <2> QED
      BY <2>2, <2>4
  <1> QED
    BY <1>5, <1>6, <1>7, <1>8

\* The writes of the holder of a lease.
LEMMA OwnedMoves ==
    ASSUME IInv, NEW w \in Worker, NEW j \in Job, NEW age \in Age, Owns(w, j, age),
           \/ ExtendLease(j, age)
           \/ Finish(j, "failed")
           \/ Finish(j, "cancelled") /\ jobs[j].cancel
           \/ InsertTranscript(j) /\ ~jobs[j].cancel
    PROVE  \A k \in Job : Moves(k) /\ RunKept(k)
  <1>1. /\ jobs \in [Job -> JobRow] /\ jobs[j] \in JobRow
        /\ jobs[j].status = "running" /\ jobs[j].worker = w
        /\ j \notin published
    BY DEF IInv, TypeOK, QueueTypeOK, Owns, QueueConsistent, PublishedIffSucceeded
  <1>2. CASE ExtendLease(j, age)
    <2> DEFINE row == [jobs[j] EXCEPT !.lease = LeaseTime - age]
    <2>1. LeaseTime - age \in Int
      BY LeaseAssumption DEF Age
    <2>2. row \in JobRow
      BY <1>1, <2>1 DEF JobRow
    <2>3. jobs' = [jobs EXCEPT ![j] = row] /\ published' = published
      BY <1>2 DEF ExtendLease
    <2>4. jobs'[j] = row
      BY <1>1, <2>3
    <2>5. /\ row.status = jobs[j].status /\ row.attempts = jobs[j].attempts
          /\ row.cancel = jobs[j].cancel /\ row.worker = jobs[j].worker
      BY <1>1 DEF JobRow
    <2> HIDE DEF row
    <2>6. Moves(j)
      BY <2>3, <2>4, <2>5, StandingMoves DEF StandsStill
    <2>7. RunKept(j)
      BY <1>1, <2>4, <2>5 DEF RunKept
    <2> QED
      BY <2>2, <2>3, <2>6, <2>7, OneRow
  <1>3. ASSUME NEW status \in {"failed", "cancelled"}, Finish(j, status),
               status = "cancelled" => jobs[j].cancel
        PROVE  \A k \in Job : Moves(k) /\ RunKept(k)
    <2> DEFINE row == [jobs[j] EXCEPT !.status = status, !.lease = NoLease]
    <2>1. row \in JobRow
      BY <1>1 DEF JobRow, Status, Settled, Active, Missing
    <2>2. jobs' = [jobs EXCEPT ![j] = row] /\ published' = published
      BY <1>1, <1>3 DEF Finish
    <2>3. jobs'[j] = row
      BY <1>1, <2>2
    <2>4. /\ row.status = status /\ row.attempts = jobs[j].attempts
          /\ row.cancel = jobs[j].cancel
      BY <1>1 DEF JobRow
    <2>5. status = "cancelled" => jobs[j].cancel = TRUE
      BY <1>1, <1>3 DEF JobRow
    <2> HIDE DEF row
    <2>6. Moves(j)
      BY <1>1, <2>2, <2>3, <2>4, <2>5, AttemptMoves
    <2>7. RunKept(j)
      BY <2>3, <2>4 DEF RunKept
    <2> QED
      BY <2>1, <2>2, <2>6, <2>7, OneRow
  <1>4. CASE InsertTranscript(j) /\ ~jobs[j].cancel
    <2> DEFINE row == [jobs[j] EXCEPT !.status = "succeeded", !.lease = NoLease]
               b   == lifeOfJobs[j]
               a   == lifeOfJobs'[j]
    <2>1. row \in JobRow
      BY <1>1 DEF JobRow, Status, Settled, Active, Missing
    <2>2. jobs' = [jobs EXCEPT ![j] = row] /\ published' = published \cup {j}
      BY <1>1, <1>4 DEF InsertTranscript
    <2>3. jobs'[j] = row
      BY <1>1, <2>2
    <2>4. /\ row.status = "succeeded" /\ row.attempts = jobs[j].attempts
          /\ row.cancel = jobs[j].cancel
      BY <1>1 DEF JobRow
    <2>5. jobs[j].cancel = FALSE
      BY <1>1, <1>4 DEF JobRow
    <2> HIDE DEF row, a, b
    <2>6. /\ b = [state |-> b.state, attempts |-> b.attempts,
                  doomed |-> b.doomed, published |-> b.published]
          /\ a = [state |-> a.state, attempts |-> a.attempts,
                  doomed |-> a.doomed, published |-> a.published]
          /\ b.state = "running" /\ a.state = "succeeded"
          /\ a.attempts = b.attempts
          /\ b.doomed = FALSE /\ a.doomed = b.doomed
          /\ a.published = TRUE
      BY <1>1, <2>2, <2>3, <2>4, <2>5, Pictures DEF a, b
    <2>7. Lifecycle!Succeed(b, a)
      BY <2>6 DEF Lifecycle!Succeed
    <2>8. Moves(j)
      BY <2>7 DEF Moves, Lifecycle!Step, a, b
    <2>9. RunKept(j)
      BY <2>3, <2>4 DEF RunKept
    <2> QED
      BY <2>1, <2>2, <2>8, <2>9, OneRow
  <1> QED
    BY <1>2, <1>3, <1>4

\* The users: a job enters, is doomed, is queued again or goes.
LEMMA UserMoves ==
    ASSUME IInv, UserStep
    PROVE  \A k \in Job : Moves(k) /\ RunKept(k)
  <1>1. jobs \in [Job -> JobRow] /\ \A j \in Job : jobs[j] \in JobRow
    BY DEF IInv, TypeOK, QueueTypeOK
  <1>2. ASSUME NEW j \in Job, AddJob(j)
        PROVE  \A k \in Job : Moves(k) /\ RunKept(k)
    <2> DEFINE row == [jobs[j] EXCEPT !.status = "pending"]
               b   == lifeOfJobs[j]
               a   == lifeOfJobs'[j]
    <2>1. jobs[j] = NewRow /\ j \notin published
      BY <1>2 DEF AddJob, IInv, QueueConsistent, AbsentRowsAreNew, PublishedIffSucceeded
    <2>2. row \in JobRow
      BY <1>1 DEF JobRow, Status, Active
    <2>3. jobs' = [jobs EXCEPT ![j] = row] /\ published' = published
      BY <1>2 DEF AddJob
    <2>4. jobs'[j] = row
      BY <1>1, <2>3
    <2>5. /\ row.status = "pending" /\ row.attempts = 0 /\ row.cancel = FALSE
          /\ jobs[j].status = "absent" /\ jobs[j].attempts = 0 /\ jobs[j].cancel = FALSE
      BY <2>1 DEF NewRow
    <2> HIDE DEF row, a, b
    <2>6. /\ b = [state |-> b.state, attempts |-> b.attempts,
                  doomed |-> b.doomed, published |-> b.published]
          /\ a = [state |-> a.state, attempts |-> a.attempts,
                  doomed |-> a.doomed, published |-> a.published]
          /\ b.state = "absent" /\ a.state = "pending"
          /\ b.attempts = 0 /\ a.attempts = 0
          /\ b.doomed = FALSE /\ a.doomed = FALSE
          /\ b.published = FALSE /\ a.published = FALSE
      BY <2>1, <2>3, <2>4, <2>5, Pictures DEF a, b
    <2>7. Lifecycle!Create(b, a)
      BY <2>6 DEF Lifecycle!Create, Lifecycle!Unborn
    <2>8. Moves(j)
      BY <2>7 DEF Moves, Lifecycle!Step, a, b
    <2>9. RunKept(j)
      BY <2>4, <2>5 DEF RunKept
    <2> QED
      BY <2>2, <2>3, <2>8, <2>9, OneRow
  <1>3. ASSUME NEW j \in Job, RequestCancel(j)
        PROVE  \A k \in Job : Moves(k) /\ RunKept(k)
    <2> DEFINE after == IF jobs[j].status = "pending" THEN "cancelled" ELSE "running"
               row   == [jobs[j] EXCEPT !.cancel = TRUE, !.status = after]
               b     == lifeOfJobs[j]
               a     == lifeOfJobs'[j]
    <2>1. jobs[j].status \in {"pending", "running"}
      BY <1>3 DEF RequestCancel, Active
    <2>2. row \in JobRow
      BY <1>1 DEF JobRow, Status, Active, Settled
    <2>3. jobs' = [jobs EXCEPT ![j] = row] /\ published' = published
      BY <1>1, <1>3, <2>1 DEF RequestCancel
    <2>4. jobs'[j] = row
      BY <1>1, <2>3
    <2>5. /\ row.status = after /\ row.attempts = jobs[j].attempts
          /\ row.cancel = TRUE /\ row.worker = jobs[j].worker
      BY <1>1 DEF JobRow
    <2> HIDE DEF after, row, a, b
    <2>6. /\ b = [state |-> b.state, attempts |-> b.attempts,
                  doomed |-> b.doomed, published |-> b.published]
          /\ a = [state |-> a.state, attempts |-> a.attempts,
                  doomed |-> a.doomed, published |-> a.published]
          /\ b.state = jobs[j].status /\ a.state = after
          /\ a.attempts = b.attempts
          /\ a.doomed = TRUE
          /\ a.published = b.published
      BY <2>1, <2>3, <2>4, <2>5, Pictures DEF a, b
    <2>7. Lifecycle!Doom(b, a)
      BY <2>1, <2>6 DEF Lifecycle!Doom, after
    <2>8. Moves(j)
      BY <2>7 DEF Moves, Lifecycle!Step, a, b
    <2>9. RunKept(j)
      BY <2>1, <2>4, <2>5 DEF RunKept, after
    <2> QED
      BY <2>2, <2>3, <2>8, <2>9, OneRow
  <1>4. ASSUME NEW j \in Job, RetryJob(j)
        PROVE  \A k \in Job : Moves(k) /\ RunKept(k)
    <2> DEFINE row == [jobs[j] EXCEPT !.status = "pending", !.cancel = FALSE,
                                      !.worker = NoWorker, !.lease = NoLease]
               b   == lifeOfJobs[j]
               a   == lifeOfJobs'[j]
    <2>1. jobs[j].status \in {"failed", "cancelled"} /\ jobs[j].attempts < MaxAttempts
      BY <1>4 DEF RetryJob
    <2>2. row \in JobRow
      BY <1>1 DEF JobRow, Status, Active
    <2>3. jobs' = [jobs EXCEPT ![j] = row] /\ published' = published
      BY <1>4 DEF RetryJob
    <2>4. jobs'[j] = row
      BY <1>1, <2>3
    <2>5. /\ row.status = "pending" /\ row.attempts = jobs[j].attempts
          /\ row.cancel = FALSE
      BY <1>1 DEF JobRow
    <2> HIDE DEF row, a, b
    <2>6. /\ b = [state |-> b.state, attempts |-> b.attempts,
                  doomed |-> b.doomed, published |-> b.published]
          /\ a = [state |-> a.state, attempts |-> a.attempts,
                  doomed |-> a.doomed, published |-> a.published]
          /\ b.state \in {"failed", "cancelled"} /\ a.state = "pending"
          /\ b.attempts < MaxAttempts /\ a.attempts = b.attempts
          /\ a.doomed = FALSE
          /\ a.published = b.published
      BY <2>1, <2>3, <2>4, <2>5, Pictures DEF a, b
    <2>7. Lifecycle!Requeue(b, a)
      BY <2>6 DEF Lifecycle!Requeue
    <2>8. Moves(j)
      BY <2>7 DEF Moves, Lifecycle!Step, a, b
    <2>9. RunKept(j)
      BY <2>4, <2>5 DEF RunKept
    <2> QED
      BY <2>2, <2>3, <2>8, <2>9, OneRow
  <1>5. ASSUME NEW r \in Recording, DeleteRecording(r), NEW k \in Job
        PROVE  Moves(k) /\ RunKept(k)
    <2>1. CASE k \in JobsOf(r) /\ jobs[k].status \in Settled
      <3> DEFINE b == lifeOfJobs[k]
                 a == lifeOfJobs'[k]
      <3>1. /\ jobs'[k] = [NewRow EXCEPT !.status = "deleted"]
            /\ k \notin published'
        BY <1>5, <2>1 DEF DeleteRecording
      <3>2. jobs'[k].status = "deleted" /\ jobs'[k].attempts = 0 /\ jobs'[k].cancel = FALSE
        BY <3>1 DEF NewRow
      <3> HIDE DEF a, b
      <3>3. /\ a = [state |-> a.state, attempts |-> a.attempts,
                    doomed |-> a.doomed, published |-> a.published]
            /\ b.state \in {"succeeded", "failed", "cancelled"} /\ a.state = "deleted"
            /\ a.attempts = 0 /\ a.doomed = FALSE /\ a.published = FALSE
        BY <2>1, <3>1, <3>2, Pictures DEF a, b, Settled
      <3>4. a = [Lifecycle!Unborn EXCEPT !.state = "deleted"]
        <4> DEFINE u == Lifecycle!Unborn
        <4>1. /\ u = [state |-> u.state, attempts |-> u.attempts,
                      doomed |-> u.doomed, published |-> u.published]
              /\ u.attempts = 0 /\ u.doomed = FALSE /\ u.published = FALSE
          BY DEF Lifecycle!Unborn
        <4> HIDE DEF u
        <4>2. a = [u EXCEPT !.state = "deleted"]
          BY <3>3, <4>1
        <4> QED
          BY <4>2 DEF u
      <3>5. Moves(k)
        BY <3>3, <3>4 DEF Moves, Lifecycle!Step, Lifecycle!Remove, a, b
      <3> QED
        BY <3>2, <3>5 DEF RunKept
    <2>2. CASE ~(k \in JobsOf(r) /\ jobs[k].status \in Settled)
      <3>1. jobs'[k] = jobs[k]
        BY <1>5, <2>2 DEF DeleteRecording
      <3>2. k \in published' <=> k \in published
        BY <1>5, <2>2 DEF DeleteRecording, IInv, QueueConsistent, PublishedIffSucceeded, Settled
      <3> QED
        BY <3>1, <3>2, StandingMoves DEF StandsStill, RunKept
    <2> QED
      BY <2>1, <2>2
  <1> QED
    BY <1>2, <1>3, <1>4, <1>5 DEF UserStep

\* Whoever records a cancellation owns a cancelled row.
LEMMA CancelMoves ==
    ASSUME LInv, NEW w \in Worker, FinishCancel(w) \/ FinishFailed(w)
    PROVE  \A k \in Job : Moves(k) /\ RunKept(k)
  <1> DEFINE j == work[w].job
  <1>1. j \in Job /\ IInv
    BY BusyHasJob DEF LInv, IInv, FinishCancel, FinishFailed, At
  <1>2. CASE UNCHANGED queue
    BY <1>2, StandingMoves DEF queue, StandsStill, RunKept
  <1>3. CASE ~UNCHANGED queue
    <2>1. CASE FinishCancel(w)
      <3>1. PICK age \in Age : Owns(w, j, age) /\ Finish(j, "cancelled")
        BY <1>3, <2>1 DEF FinishCancel, FinishClaimed
      <3>2. jobs[j].cancel
        BY <2>1, <3>1 DEF LInv, CancelIsSeen, Cancelling, FinishCancel, At, Owns
      <3> QED
        BY <1>1, <3>1, <3>2, OwnedMoves
    <2>2. CASE FinishFailed(w)
      <3>1. PICK age \in Age : Owns(w, j, age) /\ Finish(j, "failed")
        BY <1>3, <2>2 DEF FinishFailed, FinishClaimed
      <3> QED
        BY <1>1, <3>1, OwnedMoves
    <2> QED
      BY <2>1, <2>2
  <1> QED
    BY <1>2, <1>3

\* Every step of the queue is a step of the promised life, job by job.
LEMMA StepMoves ==
    ASSUME LInv, [Next]_vars
    PROVE  \A k \in Job : Moves(k) /\ RunKept(k)
  <1>1. IInv /\ jobs \in [Job -> JobRow]
    BY DEF LInv, IInv, TypeOK, QueueTypeOK
  <1>2. CASE UNCHANGED queue
    BY <1>2, StandingMoves DEF queue, StandsStill, RunKept
  <1>3. ASSUME NEW w \in Worker, Claim(w)
        PROVE  \A k \in Job : Moves(k) /\ RunKept(k)
    BY <1>1, <1>3, ClaimMoves
  <1>4. ASSUME NEW w \in Worker, UpdateProgress(w) \/ HeartbeatRenew(w), ~UNCHANGED queue
        PROVE  \A k \in Job : Moves(k) /\ RunKept(k)
    <2> DEFINE j == work[w].job
    <2>1. j \in Job
      BY <1>1, <1>4, BusyHasJob DEF IInv, UpdateProgress, HeartbeatRenew, At, AfterUpdate, Steps
    <2>2. PICK age \in Age : Owns(w, j, age) /\ ExtendLease(j, age)
      BY <1>4 DEF UpdateProgress, HeartbeatRenew
    <2> QED
      BY <1>1, <2>1, <2>2, OwnedMoves
  <1>5. ASSUME NEW w \in Worker, Publish(w), ~UNCHANGED queue
        PROVE  \A k \in Job : Moves(k) /\ RunKept(k)
    <2> DEFINE j == work[w].job
    <2>1. j \in Job
      BY <1>1, <1>5, BusyHasJob DEF IInv, Publish, At
    <2>2. PICK age \in Age : PublishRow(w, j, age)
      BY <1>5 DEF Publish
    <2>3. Owns(w, j, age) /\ InsertTranscript(j) /\ ~jobs[j].cancel
      BY <1>5, <2>2 DEF PublishRow, Owns
    <2> QED
      BY <1>1, <2>1, <2>3, OwnedMoves
  <1>6. ASSUME NEW w \in Worker, FinishCancel(w) \/ FinishFailed(w)
        PROVE  \A k \in Job : Moves(k) /\ RunKept(k)
    BY <1>6, CancelMoves
  <1>7. CASE UserStep
    BY <1>1, <1>7, UserMoves
  <1>8. CASE TimePasses
    <2> SUFFICES ASSUME NEW k \in Job PROVE Moves(k) /\ RunKept(k)
      OBVIOUS
    <2>1. /\ jobs'[k].status = jobs[k].status /\ jobs'[k].worker = jobs[k].worker
          /\ jobs'[k].attempts = jobs[k].attempts /\ jobs'[k].cancel = jobs[k].cancel
          /\ published' = published
      BY <1>1, <1>8 DEF TimePasses, Tick, JobRow
    <2> QED
      BY <2>1, StandingMoves DEF StandsStill, RunKept
  <1>9. ASSUME NEW w \in Worker,
               \/ Begin(w) \/ Prepare(w) \/ ReportEvent(w) \/ CheckAgain(w) \/ EngineDone(w)
               \/ HandleError(w) \/ ReadBack(w) \/ LoseLease(w) \/ Trouble(w)
        PROVE  UNCHANGED queue
    BY <1>9
       DEF Begin, Prepare, ReportEvent, CheckAgain, EngineDone, CheckCancelled, HandleError,
           ReadBack, LoseLease, Trouble, EngineFails, DatabaseBusy, HeartbeatGivesUp, Crash
  <1>10. CASE UNCHANGED vars
    BY <1>2, <1>10 DEF vars, queue
  <1> QED
    BY <1>2, <1>3, <1>4, <1>5, <1>6, <1>7, <1>8, <1>9, <1>10 DEF Next, WorkerStep

\* A worker turns to record a cancellation only after it saw the flag.
LEMMA TurnsToCancel ==
    ASSUME IInv, [Next]_vars, NEW w \in Worker, work'[w].pc \in Cancelling
    PROVE  /\ work'[w].job = work[w].job
           /\ work[w].pc # "idle"
           /\ \/ work[w].pc \in Cancelling
              \/ jobs[work[w].job].cancel
  <1>1. work \in [Worker -> WorkerState]
    BY DEF IInv, TypeOK
  <1>2. CASE work'[w] = work[w]
    BY <1>2 DEF Cancelling
  <1>3. ASSUME NEW v \in Worker, Claim(v)
        PROVE  work'[w] = work[w]
    <2>1. \/ work' = work
          \/ \E j, n : work' = [work EXCEPT ![v] = [pc |-> "start", job |-> j,
                                                   attempt |-> n, lost |-> FALSE]]
      BY <1>3, Zenon DEF Claim
    <2> QED
      BY <1>1, <2>1 DEF Cancelling
  <1>4. ASSUME NEW v \in Worker, Stop(v)
        PROVE  work'[w] = work[w]
    BY <1>1, <1>4 DEF Stop, IdleWorker, Cancelling
  <1>5. ASSUME NEW v \in Worker, NEW pc, Goto(v, pc), work[v].pc # "idle",
               pc \in Cancelling => (v = w => jobs[work[v].job].cancel)
        PROVE  /\ work'[w].job = work[w].job
               /\ work[w].pc # "idle"
               /\ work[w].pc \in Cancelling \/ jobs[work[w].job].cancel
    <2>1. CASE v = w
      BY <1>1, <1>5, <2>1 DEF Goto, WorkerState
    <2>2. CASE v # w
      <3>1. work'[w] = work[w]
        BY <1>1, <1>5, <2>2 DEF Goto
      <3> QED
        BY <1>2, <3>1
    <2> QED
      BY <2>1, <2>2
  <1>6. ASSUME NEW v \in Worker, work' = [work EXCEPT ![v].lost = TRUE]
        PROVE  work'[w].pc = work[w].pc /\ work'[w].job = work[w].job
    BY <1>1, <1>6 DEF WorkerState
  <1>7. ASSUME NEW v \in Worker, NEW next \in {"loading", "progress", "finalizing", "error"},
               CheckCancelled(v, next), work[v].pc # "idle"
        PROVE  Stop(v) \/ \E pc : /\ Goto(v, pc)
                                  /\ pc \in Cancelling => jobs[work[v].job].cancel
    BY <1>7 DEF CheckCancelled, Cancelling
  <1>8. ASSUME NEW v \in Worker, WorkerStep(v) \/ HeartbeatRenew(v) \/ Trouble(v)
        PROVE  \/ work' = work \/ Stop(v) \/ Claim(v)
               \/ work' = [work EXCEPT ![v].lost = TRUE]
               \/ /\ work[v].pc # "idle"
                  /\ \E pc : Goto(v, pc) /\ (pc \in Cancelling => jobs[work[v].job].cancel)
    <2>1. CASE Prepare(v) \/ ReportEvent(v) \/ CheckAgain(v) \/ EngineDone(v)
      BY <1>7, <2>1 DEF Prepare, ReportEvent, CheckAgain, EngineDone, At
    <2>2. CASE Begin(v) \/ LoseLease(v) \/ EngineFails(v) \/ ReadBack(v)
      BY <2>2 DEF Begin, LoseLease, EngineFails, ReadBack, At, Cancelling
    <2>3. CASE UpdateProgress(v)
      <3>1. work[v].pc # "idle" /\ AfterUpdate[work[v].pc] \in {"engine", "publish"}
        BY <2>3 DEF UpdateProgress, At, AfterUpdate
      <3> QED
        BY <2>3, <3>1 DEF UpdateProgress, Cancelling
    <2>4. CASE Publish(v)
      <3>1. work[v].pc # "idle" /\ (Stop(v) \/ Goto(v, "error"))
        BY <2>4 DEF Publish, PublishRow, At
      <3> QED
        BY <3>1 DEF Cancelling
    <2>5. CASE FinishCancel(v) \/ FinishFailed(v)
      BY <2>5 DEF FinishCancel, FinishFailed, FinishClaimed, At, Cancelling
    <2>6. CASE HandleError(v)
      BY <2>6 DEF HandleError, At, Cancelling
    <2>7. CASE DatabaseBusy(v) \/ HeartbeatGivesUp(v) \/ Crash(v) \/ HeartbeatRenew(v)
      BY <2>7 DEF DatabaseBusy, HeartbeatGivesUp, Crash, HeartbeatRenew, At, Cancelling
    <2> QED
      BY <1>8, <2>1, <2>2, <2>3, <2>4, <2>5, <2>6, <2>7 DEF WorkerStep, Trouble
  <1>9. CASE UserStep \/ TimePasses \/ UNCHANGED vars
    BY <1>2, <1>9 DEF UserStep, TimePasses, vars
  <1>10. CASE \E v \in Worker : WorkerStep(v) \/ HeartbeatRenew(v) \/ Trouble(v)
    <2>1. PICK v \in Worker : WorkerStep(v) \/ HeartbeatRenew(v) \/ Trouble(v)
      BY <1>10
    <2>2. CASE work' = work \/ Stop(v) \/ Claim(v)
      BY <1>2, <1>3, <1>4, <2>2
    <2>3. CASE work' = [work EXCEPT ![v].lost = TRUE]
      BY <1>6, <2>3 DEF Cancelling
    <2>4. CASE /\ work[v].pc # "idle"
               /\ \E pc : Goto(v, pc) /\ (pc \in Cancelling => jobs[work[v].job].cancel)
      BY <1>5, <2>4
    <2> QED
      BY <1>8, <2>1, <2>2, <2>3, <2>4
  <1> QED
    BY <1>9, <1>10 DEF Next

\* The invariant of the refinement is inductive.
LEMMA LInvHolds ==
    /\ Init => LInv
    /\ LInv /\ [Next]_vars => LInv'
  <1>1. Init => LInv
    BY InitIInv DEF LInv, CancelIsSeen, Cancelling, Init, IdleWorker
  <1>2. ASSUME LInv, [Next]_vars
        PROVE  LInv'
    <2>1. IInv'
      BY <1>2, StepKeepsIInv DEF LInv
    <2>2. CancelIsSeen'
      <3> SUFFICES ASSUME NEW w \in Worker, work'[w].pc \in Cancelling
                   PROVE  /\ work'[w].job \in Job
                          /\ (/\ jobs'[work'[w].job].status = "running"
                              /\ jobs'[work'[w].job].worker = w)
                             => jobs'[work'[w].job].cancel
        BY DEF CancelIsSeen
      <3> DEFINE j == work[w].job
      <3>1. /\ work'[w].job = j /\ work[w].pc # "idle"
            /\ work[w].pc \in Cancelling \/ jobs[j].cancel
        BY <1>2, TurnsToCancel DEF LInv
      <3>2. j \in Job
        BY <1>2, <3>1, BusyHasJob DEF LInv, IInv
      <3>3. SUFFICES ASSUME jobs'[j].status = "running", jobs'[j].worker = w
                     PROVE  jobs'[j].cancel
        BY <3>1, <3>2
      <3>4. RunKept(j)
        BY <1>2, <3>2, StepMoves
      <3>5. work'[w].pc # "start"
        BY DEF Cancelling
      <3>6. /\ jobs[j].status = "running" /\ jobs'[j].worker = jobs[j].worker
            /\ jobs[j].cancel => jobs'[j].cancel
        BY <3>3, <3>4, <3>5 DEF RunKept
      <3>7. jobs[j].cancel
        BY <1>2, <3>1, <3>3, <3>6 DEF LInv, CancelIsSeen
      <3> QED
        BY <3>6, <3>7
    <2> QED
      BY <2>1, <2>2 DEF LInv
  <1> QED
    BY <1>1, <1>2

\* The queue with its workers, users, crashes and clock implements
\* JobLifecycle: every job goes through the states of _ALLOWED_TRANSITIONS,
\* no job is attempted more often than max_attempts, and no run that was told
\* to stop is published.
THEOREM LifeIsAsPromised == Spec => ImplementsLifecycle
  <1>1. Init => Lifecycle!Init
    <2> SUFFICES ASSUME Init PROVE lifeOfJobs = [j \in Job |-> Lifecycle!Unborn]
      BY DEF Lifecycle!Init
    <2>1. ASSUME NEW j \in Job
          PROVE  lifeOfJobs[j] = Lifecycle!Unborn
      <3> DEFINE b == lifeOfJobs[j]
      <3>1. /\ jobs[j].status = "absent" /\ jobs[j].attempts = 0 /\ jobs[j].cancel = FALSE
            /\ j \notin published
        BY DEF Init, QueueInit, NewRow
      <3> HIDE DEF b
      <3>2. /\ b = [state |-> b.state, attempts |-> b.attempts,
                    doomed |-> b.doomed, published |-> b.published]
            /\ b.state = "absent" /\ b.attempts = 0 /\ b.doomed = FALSE
            /\ b.published = FALSE
        BY <3>1, Pictures DEF b
      <3>3. b = Lifecycle!Unborn
        BY <3>2 DEF Lifecycle!Unborn
      <3> QED
        BY <3>3 DEF b
    <2>2. lifeOfJobs = [j \in Job |-> lifeOfJobs[j]]
      BY DEF lifeOfJobs
    <2> HIDE DEF lifeOfJobs
    <2> QED
      BY <2>1, <2>2
  <1>2. LInv /\ [Next]_vars => [Lifecycle!Next]_lifeOfJobs
    BY StepMoves DEF Moves, Lifecycle!Next
  <1> QED
    BY <1>1, <1>2, LInvHolds, PTL DEF Spec, ImplementsLifecycle, Lifecycle!Spec
=============================================================================
