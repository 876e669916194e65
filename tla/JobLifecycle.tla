---------------------------- MODULE JobLifecycle ----------------------------
(***************************************************************************)
(* What the queue promises about every transcription job, whoever runs it. *)
(*                                                                         *)
(* The table of states is _ALLOWED_TRANSITIONS of repository.py, plus the  *)
(* two rules the README states beside it: execution is "at least once"     *)
(* (an attempt that loses its lease goes back to the queue), publication   *)
(* is limited to one transcript per job, and a job whose cancellation was  *)
(* acknowledged while it ran is not published by that run.                 *)
(*                                                                         *)
(* One transaction may move several jobs (a claim first recovers every     *)
(* expired one), so a step moves a set of jobs.                            *)
(***************************************************************************)
EXTENDS Naturals

CONSTANTS Job,          \* the jobs that may ever be created
          MaxAttempts   \* max_attempts of every job

VARIABLE life           \* [Job -> [state, attempts, doomed, published]]

State == {"absent", "pending", "running", "succeeded", "failed", "cancelled", "deleted"}

Unborn == [state |-> "absent", attempts |-> 0, doomed |-> FALSE, published |-> FALSE]

Init == life = [j \in Job |-> Unborn]

\* A job enters the queue with no attempt made.
Create(b, a) ==
    /\ b = Unborn
    /\ a = [b EXCEPT !.state = "pending"]

\* An attempt starts; there are at most MaxAttempts of them.
Start(b, a) ==
    /\ b.state = "pending"
    /\ ~b.doomed
    /\ b.attempts < MaxAttempts
    /\ a = [b EXCEPT !.state = "running", !.attempts = b.attempts + 1]

\* The attempt is abandoned and the job waits for another one ...
Abandon(b, a) ==
    /\ b.state = "running"
    /\ ~b.doomed
    /\ b.attempts < MaxAttempts
    /\ a = [b EXCEPT !.state = "pending"]

\* ... which may start within the same transaction.
Restart(b, a) ==
    /\ b.state = "running"
    /\ ~b.doomed
    /\ b.attempts < MaxAttempts
    /\ a = [b EXCEPT !.attempts = b.attempts + 1]

\* The only step that publishes; it also settles the job.
Succeed(b, a) ==
    /\ b.state = "running"
    /\ ~b.doomed
    /\ a = [b EXCEPT !.state = "succeeded", !.published = TRUE]

Fail(b, a) ==
    /\ b.state = "running"
    /\ a = [b EXCEPT !.state = "failed"]

\* A cancellation dooms the job; a waiting job is settled at once, a running
\* one when its attempt ends.
Doom(b, a) ==
    /\ b.state \in {"pending", "running"}
    /\ a = [b EXCEPT !.doomed = TRUE,
                     !.state = IF b.state = "pending" THEN "cancelled" ELSE "running"]

Cancel(b, a) ==
    /\ b.state = "running"
    /\ b.doomed
    /\ a = [b EXCEPT !.state = "cancelled"]

\* A failed or cancelled job is queued again while attempts remain.
Requeue(b, a) ==
    /\ b.state \in {"failed", "cancelled"}
    /\ b.attempts < MaxAttempts
    /\ a = [b EXCEPT !.state = "pending", !.doomed = FALSE]

\* A settled job may go, with its transcript; it never comes back.
Remove(b, a) ==
    /\ b.state \in {"succeeded", "failed", "cancelled"}
    /\ a = [Unborn EXCEPT !.state = "deleted"]

Step(b, a) ==
    \/ Create(b, a) \/ Start(b, a) \/ Abandon(b, a) \/ Restart(b, a)
    \/ Succeed(b, a) \/ Fail(b, a) \/ Doom(b, a) \/ Cancel(b, a)
    \/ Requeue(b, a) \/ Remove(b, a)

Next == \A j \in Job : life'[j] = life[j] \/ Step(life[j], life'[j])

Spec == Init /\ [][Next]_life
=============================================================================
